SPECIFICATION GraphFairSpec
CONSTANTS
    w1 = w1
    w2 = w2
    Rebuilders <- MCRebuilders
    Tables = 2
    Contents <- MCContents
    MaxChanges = 2
    MaxStops = 2
PROPERTY ConvergenceStays
PROPERTY AnchorConverges
PROPERTY GraphConverges
