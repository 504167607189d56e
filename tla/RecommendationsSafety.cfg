SPECIFICATION Spec
CONSTANTS
    e1 = e1
    e2 = e2
    g = g
    x1 = x1
    t1 = t1
    t2 = t2
    d1 = d1
    d2 = d2
    Events <- MCEvents
    Goals = {g}
    Detected = {x1}
    Ticks <- MCTicks
    Decisions <- MCDecisions
    Limit = 1
    Ahead = 1
    MaxRows = 2
SYMMETRY MCSymmetry
CHECK_DEADLOCK FALSE
INVARIANTS TypeOK NoEventForgotten DebounceHolds 
PROPERTY SettledIsFinal
