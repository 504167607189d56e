SPECIFICATION Spec
CONSTANTS
    p1 = p1
    p2 = p2
    a1 = a1
    r1 = r1
    r2 = r2
    x1 = x1
    x2 = x2
    k1 = k1
    k2 = k2
    Packets <- MCPackets
    Approvals <- MCApprovals
    Resolutions <- MCResolutions
    Attempts <- MCAttempts
    Clients <- MCClients
    NoClient = none
    Verdicts <- MCVerdicts
CHECK_DEADLOCK FALSE
SYMMETRY MCSymmetry
INVARIANTS OneEffectPerReceipt NoDoubleContinue SuccessIsReceipted
PROPERTY DecisionsAreFinal
