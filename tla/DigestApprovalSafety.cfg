SPECIFICATION FairSpec
CONSTANTS
    e1 = e1
    s1 = s1
    s2 = s2
    MaxDays = 2
    Executed <- MCExecuted
    Sweeps <- MCSweeps
    MaxFaults = 1
INVARIANT PostedWasApproved
PROPERTIES DecisionIsFinal ApprovedIsPosted
