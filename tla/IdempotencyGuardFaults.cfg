SPECIFICATION FairSpec
CONSTANTS
    q1 = q1
    q2 = q2
    q3 = q3
    q4 = q4
    NoRequest = none
    Requests <- MCRequests
    MaxFailures = 2
    MaxFaults = 2
CHECK_DEADLOCK FALSE
INVARIANTS ReplaysComeFromEffects AtMostOneEffect
PROPERTIES StoredResponseIsFinal ReservationEnds
