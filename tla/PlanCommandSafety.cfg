SPECIFICATION FairSpec
CONSTANTS
    a1 = a1
    a2 = a2
    a3 = a3
    Seed = Seed
    Ids <- MCIds
    Requests <- MCRequests
    Plans <- MCPlans
    Attempts <- MCAttempts
CHECK_DEADLOCK FALSE
INVARIANTS TypeOK SiblingsPacked
PROPERTIES NoLostUpdate ImplementsStrictCommand EveryAttemptAnswers
