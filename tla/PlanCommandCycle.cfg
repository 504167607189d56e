SPECIFICATION Spec
CONSTANTS
    a1 = a1
    a2 = a2
    a3 = a3
    Seed = Seed
    Ids <- MCIds
    Requests <- MCCrossMoves
    Plans <- MCPlans
    Attempts <- MCTwoAttempts
CHECK_DEADLOCK FALSE
INVARIANT HierarchyIsForest
