SPECIFICATION ExecutorFairSpec
CONSTANTS
    k1 = k1
    u1 = u1
    f1 = f1
    f2 = f2
    x1 = x1
    x2 = x2
    Commands <- MCCommands
    Known <- MCKnown
    Unknown <- MCUnknown
    Executors <- MCExecutors
    MaxBatch = 2
    MaxStops = 2
CHECK_DEADLOCK FALSE
INVARIANTS VerbRunsAtMostOnce TerminalIsExplained
PROPERTY CommandsFinish
