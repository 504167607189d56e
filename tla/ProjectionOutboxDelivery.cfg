SPECIFICATION FairSpec
CONSTANTS
    r1 = r1
    r2 = r2
    d1 = d1
    d2 = d2
    c1 = c1
    c2 = c2
    Rows <- MCOneRow
    Governed <- MCOneRow
    Dispatchers <- MCDispatchers
    Consumers <- MCConsumers
    BatchLimit = 2
    MaxDeliveries = 2
    MaxFaults = 5
    SlowDispatch = FALSE
CHECK_DEADLOCK FALSE
INVARIANT NoRowLost
PROPERTY GovernedRowsSettle
