SPECIFICATION Spec
CONSTANTS
    a1 = a1
    a2 = a2
    a3 = a3
    Requests <- MCRequests
    Attempts <- MCAttempts
SYMMETRY MCSymmetry
CHECK_DEADLOCK FALSE
INVARIANTS ReceiptNamesInvitation SentOncePerCommand
PROPERTIES ImplementsStrictCommand
