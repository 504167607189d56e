SPECIFICATION Spec
CONSTANTS
    a1 = a1
    a2 = a2
    a3 = a3
    s1 = s1
    s2 = s2
    Users <- MCUsers
    Owner = "o1"
    Roles0 <- MCRoles0
    Requests <- MCRequests
    Attempts <- MCAttempts
    Switchers = {"guest"}
    Sessions <- MCSessions
    Invited <- MCInvited
SYMMETRY MCSymmetry
CHECK_DEADLOCK FALSE
INVARIANTS WorkspaceHasOwner AuthorityFollowsMembership
PROPERTIES JoinOnlyAdds ImplementsStrictCommand
