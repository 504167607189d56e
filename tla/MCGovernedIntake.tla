-------------------------- MODULE MCGovernedIntake --------------------------
(* Instance of GovernedIntake for TLC. *)
EXTENDS GovernedIntake, TLC

CONSTANTS p1, p2, a1, r1, r2, x1, x2, k1, k2

MCPackets == {p1, p2}
MCApprovals == {a1}
MCResolutions == {r1, r2}
MCAttempts == {x1, x2}
MCClients == {k1, k2}
MCVerdicts == {"approved", "rejected"}
MCSymmetry ==
    Permutations(MCResolutions) \union Permutations(MCAttempts)
    \union Permutations(MCClients) \union Permutations(MCPackets)
=============================================================================
