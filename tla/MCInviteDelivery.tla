-------------------------- MODULE MCInviteDelivery --------------------------
(* Instance of InviteDelivery for TLC. *)
EXTENDS InviteDelivery, TLC

CONSTANTS a1, a2, a3

MCAttempts == {a1, a2, a3}
MCRequests == {[email |-> "ann", key |-> "k1"], [email |-> "bob", key |-> "k1"],
               [email |-> "ann", key |-> "k2"]}

MCSymmetry == Permutations(MCAttempts)
=============================================================================
