---------------------------- MODULE MCMembership ----------------------------
(* Instance of Membership for TLC. *)
EXTENDS Membership, TLC

CONSTANTS a1, a2, a3, s1, s2

MCUsers == {"o1", "o2", "guest"}
MCRoles0 == [u \in MCUsers |-> IF u = "guest" THEN "none" ELSE "owner"]
MCAttempts == {a1, a2, a3}
MCSessions == {s1, s2}
MCInvited == [s \in MCSessions |-> [user |-> "guest", role |-> "operator"]]

Rq(op, user_, role, key) == [op |-> op, user |-> user_, role |-> role, key |-> key]

(* The owner steps down or removes the other owner; the guest is made      *)
(* owner, demoted with the same key, or removed; self-removal is refused.  *)
MCRequests == {
    Rq("role", "o1", "viewer", "k1"), Rq("remove", "o2", "none", "k1"),
    Rq("role", "guest", "owner", "k2"), Rq("role", "guest", "client", "k2"),
    Rq("remove", "guest", "none", "k2"), Rq("remove", "o1", "none", "k3")}

MCSymmetry == Permutations(MCAttempts) \union Permutations(MCSessions)
=============================================================================
