-------------------------- MODULE MCDigestApproval --------------------------
(* Instance of DigestApproval for TLC. *)
EXTENDS DigestApproval

CONSTANTS e1, s1, s2

MCExecuted == {e1}
MCSweeps == {s1, s2}
=============================================================================
