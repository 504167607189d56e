------------------------- MODULE MCIdempotencyGuard -------------------------
(* Instances of IdempotencyGuard for TLC. *)
EXTENDS IdempotencyGuard

CONSTANTS q1, q2, q3, q4

MCRequests == {q1, q2, q3, q4}
=============================================================================
