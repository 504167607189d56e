------------------------- MODULE MCProjectionOutbox -------------------------
(* Instances of ProjectionOutbox for TLC. *)
EXTENDS ProjectionOutbox, TLC

CONSTANTS r1, r2, d1, d2, c1, c2

MCRows == {r1, r2}
MCOneRow == {r1}
MCDispatchers == {d1, d2}
MCConsumers == {c1, c2}

(* Runs and invocations are interchangeable. *)
MCWorkers == Permutations(MCDispatchers) \union Permutations(MCConsumers)
=============================================================================
