--------------------------- MODULE MCGraphPersist ---------------------------
(* Instance of GraphPersist for TLC. *)
EXTENDS GraphPersist

CONSTANTS w1, w2

MCRebuilders == {w1, w2}
MCContents == {0, 1}
=============================================================================
