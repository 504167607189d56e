------------------------ MODULE MCOperationsExecutor ------------------------
(* Instance of OperationsExecutor for TLC. *)
EXTENDS OperationsExecutor

CONSTANTS k1, u1, f1, f2, x1, x2

MCCommands == {k1, u1, f1, f2}
MCKnown == {k1}
MCUnknown == {u1}
MCExecutors == {x1, x2}
=============================================================================
