------------------------------- MODULE Outbox -------------------------------
(***************************************************************************)
(* What the projection outbox promises, whatever carries its messages: an  *)
(* effect is owed from the commit that writes its row; it is delivered     *)
(* only once a graph that contains it was installed, and then for good; it *)
(* may be given up, and is not taken up again, but an attempt still under  *)
(* way may deliver it all the same.  Graphs show committed effects only.   *)
(*                                                                         *)
(* ProjectionOutbox implements this specification.                         *)
(***************************************************************************)
CONSTANT Rows

VARIABLES
    stage,   \* stage[r]: how far the effect of row r has come
    shown    \* effects some installed graph has contained

vars == <<stage, shown>>

Stages == {"uncommitted", "owed", "delivered", "given_up"}
Committed == {r \in Rows : stage[r] # "uncommitted"}

Init ==
    /\ stage = [r \in Rows |-> "uncommitted"]
    /\ shown = {}

Commit(r) ==
    /\ stage[r] = "uncommitted"
    /\ stage' = [stage EXCEPT ![r] = "owed"]
    /\ UNCHANGED shown

(* A graph built from what was committed when its facts were read. *)
Install ==
    /\ \E S \in SUBSET Committed : shown' = shown \union S
    /\ UNCHANGED stage

Deliver(r) ==
    /\ stage[r] \in {"owed", "given_up"}
    /\ r \in shown
    /\ stage' = [stage EXCEPT ![r] = "delivered"]
    /\ UNCHANGED shown

GiveUp(r) ==
    /\ stage[r] = "owed"
    /\ stage' = [stage EXCEPT ![r] = "given_up"]
    /\ UNCHANGED shown

Next == Install \/ \E r \in Rows : Commit(r) \/ Deliver(r) \/ GiveUp(r)

Spec == Init /\ [][Next]_vars
=============================================================================
