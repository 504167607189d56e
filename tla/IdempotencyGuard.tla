-------------------------- MODULE IdempotencyGuard --------------------------
(***************************************************************************)
(* The ordinary retry guard around a mutating route, for one (workspace,   *)
(* Idempotency-Key) pair:                                                  *)
(*                                                                         *)
(*   lib/idempotency.ts            withIdempotency, idempotencyMiddleware  *)
(*   dal/idempotency-store.ts      reserve, complete, release              *)
(*                                                                         *)
(* Every request carrying the key is a process: first attempts, retries    *)
(* after a lost answer and concurrent double clicks are all requests that  *)
(* may start at any time.  The reservation is one INSERT followed, on a    *)
(* conflict, by a separate SELECT; the handler runs between the            *)
(* reservation and its completion or release.                              *)
(***************************************************************************)
EXTENDS Naturals, FiniteSets

CONSTANTS
    Requests,     \* the requests that carry the key
    NoRequest,    \* no request
    MaxFailures,  \* bound: handlers that do not end in a replayable 2xx
    MaxFaults     \* bound: statements of the guard that reject, and crashes

ASSUME NoRequestAssumption == NoRequest \notin Requests
ASSUME GuardBounds == MaxFailures \in Nat /\ MaxFaults \in Nat

VARIABLES
    row,       \* the idempotency_keys row
    answer,    \* the request whose response the row stores
    pc,        \* where each request is
    replayed,  \* replayed[q]: the request whose response q was given
    effects,   \* requests whose handler has written
    failures, faults

store == <<row, answer>>
vars == <<store, pc, replayed, effects, failures, faults>>

RowStates == {"none", "reserved", "completed"}
Stages == {"start", "selecting", "handling", "completing", "releasing",
           "executed", "failed", "replayed", "conflict", "crashed"}
Ended == {"executed", "failed", "replayed", "conflict", "crashed"}

Init ==
    /\ row = "none"
    /\ answer = NoRequest
    /\ pc = [q \in Requests |-> "start"]
    /\ replayed = [q \in Requests |-> NoRequest]
    /\ effects = {}
    /\ failures = 0
    /\ faults = 0

Fault == faults < MaxFaults /\ faults' = faults + 1
Failure == failures < MaxFailures /\ failures' = failures + 1
Goto(q, stage) == pc' = [pc EXCEPT ![q] = stage]

-----------------------------------------------------------------------------
KeyIsFree == row = "none"
KeyIsUnanswered == row # "completed"
(* The INSERT meets no row with the key. *)
InsertTakes == KeyIsFree

(* reserveIdempotencyKey: INSERT ... ON CONFLICT DO NOTHING ...            *)
ReserveInsert(q) ==
    /\ pc[q] = "start"
    /\ IF InsertTakes
       THEN row' = "reserved" /\ Goto(q, "handling")
       ELSE Goto(q, "selecting") /\ UNCHANGED row
    /\ UNCHANGED <<answer, replayed, effects, failures, faults>>

(* ... then, on a conflict, a SELECT.  A row that vanished in between      *)
(* sends the request on as an owner, without a row of its own.             *)
ReserveSelect(q) ==
    /\ pc[q] = "selecting"
    /\ \/ /\ row = "none"
          /\ Goto(q, "handling")
          /\ UNCHANGED replayed
       \/ /\ row = "reserved"
          /\ Goto(q, "conflict")
          /\ UNCHANGED replayed
       \/ /\ row = "completed"
          /\ Goto(q, "replayed")
          /\ replayed' = [replayed EXCEPT ![q] = answer]
    /\ UNCHANGED <<store, effects, failures, faults>>

(* Either statement rejects: fail open, whether or not the INSERT took.    *)
ReserveFailsOpen(q) ==
    /\ Fault
    /\ \/ pc[q] \in {"start", "selecting"} /\ UNCHANGED row
       \/ pc[q] = "start" /\ row = "none" /\ row' = "reserved"
    /\ Goto(q, "handling")
    /\ UNCHANGED <<answer, replayed, effects, failures>>

(* The handler writes and answers 2xx with a JSON body. *)
HandlerSucceeds(q) ==
    /\ pc[q] = "handling"
    /\ effects' = effects \union {q}
    /\ Goto(q, "completing")
    /\ UNCHANGED <<store, replayed, failures, faults>>

ToRelease(q) == Goto(q, "releasing")
ToComplete(q) == Goto(q, "completing")
(* Where a request goes when its handler has nothing to replay. *)
AfterFailure(q) == ToRelease(q)

(* The handler throws or answers non-2xx, having written nothing. *)
HandlerFails(q) ==
    /\ Failure
    /\ pc[q] = "handling"
    /\ AfterFailure(q)
    /\ UNCHANGED <<store, replayed, effects, faults>>

(* The handler writes, but its 2xx has no JSON body to store. *)
HandlerUnreplayable(q) ==
    /\ Failure
    /\ pc[q] = "handling"
    /\ effects' = effects \union {q}
    /\ Goto(q, "releasing")
    /\ UNCHANGED <<store, replayed, faults>>

AnyRow == row # "none"
(* The WHERE clause of complete and release: response_status IS NULL. *)
Unanswered == row = "reserved"

CompleteKey(q) ==
    /\ pc[q] = "completing"
    /\ IF Unanswered
       THEN row' = "completed" /\ answer' = q
       ELSE UNCHANGED <<row, answer>>
    /\ Goto(q, "executed")
    /\ UNCHANGED <<replayed, effects, failures, faults>>

NoDelete == UNCHANGED store
DeleteRow == row' = "none" /\ answer' = NoRequest
(* The row a release finds, whoever inserted it, is deleted. *)
DropReservation == DeleteRow

ReleaseKey(q) ==
    /\ pc[q] = "releasing"
    /\ IF Unanswered THEN DropReservation ELSE UNCHANGED store
    /\ Goto(q, "failed")
    /\ UNCHANGED <<replayed, effects, failures, faults>>

(* complete and release swallow their errors. *)
SettleLost(q) ==
    /\ Fault
    /\ \/ pc[q] = "completing" /\ Goto(q, "executed")
       \/ pc[q] = "releasing" /\ Goto(q, "failed")
    /\ UNCHANGED <<store, replayed, effects, failures>>

(* The isolate dies between two statements. *)
Crash(q) ==
    /\ Fault
    /\ pc[q] \in {"selecting", "handling", "completing", "releasing"}
    /\ Goto(q, "crashed")
    /\ UNCHANGED <<store, replayed, effects, failures>>

-----------------------------------------------------------------------------
RequestStep(q) ==
    \/ ReserveInsert(q) \/ ReserveSelect(q) \/ HandlerSucceeds(q)
    \/ HandlerFails(q) \/ HandlerUnreplayable(q) \/ CompleteKey(q) \/ ReleaseKey(q)

Next == \E q \in Requests :
            RequestStep(q) \/ ReserveFailsOpen(q) \/ SettleLost(q) \/ Crash(q)

Spec == Init /\ [][Next]_vars

(* A request that has started runs to its end or crashes. *)
FairSpec == Spec /\ \A q \in Requests : WF_vars(pc[q] # "start" /\ RequestStep(q))

-----------------------------------------------------------------------------
(* Every variable has its type. *)
TypeOK ==
    /\ row \in RowStates
    /\ answer \in Requests \union {NoRequest}
    /\ pc \in [Requests -> Stages]
    /\ replayed \in [Requests -> Requests \union {NoRequest}]
    /\ effects \subseteq Requests
    /\ failures \in Nat /\ faults \in Nat

(* A replay gives a response that a successful handler produced, although  *)
(* reservations change hands, the guard's statements fail and a release    *)
(* may drop somebody else's row.                                           *)
ReplaysComeFromEffects ==
    \A q \in Requests : pc[q] = "replayed" => replayed[q] \in effects

(* A stored response is never replaced or dropped: no late owner, with or  *)
(* without a row of its own, rewrites what a client has been told.         *)
StoredResponseIsFinal ==
    [][row = "completed" => row' = "completed" /\ answer' = answer]_vars

(* As long as no handler has failed and no statement of the guard was lost *)
(* the key's write happens once: retries and concurrent requests replay or *)
(* are refused.  After a failure the guard does not promise it: a request  *)
(* whose SELECT finds the row gone proceeds beside a new owner.            *)
AtMostOneEffect ==
    failures = 0 /\ faults = 0 => Cardinality(effects) <= 1

(* A reservation ends, completed or released so that a retry can proceed,  *)
(* unless a crash or a lost statement strands it.                          *)
ReservationEnds == row = "reserved" ~> row # "reserved" \/ faults > 0
=============================================================================
