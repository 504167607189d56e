--------------------------- MODULE Recommendations ---------------------------
(***************************************************************************)
(* Recommendations of one synthetic domain: dal/propagation-store.ts, and  *)
(* the detector's insert, inference/detector-engine.ts.                    *)
(*                                                                         *)
(*   runPropagationTickRow       expires, reads the events after its       *)
(*                               cursor, recommends for events and goals,  *)
(*                               recounts, moves the cursor                *)
(*   acceptRecommendationRow     applies the payload, then sets the status *)
(*   rejectRecommendationRow     sets the status                           *)
(*                                                                         *)
(* None of the three runs in a transaction: every statement is a step, and *)
(* ticks (a cron and a manual route), decisions, detections and arriving   *)
(* events come between them.  Every event matches one event rule; its      *)
(* debounce window ends some time after a recommendation, at once when the *)
(* rule has none.  One goal rule has a ratio that every active goal has    *)
(* reached.                                                                *)
(***************************************************************************)
EXTENDS Naturals, FiniteSets, FiniteSetsExt

CONSTANTS
    Events,     \* operation events of the domain's projects
    Goals,
    Detected,   \* what POST /admin/detector-tick detects
    Ticks,      \* calls of the tick
    Decisions,  \* calls of accept and reject
    Limit,      \* LIMIT of the query for events: 500
    Ahead,      \* bound: how far in the future a sender dates an event
    MaxRows     \* bound: recommendations ever made

ASSUME LimitAssumption == Limit \in Nat \ {0} /\ Ahead \in Nat /\ MaxRows \in Nat
ASSUME SourcesAssumption ==
    /\ Events \intersect Goals = {} /\ (Events \union Goals) \intersect Detected = {}
    /\ IsFiniteSet(Events) /\ IsFiniteSet(Goals) /\ IsFiniteSet(Detected)
ASSUME CallsAssumption == IsFiniteSet(Ticks)

VARIABLES
    clock,
    occurred,   \* occurred[e]: occurred_at, 0 before the event is stored
    status,     \* status[r]: the row of recommendation r
    recent,     \* recommendations that a debounce or the 24 hours still cover
    applied,    \* applied[r]: how often the payload of r was applied
    cursor,     \* propagation_tick_state.last_tick_at
    tpc,        \* where a tick is
    from,       \* the cursor it read
    todo,       \* events and goals it has yet to look at
    source,     \* the one it is about to recommend for
    unseen,     \* events its query did not return or was too early for
    dpc,        \* where a decision is
    choice,     \* choice[d] = [verb, rec]
    examined,   \* events some tick has looked at
    skipped,    \* events the code has passed over, see Arrive and MoveCursor
    overlapped  \* two ticks ran at the same time

eventVars == <<clock, occurred>>
tickVars == <<cursor, tpc, from, todo, source, unseen, examined, overlapped>>
decisionVars == <<dpc, choice, applied>>
vars == <<eventVars, status, recent, tickVars, decisionVars, skipped>>

Sources == Events \union Goals
Detector == "detector"
(* A tick makes at most one recommendation per source.                     *)
Recs == (Sources \X Ticks) \union (Detected \X {Detector})
Pending == {r \in Recs : status[r] = "pending"}
Room == Cardinality({r \in Recs : status[r] # "none"}) < MaxRows
NoSource == <<>>
NoChoice == <<>>

Init ==
    /\ clock = 0
    /\ occurred = [e \in Events |-> 0]
    /\ status = [r \in Recs |-> "none"]
    /\ recent = {}
    /\ applied = [r \in Recs |-> 0]
    /\ cursor = 0
    /\ tpc = [t \in Ticks |-> "idle"]
    /\ from = [t \in Ticks |-> 0]
    /\ todo = [t \in Ticks |-> {}]
    /\ source = [t \in Ticks |-> NoSource]
    /\ unseen = [t \in Ticks |-> {}]
    /\ dpc = [d \in Decisions |-> "idle"]
    /\ choice = [d \in Decisions |-> NoChoice]
    /\ examined = {}
    /\ skipped = {}
    /\ overlapped = FALSE

-----------------------------------------------------------------------------
(* The surroundings.                                                       *)

Running(t) == tpc[t] \notin {"idle", "done"}
(* The tick has read its events and has not moved the cursor.              *)
PastRead(t) == tpc[t] \in {"rules", "insert", "cursor"}

(* An event is stored with the time its sender gave it, past or future.    *)
(* No tick will read one that is dated before the cursor, and a tick that  *)
(* has read its events does not see it.                                    *)
Arrive(e, time) ==
    /\ occurred[e] = 0
    /\ occurred' = [occurred EXCEPT ![e] = time]
    /\ clock' = clock + 1
    /\ skipped' = skipped \union {f \in {e} : time <= cursor}
    /\ unseen' = [t \in Ticks |-> unseen[t] \union {f \in {e} : PastRead(t)}]
    /\ UNCHANGED <<status, recent, cursor, tpc, from, todo, source, examined,
                   overlapped, decisionVars>>

(* The detector inserts a pending row; it recounts nothing.                *)
Detect(x) ==
    /\ status[<<x, Detector>>] = "none" /\ Room
    /\ status' = [status EXCEPT ![<<x, Detector>>] = "pending"]
    /\ UNCHANGED <<eventVars, recent, tickVars, decisionVars, skipped>>

(* The debounce window, or the 24 hours of a goal's recommendation, end.   *)
WindowEnds(r) ==
    /\ r \in recent
    /\ recent' = recent \ {r}
    /\ UNCHANGED <<eventVars, status, tickVars, decisionVars, skipped>>

-----------------------------------------------------------------------------
(* runPropagationTickRow.                                                  *)

(* UPDATE ... WHERE status = 'pending' AND expires_at < now(), then the    *)
(* cursor is read; what others do in between commutes with one of the two. *)
Expire(t, due) ==
    /\ tpc[t] = "idle"
    /\ status' = [r \in Recs |-> IF r \in due THEN "expired" ELSE status[r]]
    /\ from' = [from EXCEPT ![t] = cursor]
    /\ overlapped' = (overlapped \/ \E u \in Ticks : Running(u))
    /\ tpc' = [tpc EXCEPT ![t] = "events"]
    /\ UNCHANGED <<eventVars, recent, cursor, todo, source, unseen, examined,
                   decisionVars, skipped>>

NewEvents(t) == {e \in Events : occurred[e] > from[t]}

(* The oldest of them, up to the limit.                                    *)
Batch(t, batch) ==
    /\ batch \subseteq NewEvents(t)
    /\ Cardinality(batch) = Min({Limit, Cardinality(NewEvents(t))})
    /\ \A e \in batch, f \in NewEvents(t) \ batch : occurred[e] <= occurred[f]

ReadEvents(t) ==
    /\ tpc[t] = "events"
    /\ \E batch \in SUBSET Events :
        /\ Batch(t, batch)
        /\ todo' = [todo EXCEPT ![t] = batch \union Goals]
        /\ unseen' = [unseen EXCEPT ![t] = NewEvents(t) \ batch]
    /\ from' = [from EXCEPT ![t] = 0]
    /\ tpc' = [tpc EXCEPT ![t] = "rules"]
    /\ UNCHANGED <<eventVars, status, recent, cursor, source, examined, overlapped,
                   decisionVars, skipped>>

RecentOf(x) == {t \in Ticks : <<x, t>> \in recent}
Achieved(x) == \E t \in Ticks : applied[<<x, t>>] > 0

OpenOnly(e) == \E t \in RecentOf(e) : status[<<e, t>>] = "pending"
(* isRuleDebouncedRow: whatever became of the recommendation.              *)
RuleDebounced(e) == RecentOf(e) # {}

(* A goal is not active, or has a recent open or accepted recommendation.  *)
Suppressed(x) ==
    IF x \in Events THEN RuleDebounced(x)
    ELSE Achieved(x) \/ \E t \in RecentOf(x) : status[<<x, t>>] \in {"pending", "accepted"}

(* Events come before goals, in the order in which they occurred.          *)
NextUp(t) ==
    LET batch == todo[t] \intersect Events IN
    IF batch = {} THEN todo[t] ELSE {e \in batch : \A f \in batch : occurred[e] <= occurred[f]}

Consider(t, x) ==
    /\ tpc[t] = "rules"
    /\ x \in NextUp(t)
    /\ todo' = [todo EXCEPT ![t] = @ \ {x}]
    /\ examined' = examined \union ({x} \intersect Events)
    /\ skipped' = skipped \ {x}
    /\ \/ Suppressed(x) /\ UNCHANGED <<tpc, source>>
       \/ /\ ~Suppressed(x)
          /\ source' = [source EXCEPT ![t] = x]
          /\ tpc' = [tpc EXCEPT ![t] = "insert"]
    /\ UNCHANGED <<eventVars, status, recent, cursor, from, unseen, overlapped,
                   decisionVars>>

Insert(t) ==
    /\ tpc[t] = "insert" /\ Room
    /\ status' = [status EXCEPT ![<<source[t], t>>] = "pending"]
    /\ recent' = recent \union {<<source[t], t>>}
    /\ source' = [source EXCEPT ![t] = NoSource]
    /\ tpc' = [tpc EXCEPT ![t] = "rules"]
    /\ UNCHANGED <<eventVars, cursor, from, todo, unseen, examined, overlapped,
                   decisionVars, skipped>>

(* The rules are done: the counters of the domains with a pending or       *)
(* expired recommendation are refreshed.  Nothing here reads a counter and *)
(* its value is left out: it counts on the snapshot its statement started  *)
(* with, and nothing refreshes it after a detection.                       *)
RecountDomains(t) ==
    /\ tpc[t] = "rules"
    /\ todo[t] = {}
    /\ tpc' = [tpc EXCEPT ![t] = "cursor"]
    /\ UNCHANGED <<eventVars, status, recent, cursor, from, todo, source, unseen, examined,
                   overlapped, decisionVars, skipped>>

RoundedUp == clock + 1
(* last_tick_at = now().                                                   *)
TickTime == clock

MoveCursor(t) ==
    /\ tpc[t] = "cursor"
    /\ cursor' = TickTime
    /\ skipped' = skipped \union (unseen[t] \ examined)
    /\ unseen' = [unseen EXCEPT ![t] = {}]
    /\ tpc' = [tpc EXCEPT ![t] = "done"]
    /\ UNCHANGED <<eventVars, status, recent, from, todo, source, examined, overlapped,
                   decisionVars>>

CursorAnyway == clock
(* The catch block records the error and leaves the cursor alone.          *)
CursorAfterFailure == cursor

TickFails(t) ==
    /\ Running(t)
    /\ cursor' = CursorAfterFailure
    /\ from' = [from EXCEPT ![t] = 0]
    /\ todo' = [todo EXCEPT ![t] = {}]
    /\ source' = [source EXCEPT ![t] = NoSource]
    /\ unseen' = [unseen EXCEPT ![t] = {}]
    /\ tpc' = [tpc EXCEPT ![t] = "done"]
    /\ UNCHANGED <<eventVars, status, recent, examined, overlapped,
                   decisionVars, skipped>>

-----------------------------------------------------------------------------
(* acceptRecommendationRow and rejectRecommendationRow.                    *)

Goto(d, label) == dpc' = [dpc EXCEPT ![d] = label]

(* The call returns.                                                       *)
Leave(d) == Goto(d, "done") /\ choice' = [choice EXCEPT ![d] = NoChoice]

(* A decision on r is past its check of the status.                        *)
InFlight(d) == dpc[d] \in {"apply", "decide"}
Meets(r) == \E d \in Decisions : InFlight(d) /\ choice[d].rec = r

AnyStatus(r) == status[r] # "none"
(* 409 unless pending.                                                     *)
MayDecide(r) == status[r] = "pending"

CheckStatus(d, verb, r) ==
    /\ dpc[d] = "idle"
    /\ status[r] # "none"
    /\ \/ ~MayDecide(r) /\ Leave(d)
       \/ /\ MayDecide(r)
          /\ Goto(d, IF verb = "accept" THEN "apply" ELSE "decide")
          /\ choice' = [choice EXCEPT ![d] = [verb |-> verb, rec |-> r]]
    /\ UNCHANGED <<eventVars, status, recent, tickVars, applied, skipped>>

(* applyRecommendationPayloadRow: a goal is marked, or a roadmap item is   *)
(* inserted, another one each time.                                        *)
ApplyPayload(d) ==
    /\ dpc[d] = "apply"
    /\ applied' = [applied EXCEPT ![choice[d].rec] = @ + 1]
    /\ Goto(d, "decide")
    /\ UNCHANGED <<eventVars, status, recent, tickVars, choice, skipped>>

GoOn(d) == Goto(d, "decide") /\ UNCHANGED choice
(* 422: the recommendation stays pending.                                  *)
AfterFailedApply(d) == Leave(d)

(* The audit entry of the item is inserted after the item.                 *)
Auditing(d) ==
    dpc[d] = "decide" /\ choice[d].verb = "accept" /\ choice[d].rec[1] \notin Goals

(* The payload's statement rejects, or the audit entry's when the item is  *)
(* already there.                                                          *)
ApplyFails(d) ==
    /\ dpc[d] = "apply" \/ Auditing(d)
    /\ AfterFailedApply(d)
    /\ UNCHANGED <<eventVars, status, recent, tickVars, applied, skipped>>

(* UPDATE ... WHERE id: whatever the status has become.                    *)
SetStatus(d) ==
    /\ dpc[d] = "decide"
    /\ status' = [status EXCEPT ![choice[d].rec] =
                    IF choice[d].verb = "accept" THEN "accepted" ELSE "rejected"]
    /\ Goto(d, "count")
    /\ choice' = [choice EXCEPT ![d] = NoChoice]
    /\ UNCHANGED <<eventVars, recent, tickVars, applied, skipped>>

(* updateDomainRecommendationCounterRow, see RecountDomains, and the audit *)
(* entry.                                                                  *)
RecountDomain(d) ==
    /\ dpc[d] = "count"
    /\ Goto(d, "done")
    /\ UNCHANGED <<eventVars, status, recent, tickVars, choice, applied, skipped>>

(* The call ends between two statements.                                   *)
DecisionDies(d) ==
    /\ dpc[d] \in {"apply", "decide", "count"}
    /\ Leave(d)
    /\ UNCHANGED <<eventVars, status, recent, tickVars, applied, skipped>>

-----------------------------------------------------------------------------
Tick(t) ==
    \/ \E due \in SUBSET Pending : Expire(t, due)
    \/ ReadEvents(t) \/ Insert(t)
    \/ \E x \in Sources : Consider(t, x)
    \/ RecountDomains(t) \/ MoveCursor(t) \/ TickFails(t)

Decide(d) ==
    \/ \E verb \in {"accept", "reject"}, r \in Recs : CheckStatus(d, verb, r)
    \/ ApplyPayload(d) \/ ApplyFails(d) \/ SetStatus(d)
    \/ RecountDomain(d) \/ DecisionDies(d)

Next ==
    \/ \E e \in Events : \E time \in 1 .. clock + 1 + Ahead : Arrive(e, time)
    \/ \E x \in Detected : Detect(x)
    \/ \E r \in Recs : WindowEnds(r)
    \/ \E t \in Ticks : Tick(t)
    \/ \E d \in Decisions : Decide(d)

Spec == Init /\ [][Next]_vars

-----------------------------------------------------------------------------
(* Properties.                                                             *)

(* Every variable has its type.                                            *)
TypeOK ==
    /\ clock \in Nat
    /\ occurred \in [Events -> 0 .. clock + Ahead]
    /\ status \in [Recs -> {"none", "pending", "accepted", "rejected", "expired"}]
    /\ recent \subseteq Sources \X Ticks
    /\ applied \in [Recs -> Nat]
    /\ cursor \in 0 .. clock
    /\ tpc \in [Ticks -> {"idle", "events", "rules", "insert", "cursor", "done"}]
    /\ from \in [Ticks -> 0 .. cursor]
    /\ todo \in [Ticks -> SUBSET Sources]
    /\ source \in [Ticks -> Sources \union {NoSource}]
    /\ unseen \in [Ticks -> SUBSET Events]
    /\ dpc \in [Decisions -> {"idle", "apply", "decide", "count", "done"}]
    /\ choice \in [Decisions -> [verb : {"accept", "reject"}, rec : Recs] \union {NoChoice}]
    /\ examined \subseteq Events /\ skipped \subseteq Events
    /\ overlapped \in BOOLEAN

(* An event that was stored, dated after the cursor, before some tick read *)
(* its page, and that was in the page, is looked at by a tick before the   *)
(* cursor passes it, whichever ticks fail or overlap: a failed tick leaves *)
(* the cursor, and whoever moves it has read the events before.  What the  *)
(* code passes over is in skipped: events dated at or before the cursor,   *)
(* and those that came after the query of the tick that moved the cursor,  *)
(* or were cut off by its LIMIT.                                           *)
NoEventForgotten ==
    \A e \in Events : occurred[e] \in 1 .. cursor => e \in examined \union skipped

(* Within its debounce window a rule recommends once for an event, however *)
(* often failed ticks are repeated and a future date has the event read    *)
(* again, and whatever was decided about the recommendation; unless two    *)
(* ticks overlap.                                                          *)
DebounceHolds ==
    ~overlapped => \A e \in Events : Cardinality(RecentOf(e)) <= 1

(* An accepted recommendation has had its payload applied: a failed apply, *)
(* and a reject or an expiry that come in between, do not end in accepted. *)
AcceptedWasApplied == \A r \in Recs : status[r] = "accepted" => applied[r] > 0

(* A recommendation is settled once it is not pending and the calls that   *)
(* found it pending have set its status or are gone.                       *)
Settled(r) == status[r] \notin {"none", "pending"} /\ ~Meets(r)

(* Settled is for good: no tick expires it, no later call gets past the    *)
(* check and applies its payload once more or changes the decision.        *)
SettledIsFinal ==
    [][\A r \in Recs : Settled(r) =>
            Settled(r)' /\ status'[r] = status[r] /\ applied'[r] = applied[r]]_vars
=============================================================================
