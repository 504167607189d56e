----------------------- MODULE RecommendationsProofs -----------------------
(***************************************************************************)
(* Theorems about Recommendations, for any number of events, goals, ticks, *)
(* detections and decisions and any LIMIT: types, the cursor, the debounce *)
(* and how a recommendation is settled.                                    *)
(***************************************************************************)
EXTENDS Recommendations, FiniteSetTheorems, TLAPS

-----------------------------------------------------------------------------
(* The inductive invariant, part by part.                                  *)

(* What a call holds on to between its statements.                         *)
Verdicts == [verb : {"accept", "reject"}, rec : Recs]
Shapes ==
    /\ \A t \in Ticks : tpc[t] = "insert" => source[t] \in Sources
    /\ \A d \in Decisions : InFlight(d) =>
        /\ choice[d] \in Verdicts
        /\ status[choice[d].rec] # "none"
        /\ dpc[d] = "apply" => choice[d].verb = "accept"

TypeInv == TypeOK /\ Shapes

(* Whatever was stored before a tick moves the cursor is accounted for, or *)
(* the tick has it in hand or knows that its query left it out.            *)
Accounted(e) == e \in examined \union skipped
NoneLeftBehind ==
    /\ NoEventForgotten
    /\ \A t \in Ticks :
        /\ PastRead(t) =>
            \A e \in Events : occurred[e] > 0 => Accounted(e) \/ e \in todo[t] \union unseen[t]
        /\ tpc[t] = "cursor" => todo[t] = {}

(* Ticks that do not overlap: one runs at a time, and the debounce it has  *)
(* looked up still holds when it inserts.                                  *)
OneAtATime ==
    ~overlapped =>
        /\ \A t, u \in Ticks : Running(t) /\ Running(u) => t = u
        /\ \A t \in Ticks : tpc[t] = "insert" /\ source[t] \in Events => RecentOf(source[t]) = {}
        /\ \A e \in Events : \A t, u \in RecentOf(e) : t = u

(* The recommendation a tick may still insert is not there yet.            *)
NotYetInserted ==
    \A t \in Ticks :
        /\ tpc[t] \in {"idle", "events"} => \A x \in Sources : status[<<x, t>>] = "none"
        /\ \A x \in todo[t] : status[<<x, t>>] = "none"
        /\ tpc[t] = "insert" => status[<<source[t], t>>] = "none" /\ source[t] \notin todo[t]

(* A call that is about to accept has applied the payload.                 *)
HasApplied(d) == dpc[d] = "decide" /\ choice[d].verb = "accept" => applied[choice[d].rec] > 0
Applying == AcceptedWasApplied /\ \A d \in Decisions : HasApplied(d)

Inv == TypeInv /\ NoneLeftBehind /\ OneAtATime /\ NotYetInserted /\ Applying

-----------------------------------------------------------------------------
(* Lemmas: the rows, the steps and what each leaves alone.                 *)

Arrival == \E e \in Events : \E time \in 1 .. clock + 1 + Ahead : Arrive(e, time)
Detection == \E x \in Detected : Detect(x)
Lapse == \E r \in Recs : WindowEnds(r)

(* A step is that of a tick, of a decision or of the surroundings.         *)
LEMMA NextIs ==
    Next <=> \/ Arrival \/ Detection \/ Lapse
             \/ \E t \in Ticks : Tick(t)
             \/ \E d \in Decisions : Decide(d)
  BY DEF Next, Arrival, Detection, Lapse

(* There is a row for every source and tick, and for every detection.      *)
LEMMA RecOf ==
    /\ \A x \in Sources, t \in Ticks : <<x, t>> \in Recs
    /\ \A x \in Detected : <<x, Detector>> \in Recs
  BY DEF Recs

(* No detection is a source, so its row is no tick's.                      *)
LEMMA DetectedApart ==
    \A x \in Detected, y \in Sources, t \in Ticks : <<x, Detector>> # <<y, t>>
  BY SourcesAssumption DEF Sources

(* A tick touches no decision, and nothing of another tick.                *)
TickOnly(t) ==
    /\ UNCHANGED <<clock, occurred, decisionVars>>
    /\ \A u \in Ticks \ {t} : /\ tpc'[u] = tpc[u] /\ from'[u] = from[u]
                              /\ todo'[u] = todo[u] /\ source'[u] = source[u]
                              /\ unseen'[u] = unseen[u]

(* That is what every statement of a tick does.                            *)
LEMMA TickFrame ==
    ASSUME TypeInv, NEW t \in Ticks, Tick(t)
    PROVE  TickOnly(t)
  <1> USE DEF TypeInv, TypeOK, eventVars, decisionVars, TickOnly
  <1>1. ASSUME NEW due, Expire(t, due) PROVE TickOnly(t)
    BY <1>1 DEF Expire
  <1>2. CASE ReadEvents(t) \/ Insert(t)
    BY <1>2 DEF ReadEvents, Insert
  <1>3. ASSUME NEW x, Consider(t, x) PROVE TickOnly(t)
    BY <1>3 DEF Consider
  <1>4. CASE RecountDomains(t) \/ MoveCursor(t) \/ TickFails(t)
    BY <1>4 DEF RecountDomains, MoveCursor, TickFails
  <1>5. QED
    BY <1>1, <1>2, <1>3, <1>4 DEF Tick

(* A decision touches no tick, and nothing of another decision.            *)
DecisionOnly(d) ==
    /\ UNCHANGED <<eventVars, recent, tickVars, skipped>>
    /\ \A f \in Decisions \ {d} : dpc'[f] = dpc[f] /\ choice'[f] = choice[f]

(* That is what every statement of a decision does.                        *)
LEMMA DecisionFrame ==
    ASSUME TypeInv, NEW d \in Decisions, Decide(d)
    PROVE  DecisionOnly(d)
  <1> USE DEF TypeInv, TypeOK, DecisionOnly, Leave, Goto
  <1>1. ASSUME NEW verb, NEW r, CheckStatus(d, verb, r) PROVE DecisionOnly(d)
    BY <1>1 DEF CheckStatus
  <1>2. CASE ApplyPayload(d) \/ ApplyFails(d) \/ SetStatus(d)
    BY <1>2 DEF ApplyPayload, ApplyFails, AfterFailedApply, SetStatus
  <1>3. CASE RecountDomain(d) \/ DecisionDies(d)
    BY <1>3 DEF RecountDomain, DecisionDies
  <1>4. QED
    BY <1>1, <1>2, <1>3 DEF Decide

(* Rows change by expiry, insertion and decision, and none disappears.     *)
RowsKept == \A r \in Recs : status[r] # "none" => status'[r] # "none"

(* No step makes a row disappear.                                          *)
LEMMA RowsStay == TypeInv /\ [Next]_vars => RowsKept
  <1> SUFFICES ASSUME TypeInv, [Next]_vars PROVE RowsKept
    OBVIOUS
  <1> USE DEF TypeInv, TypeOK, RowsKept
  <1>1. CASE UNCHANGED status
    BY <1>1
  <1>2. ASSUME NEW t \in Ticks, NEW due, Expire(t, due) PROVE RowsKept
    BY <1>2 DEF Expire
  <1>3. ASSUME NEW t \in Ticks, Insert(t) PROVE RowsKept
    BY <1>3 DEF Insert
  <1>4. ASSUME NEW d \in Decisions, SetStatus(d) PROVE RowsKept
    BY <1>4 DEF SetStatus
  <1>5. ASSUME NEW x \in Detected, Detect(x) PROVE RowsKept
    BY <1>5 DEF Detect
  <1>6. CASE Next
    BY <1>1, <1>2, <1>3, <1>4, <1>5, <1>6 DEF Next, Arrive, WindowEnds, Tick, ReadEvents, Consider,
       RecountDomains, MoveCursor, TickFails, Decide, CheckStatus, ApplyPayload, ApplyFails,
       RecountDomain, DecisionDies
  <1>7. QED
    BY <1>1, <1>6 DEF vars

-----------------------------------------------------------------------------
(* Types.                                                                  *)

(* The statements of a tick keep the types.                                *)
LEMMA TypeTick == ASSUME TypeInv, NEW t \in Ticks, Tick(t) PROVE TypeOK'
  <1> USE DEF TypeInv, TypeOK, eventVars, decisionVars
  <1>1. ASSUME NEW due, Expire(t, due) PROVE TypeOK'
    BY <1>1 DEF Expire
  <1>2. CASE ReadEvents(t)
    BY <1>2 DEF ReadEvents, NewEvents, Sources
  <1>3. CASE Insert(t)
    <2>1. source[t] \in Sources
      BY <1>3 DEF Insert, Shapes
    <2>2. recent' \subseteq Sources \X Ticks /\ source' \in [Ticks -> Sources \union {NoSource}]
      BY <1>3, <2>1 DEF Insert
    <2>3. status' \in [Recs -> {"none", "pending", "accepted", "rejected", "expired"}]
      BY <1>3 DEF Insert
    <2>4. QED
      BY <1>3, <2>2, <2>3 DEF Insert
  <1>4. ASSUME NEW x \in Sources, Consider(t, x) PROVE TypeOK'
    BY <1>4 DEF Consider
  <1>5. CASE RecountDomains(t)
    BY <1>5 DEF RecountDomains
  <1>6. CASE MoveCursor(t)
    BY <1>6 DEF MoveCursor, TickTime
  <1>7. CASE TickFails(t)
    BY <1>7 DEF TickFails, CursorAfterFailure
  <1>8. QED
    BY <1>1, <1>2, <1>3, <1>4, <1>5, <1>6, <1>7 DEF Tick

(* The statements of a decision keep the types.                            *)
LEMMA TypeDecision == ASSUME TypeInv, NEW d \in Decisions, Decide(d) PROVE TypeOK'
  <1> USE DEF TypeInv, TypeOK, eventVars, tickVars, Goto, Leave
  <1>1. ASSUME NEW verb \in {"accept", "reject"}, NEW r \in Recs, CheckStatus(d, verb, r)
        PROVE  TypeOK'
    BY <1>1 DEF CheckStatus
  <1>2. CASE ApplyPayload(d)
    <2>1. choice[d].rec \in Recs
      BY <1>2 DEF ApplyPayload, Shapes, Verdicts, InFlight
    <2>2. applied' \in [Recs -> Nat]
      BY <1>2, <2>1 DEF ApplyPayload
    <2>3. QED
      BY <1>2, <2>2 DEF ApplyPayload
  <1>3. CASE ApplyFails(d)
    BY <1>3 DEF ApplyFails, AfterFailedApply
  <1>4. CASE SetStatus(d)
    BY <1>4 DEF SetStatus
  <1>5. CASE RecountDomain(d)
    BY <1>5 DEF RecountDomain
  <1>6. CASE DecisionDies(d)
    BY <1>6 DEF DecisionDies
  <1>7. QED
    BY <1>1, <1>2, <1>3, <1>4, <1>5, <1>6 DEF Decide

(* Every step keeps what a call holds on to well formed.                   *)
LEMMA ShapesStep == TypeInv /\ [Next]_vars => Shapes'
  <1> SUFFICES ASSUME TypeInv, [Next]_vars PROVE Shapes'
    OBVIOUS
  <1> USE DEF InFlight
  <1>0. RowsKept
    BY RowsStay
  <1>1. CASE UNCHANGED <<tpc, source, dpc, choice>>
    BY <1>0, <1>1 DEF Shapes, TypeInv, RowsKept, Verdicts
  <1>2. ASSUME NEW t \in Ticks, Tick(t) PROVE Shapes'
    <2>1. TickOnly(t)
      BY <1>2, TickFrame
    <2>2. tpc'[t] = "insert" => source'[t] \in Sources
      BY <1>2 DEF TypeInv, TypeOK, Shapes, Tick, Expire, ReadEvents, Insert, Consider,
         RecountDomains, MoveCursor, TickFails
    <2>3. QED
      BY <1>0, <2>1, <2>2 DEF TickOnly, decisionVars, Shapes, TypeInv, RowsKept, Verdicts
  <1>3. ASSUME NEW d \in Decisions, Decide(d) PROVE Shapes'
    <2>1. DecisionOnly(d)
      BY <1>3, DecisionFrame
    <2>2. dpc'[d] \in {"apply", "decide"} =>
            /\ choice'[d] \in Verdicts
            /\ status[choice'[d].rec] # "none"
            /\ dpc'[d] = "apply" => choice'[d].verb = "accept"
      BY <1>3 DEF TypeInv, TypeOK, Shapes, Verdicts, Decide, CheckStatus, ApplyPayload,
         ApplyFails, AfterFailedApply, SetStatus, RecountDomain, DecisionDies, Leave, Goto
    <2>3. QED
      BY <1>0, <2>1, <2>2 DEF DecisionOnly, tickVars, Shapes, TypeInv, RowsKept, Verdicts
  <1>4. QED
    BY <1>1, <1>2, <1>3, NextIs DEF vars, tickVars, decisionVars, Arrival, Arrive, Detection,
       Detect, Lapse, WindowEnds

(* Every step keeps types and shapes.                                      *)
LEMMA TypeStep == TypeInv /\ [Next]_vars => TypeInv'
  <1> SUFFICES ASSUME TypeInv, [Next]_vars PROVE TypeOK'
    BY ShapesStep DEF TypeInv
  <1> USE DEF eventVars, tickVars, decisionVars, TypeInv, TypeOK
  <1>1. CASE UNCHANGED vars
    BY <1>1 DEF vars
  <1>2. CASE Arrival
    <2>1. PICK e \in Events, time \in 1 .. clock + 1 + Ahead : Arrive(e, time)
      BY <1>2 DEF Arrival
    <2>2. occurred' \in [Events -> 0 .. clock' + Ahead]
      BY <2>1, LimitAssumption DEF Arrive
    <2>3. cursor' \in 0 .. clock' /\ from' \in [Ticks -> 0 .. cursor'] /\ clock' \in Nat
      BY <2>1 DEF Arrive
    <2>4. unseen' \in [Ticks -> SUBSET Events] /\ skipped' \subseteq Events
      BY <2>1 DEF Arrive
    <2>5. QED
      BY <2>1, <2>2, <2>3, <2>4 DEF Arrive
  <1>3. CASE Detection
    BY <1>3 DEF Detection, Detect
  <1>4. CASE Lapse
    BY <1>4 DEF Lapse, WindowEnds
  <1>5. QED
    BY <1>1, <1>2, <1>3, <1>4, TypeTick, TypeDecision, NextIs

-----------------------------------------------------------------------------
(* The cursor and the debounce.                                            *)

(* Every step keeps the cursor behind what is accounted for.               *)
LEMMA CursorStep == TypeInv /\ NoneLeftBehind /\ [Next]_vars => NoneLeftBehind'
  <1> SUFFICES ASSUME TypeInv, NoneLeftBehind, [Next]_vars PROVE NoneLeftBehind'
    OBVIOUS
  <1> USE DEF NoneLeftBehind, NoEventForgotten, Accounted, PastRead
  <1>0. cursor \in Nat /\ occurred \in [Events -> Nat]
    BY LimitAssumption DEF TypeInv, TypeOK
  <1>1. CASE UNCHANGED <<occurred, cursor, tpc, todo, unseen, examined, skipped>>
    BY <1>1
  <1>2. ASSUME NEW e \in Events, NEW time \in 1 .. clock + 1 + Ahead, Arrive(e, time)
        PROVE  NoneLeftBehind'
    <2>1. /\ UNCHANGED <<cursor, tpc, todo, examined>>
          /\ \A f \in Events \ {e} : occurred'[f] = occurred[f]
          /\ occurred'[e] = time /\ time \in Nat
          /\ \A f \in skipped : f \in skipped'
          /\ \A t \in Ticks : unseen[t] \subseteq unseen'[t]
      BY <1>0, <1>2, LimitAssumption DEF Arrive, TypeInv, TypeOK
    <2>2. /\ time <= cursor => e \in skipped'
          /\ \A t \in Ticks : PastRead(t) => e \in unseen'[t]
      BY <1>2 DEF Arrive, TypeInv, TypeOK
    <2>3. NoEventForgotten'
      BY <1>0, <2>1, <2>2
    <2>4. QED
      BY <2>1, <2>2, <2>3
  <1>3. ASSUME NEW t \in Ticks, Tick(t) PROVE NoneLeftBehind'
    <2>0. TickOnly(t)
      BY <1>3, TickFrame
    <2>1. ASSUME NEW due, Expire(t, due) PROVE NoneLeftBehind'
      BY <2>0, <2>1 DEF Expire, TickOnly, TypeInv, TypeOK
    <2>2. CASE RecountDomains(t) \/ Insert(t)
      BY <2>0, <2>2 DEF RecountDomains, Insert, TickOnly, TypeInv, TypeOK
    <2>3. CASE ReadEvents(t)
      <3>1. PICK batch \in SUBSET Events :
                /\ todo' = [todo EXCEPT ![t] = batch \union Goals]
                /\ unseen' = [unseen EXCEPT ![t] = NewEvents(t) \ batch]
        BY <2>3 DEF ReadEvents
      <3>2. /\ UNCHANGED <<occurred, cursor, examined, skipped>> /\ tpc'[t] = "rules"
            /\ todo'[t] = batch \union Goals /\ unseen'[t] = NewEvents(t) \ batch
            /\ from[t] \in 0 .. cursor
        BY <2>0, <2>3, <3>1 DEF ReadEvents, TickOnly, TypeInv, TypeOK
      <3>3. ASSUME NEW e \in Events, occurred[e] > 0
            PROVE  Accounted(e) \/ e \in todo'[t] \union unseen'[t]
        BY <1>0, <3>2, <3>3 DEF NewEvents
      <3>4. QED
        BY <2>0, <3>2, <3>3 DEF TickOnly
    <2>4. ASSUME NEW x \in Sources, Consider(t, x) PROVE NoneLeftBehind'
      <3>1. /\ todo'[t] = todo[t] \ {x} /\ unseen' = unseen /\ cursor' = cursor
            /\ examined' = examined \union ({x} \intersect Events) /\ skipped' = skipped \ {x}
            /\ tpc[t] = "rules" /\ tpc'[t] \in {"rules", "insert"}
        BY <2>4 DEF Consider, TypeInv, TypeOK
      <3>2. \A e \in Events : Accounted(e) \/ e = x => Accounted(e)'
        BY <3>1
      <3>3. QED
        BY <2>0, <3>1, <3>2 DEF TickOnly
    <2>5. CASE MoveCursor(t)
      <3>1. /\ UNCHANGED <<todo, examined>> /\ tpc[t] = "cursor" /\ tpc'[t] = "done"
            /\ skipped' = skipped \union (unseen[t] \ examined)
        BY <2>5 DEF MoveCursor, TypeInv, TypeOK
      <3>2. \A e \in Events : occurred[e] > 0 => Accounted(e)'
        BY <3>1
      <3>3. cursor' \in Nat /\ occurred' = occurred
        BY <2>5 DEF MoveCursor, TickTime, eventVars, TypeInv, TypeOK
      <3>4. QED
        BY <1>0, <2>0, <3>1, <3>2, <3>3 DEF TickOnly
    <2>6. CASE TickFails(t)
      BY <2>0, <2>6 DEF TickFails, CursorAfterFailure, TickOnly, TypeInv, TypeOK
    <2>7. QED
      BY <1>3, <2>1, <2>2, <2>3, <2>4, <2>5, <2>6 DEF Tick
  <1>4. ASSUME NEW d \in Decisions, Decide(d) PROVE NoneLeftBehind'
    BY <1>1, <1>4, DecisionFrame DEF DecisionOnly, eventVars, tickVars
  <1>5. CASE Detection \/ Lapse
    BY <1>1, <1>5 DEF Detection, Detect, Lapse, WindowEnds, eventVars, tickVars
  <1>6. QED
    BY <1>1, <1>2, <1>3, <1>4, <1>5, NextIs DEF vars, eventVars, tickVars, Arrival

(* Every step keeps ticks that do not overlap from recommending twice.     *)
LEMMA DebounceStep == TypeInv /\ OneAtATime /\ [Next]_vars => OneAtATime'
  <1> SUFFICES ASSUME TypeInv, OneAtATime, [Next]_vars, ~overlapped' PROVE OneAtATime'
    BY DEF OneAtATime
  <1> USE DEF RecentOf, Running
  <1>1. CASE UNCHANGED <<tpc, source, overlapped>> /\ recent' \subseteq recent
    BY <1>1 DEF OneAtATime
  <1>2. ASSUME NEW t \in Ticks, Tick(t) PROVE OneAtATime'
    <2>0. TickOnly(t)
      BY <1>2, TickFrame
    <2>1. ASSUME NEW due, Expire(t, due) PROVE OneAtATime'
      <3>1. /\ ~overlapped /\ (\A u \in Ticks : ~Running(u)) /\ tpc'[t] = "events"
            /\ UNCHANGED <<source, recent>>
        BY <2>1 DEF Expire, TypeInv, TypeOK
      <3>2. QED
        BY <2>0, <3>1 DEF TickOnly, OneAtATime
    <2>2. CASE Insert(t)
      <3>1. /\ tpc[t] = "insert" /\ tpc'[t] = "rules" /\ overlapped' = overlapped
            /\ recent' = recent \union {<<source[t], t>>}
        BY <2>2 DEF Insert, TypeInv, TypeOK
      <3>2. \A u \in Ticks \ {t} : ~Running(u) /\ ~Running(u)'
        BY <2>0, <3>1 DEF TickOnly, OneAtATime
      <3>3. \A e \in Events : \A u, v \in RecentOf(e)' : u = v
        BY <3>1 DEF OneAtATime
      <3>4. QED
        BY <3>1, <3>2, <3>3 DEF OneAtATime
    <2>3. ASSUME NEW x \in Sources, Consider(t, x) PROVE OneAtATime'
      <3>1. /\ tpc[t] = "rules" /\ UNCHANGED <<recent, overlapped>>
            /\ \/ tpc'[t] = "rules"
               \/ tpc'[t] = "insert" /\ source'[t] = x /\ ~Suppressed(x)
        BY <2>3 DEF Consider, TypeInv, TypeOK
      <3>2. QED
        BY <2>0, <3>1 DEF TickOnly, OneAtATime, Suppressed, RuleDebounced
    <2>4. CASE ReadEvents(t) \/ RecountDomains(t) \/ MoveCursor(t) \/ TickFails(t)
      <3>1. /\ Running(t) /\ tpc'[t] # "insert" /\ UNCHANGED <<recent, overlapped>>
        BY <2>4 DEF ReadEvents, RecountDomains, MoveCursor, TickFails, TypeInv, TypeOK
      <3>2. QED
        BY <2>0, <3>1 DEF TickOnly, OneAtATime
    <2>5. QED
      BY <1>2, <2>1, <2>2, <2>3, <2>4 DEF Tick
  <1>3. ASSUME NEW d \in Decisions, Decide(d) PROVE OneAtATime'
    BY <1>1, <1>3, DecisionFrame DEF DecisionOnly, tickVars
  <1>4. CASE Arrival \/ Detection \/ Lapse
    BY <1>1, <1>4 DEF Arrival, Arrive, Detection, Detect, Lapse, WindowEnds, tickVars
  <1>5. QED
    BY <1>1, <1>2, <1>3, <1>4, NextIs DEF vars, tickVars

-----------------------------------------------------------------------------
(* Rows, their payloads and their decisions.                               *)

(* Every step leaves a row that is yet to be inserted absent.              *)
LEMMA InsertStep == TypeInv /\ NotYetInserted /\ [Next]_vars => NotYetInserted'
  <1> SUFFICES ASSUME TypeInv, NotYetInserted, [Next]_vars PROVE NotYetInserted'
    OBVIOUS
  <1> USE DEF NotYetInserted
  <1>0. /\ status \in [Recs -> {"none", "pending", "accepted", "rejected", "expired"}]
        /\ \A u \in Ticks : todo[u] \subseteq Sources /\ (tpc[u] = "insert" => source[u] \in Sources)
    BY DEF TypeInv, TypeOK, Shapes
  <1>1. ASSUME UNCHANGED <<tpc, todo, source>>,
               \A x \in Sources, u \in Ticks : status[<<x, u>>] = "none" => status'[<<x, u>>] = "none"
        PROVE  NotYetInserted'
    BY <1>0, <1>1
  <1>2. ASSUME NEW t \in Ticks, Tick(t) PROVE NotYetInserted'
    <2>0. TickOnly(t)
      BY <1>2, TickFrame
    <2>1. ASSUME NEW due \in SUBSET Pending, Expire(t, due) PROVE NotYetInserted'
      <3>1. \A x \in Sources, u \in Ticks : status[<<x, u>>] = "none" => status'[<<x, u>>] = "none"
        BY <1>0, <2>1, RecOf DEF Expire, Pending
      <3>2. tpc[t] = "idle" /\ tpc'[t] = "events" /\ UNCHANGED <<todo, source>>
        BY <2>1 DEF Expire, TypeInv, TypeOK
      <3>3. QED
        BY <1>0, <2>0, <3>1, <3>2 DEF TickOnly
    <2>2. CASE Insert(t)
      <3>1. /\ tpc[t] = "insert" /\ tpc'[t] = "rules" /\ todo' = todo
            /\ status' = [status EXCEPT ![<<source[t], t>>] = "pending"]
        BY <2>2 DEF Insert, TypeInv, TypeOK
      <3>2. \A x \in Sources, u \in Ticks :
                x # source[t] \/ u # t => status'[<<x, u>>] = status[<<x, u>>]
        BY <1>0, <3>1
      <3>3. QED
        BY <1>0, <2>0, <3>1, <3>2 DEF TickOnly
    <2>3. ASSUME NEW x \in Sources, Consider(t, x) PROVE NotYetInserted'
      <3>1. /\ todo'[t] = todo[t] \ {x} /\ tpc[t] = "rules" /\ status' = status
            /\ tpc'[t] = "rules" \/ (tpc'[t] = "insert" /\ source'[t] = x)
        BY <2>3 DEF Consider, TypeInv, TypeOK
      <3>2. x \in todo[t]
        BY <2>3 DEF Consider, NextUp
      <3>3. /\ \A y \in todo'[t] : status'[<<y, t>>] = "none"
            /\ tpc'[t] = "insert" => status'[<<source'[t], t>>] = "none" /\ source'[t] \notin todo'[t]
        BY <3>1, <3>2
      <3>4. QED
        BY <2>0, <3>1, <3>3 DEF TickOnly
    <2>4. CASE ReadEvents(t)
      <3>1. PICK batch \in SUBSET Events : todo' = [todo EXCEPT ![t] = batch \union Goals]
        BY <2>4 DEF ReadEvents
      <3>2. /\ tpc[t] = "events" /\ tpc'[t] = "rules" /\ status' = status
            /\ todo'[t] \subseteq Sources
        BY <2>4, <3>1 DEF ReadEvents, Sources, TypeInv, TypeOK
      <3>3. QED
        BY <2>0, <3>2 DEF TickOnly
    <2>5. CASE RecountDomains(t) \/ MoveCursor(t) \/ TickFails(t)
      BY <2>0, <2>5 DEF RecountDomains, MoveCursor, TickFails, TickOnly, Running, TypeInv, TypeOK
    <2>6. QED
      BY <1>2, <2>1, <2>2, <2>3, <2>4, <2>5 DEF Tick
  <1>3. ASSUME NEW d \in Decisions, SetStatus(d) PROVE NotYetInserted'
    <2>1. status[choice[d].rec] # "none" /\ UNCHANGED <<tpc, todo, source>>
          /\ \A r \in Recs : r # choice[d].rec => status'[r] = status[r]
      BY <1>0, <1>3 DEF SetStatus, tickVars, TypeInv, Shapes, InFlight
    <2>2. QED
      BY <1>1, <2>1, RecOf
  <1>4. ASSUME NEW d \in Decisions, Decide(d) PROVE NotYetInserted'
    BY <1>1, <1>3, <1>4 DEF Decide, CheckStatus, ApplyPayload, ApplyFails, RecountDomain,
       DecisionDies, tickVars
  <1>5. ASSUME NEW x \in Detected, Detect(x) PROVE NotYetInserted'
    <2>1. \A y \in Sources, u \in Ticks : status'[<<y, u>>] = status[<<y, u>>]
      BY <1>0, <1>5, RecOf, DetectedApart DEF Detect
    <2>2. QED
      BY <1>1, <1>5, <2>1 DEF Detect, tickVars
  <1>6. QED
    BY <1>1, <1>2, <1>4, <1>5, NextIs DEF vars, tickVars, Arrival, Arrive, Detection, Lapse,
       WindowEnds

(* Every step leaves what is accepted, or about to be, applied.            *)
LEMMA ApplyStep == TypeInv /\ Applying /\ [Next]_vars => Applying'
  <1> SUFFICES ASSUME TypeInv, Applying, [Next]_vars PROVE Applying'
    OBVIOUS
  <1> USE DEF Applying, AcceptedWasApplied, HasApplied
  <1>0. /\ status \in [Recs -> {"none", "pending", "accepted", "rejected", "expired"}]
        /\ applied \in [Recs -> Nat]
    BY DEF TypeInv, TypeOK
  <1>1. ASSUME UNCHANGED <<dpc, choice, applied>>,
               \A r \in Recs : status'[r] = "accepted" => status[r] = "accepted"
        PROVE  Applying'
    BY <1>1
  <1>2. ASSUME NEW t \in Ticks, Tick(t) PROVE Applying'
    <2>1. UNCHANGED <<dpc, choice, applied>>
      BY <1>2, TickFrame DEF TickOnly, decisionVars
    <2>2. \A r \in Recs : status'[r] = "accepted" => status[r] = "accepted"
      BY <1>0, <1>2 DEF Tick, Expire, ReadEvents, Consider, Insert, RecountDomains, MoveCursor,
         TickFails
    <2>3. QED
      BY <1>1, <2>1, <2>2
  <1>3. ASSUME NEW d \in Decisions, Decide(d) PROVE Applying'
    <2>0. DecisionOnly(d)
      BY <1>3, DecisionFrame
    <2>1. ASSUME NEW verb \in {"accept", "reject"}, NEW r \in Recs, CheckStatus(d, verb, r)
          PROVE  Applying'
      <3>1. /\ UNCHANGED <<status, applied>>
            /\ dpc'[d] = "decide" => choice'[d].verb # "accept"
        BY <2>1 DEF CheckStatus, Leave, Goto, TypeInv, TypeOK
      <3>2. QED
        BY <2>0, <3>1 DEF DecisionOnly
    <2>2. CASE ApplyPayload(d)
      <3>1. choice[d].rec \in Recs
        BY <2>2 DEF ApplyPayload, TypeInv, Shapes, Verdicts, InFlight
      <3>2. /\ applied'[choice[d].rec] = applied[choice[d].rec] + 1
            /\ \A r \in Recs : r # choice[d].rec => applied'[r] = applied[r]
            /\ UNCHANGED <<status, choice>>
        BY <1>0, <2>2, <3>1 DEF ApplyPayload
      <3>3. \A f \in Decisions : dpc[f] = "decide" => choice[f].rec \in Recs
        BY DEF TypeInv, Shapes, Verdicts, InFlight
      <3>4. applied'[choice[d].rec] > 0
        BY <1>0, <3>1, <3>2
      <3>5. AcceptedWasApplied'
        BY <3>2, <3>4
      <3>6. ASSUME NEW f \in Decisions PROVE HasApplied(f)'
        <4>1. CASE f = d
          BY <3>2, <3>4, <4>1
        <4>2. CASE f # d
          BY <2>0, <3>2, <3>3, <3>4, <4>2 DEF DecisionOnly
        <4>3. QED
          BY <4>1, <4>2
      <3>7. QED
        BY <3>5, <3>6
    <2>3. CASE SetStatus(d)
      <3>1. /\ UNCHANGED applied /\ dpc'[d] = "count" /\ dpc[d] = "decide"
            /\ \A r \in Recs : r # choice[d].rec => status'[r] = status[r]
            /\ \A r \in Recs : r = choice[d].rec /\ choice[d].verb # "accept" => status'[r] = "rejected"
        BY <1>0, <2>3 DEF SetStatus, Goto, TypeInv, TypeOK
      <3>2. AcceptedWasApplied'
        BY <3>1
      <3>3. QED
        BY <2>0, <3>1, <3>2 DEF DecisionOnly
    <2>4. CASE ApplyFails(d) \/ RecountDomain(d) \/ DecisionDies(d)
      <3>1. UNCHANGED <<status, applied>> /\ dpc'[d] = "done"
        BY <2>4 DEF ApplyFails, AfterFailedApply, RecountDomain, DecisionDies, Leave, Goto, TypeInv,
           TypeOK
      <3>2. QED
        BY <2>0, <3>1 DEF DecisionOnly
    <2>5. QED
      BY <1>3, <2>1, <2>2, <2>3, <2>4 DEF Decide
  <1>4. CASE Arrival \/ Detection \/ Lapse
    <2>1. \A r \in Recs : status'[r] = "accepted" => status[r] = "accepted"
      BY <1>0, <1>4 DEF Arrival, Arrive, Detection, Detect, Lapse, WindowEnds
    <2>2. QED
      BY <1>1, <1>4, <2>1 DEF Arrival, Arrive, Detection, Detect, Lapse, WindowEnds, decisionVars
  <1>5. QED
    BY <1>1, <1>2, <1>3, <1>4, NextIs DEF vars, decisionVars

(* What a step may not do to a settled row.                                *)
Keeps(r) == Settled(r)' /\ status'[r] = status[r] /\ applied'[r] = applied[r]

(* No step touches a settled row.                                          *)
LEMMA SettledStep ==
    ASSUME TypeInv, NotYetInserted, [Next]_vars, NEW r \in Recs, Settled(r)
    PROVE  Keeps(r)
  <1> USE DEF Keeps, Settled, Meets, InFlight
  <1>0. /\ status \in [Recs -> {"none", "pending", "accepted", "rejected", "expired"}]
        /\ applied \in [Recs -> Nat]
    BY DEF TypeInv, TypeOK
  <1>1. ASSUME UNCHANGED <<dpc, choice, applied>>, status'[r] = status[r] PROVE Keeps(r)
    BY <1>1
  <1>2. ASSUME NEW t \in Ticks, Tick(t) PROVE Keeps(r)
    <2>1. UNCHANGED <<dpc, choice, applied>>
      BY <1>2, TickFrame DEF TickOnly, decisionVars
    <2>2. ASSUME NEW due \in SUBSET Pending, Expire(t, due) PROVE status'[r] = status[r]
      BY <2>2 DEF Expire, Pending
    <2>3. ASSUME Insert(t) PROVE status'[r] = status[r]
      BY <1>0, <2>3 DEF Insert, NotYetInserted
    <2>4. QED
      BY <1>1, <1>2, <2>1, <2>2, <2>3 DEF Tick, ReadEvents, Consider, RecountDomains, MoveCursor,
         TickFails
  <1>3. ASSUME NEW d \in Decisions, Decide(d) PROVE Keeps(r)
    <2>0. DecisionOnly(d)
      BY <1>3, DecisionFrame
    <2>1. ASSUME NEW verb \in {"accept", "reject"}, NEW s \in Recs, CheckStatus(d, verb, s)
          PROVE  Keeps(r)
      <3>1. /\ UNCHANGED <<status, applied>>
            /\ dpc'[d] = "done" \/ (choice'[d].rec = s /\ status[s] = "pending")
        BY <2>1 DEF CheckStatus, Leave, Goto, MayDecide, TypeInv, TypeOK
      <3>2. QED
        BY <2>0, <3>1 DEF DecisionOnly
    <2>2. CASE ApplyPayload(d)
      <3>1. /\ choice[d].rec # r /\ UNCHANGED <<status, choice>> /\ dpc[d] = "apply"
            /\ applied'[r] = applied[r]
        BY <1>0, <2>2 DEF ApplyPayload
      <3>2. QED
        BY <2>0, <3>1 DEF DecisionOnly
    <2>3. CASE SetStatus(d)
      <3>1. /\ choice[d].rec # r /\ UNCHANGED applied /\ dpc'[d] = "count"
            /\ status'[r] = status[r]
        BY <1>0, <2>3 DEF SetStatus, Goto, TypeInv, TypeOK
      <3>2. QED
        BY <2>0, <3>1 DEF DecisionOnly
    <2>4. CASE ApplyFails(d) \/ RecountDomain(d) \/ DecisionDies(d)
      <3>1. UNCHANGED <<status, applied>> /\ dpc'[d] = "done"
        BY <2>4 DEF ApplyFails, AfterFailedApply, RecountDomain, DecisionDies, Leave, Goto, TypeInv,
           TypeOK
      <3>2. QED
        BY <2>0, <3>1 DEF DecisionOnly
    <2>5. QED
      BY <1>3, <2>1, <2>2, <2>3, <2>4 DEF Decide
  <1>4. CASE Arrival \/ Detection \/ Lapse
    <2>1. status'[r] = status[r]
      BY <1>0, <1>4, RecOf DEF Arrival, Arrive, Detection, Detect, Lapse, WindowEnds
    <2>2. QED
      BY <1>1, <1>4, <2>1 DEF Arrival, Arrive, Detection, Detect, Lapse, WindowEnds, decisionVars
  <1>5. QED
    BY <1>1, <1>2, <1>3, <1>4, NextIs DEF vars, decisionVars

-----------------------------------------------------------------------------
(* The theorems.                                                           *)

(* The invariant holds at the start.                                       *)
LEMMA InitInv == Init => Inv
  <1> SUFFICES ASSUME Init PROVE Inv
    OBVIOUS
  <1>1. TypeInv
    <2>1. /\ clock \in Nat /\ occurred \in [Events -> 0 .. clock + Ahead]
          /\ cursor \in 0 .. clock /\ from \in [Ticks -> 0 .. cursor]
      BY LimitAssumption DEF Init
    <2>2. /\ applied \in [Recs -> Nat] /\ recent \subseteq Sources \X Ticks
          /\ choice \in [Decisions -> [verb : {"accept", "reject"}, rec : Recs] \union {NoChoice}]
          /\ source \in [Ticks -> Sources \union {NoSource}]
      BY DEF Init
    <2>3. Shapes
      BY DEF Init, Shapes, InFlight
    <2>4. QED
      BY <2>1, <2>2, <2>3 DEF Init, TypeInv, TypeOK
  <1>2. NoneLeftBehind /\ OneAtATime
    BY DEF Init, NoneLeftBehind, NoEventForgotten, PastRead, OneAtATime, Running, RecentOf
  <1>3. NotYetInserted /\ Applying
    BY RecOf DEF Init, NotYetInserted, Applying, AcceptedWasApplied, HasApplied
  <1>4. QED
    BY <1>1, <1>2, <1>3 DEF Inv

(* The invariant holds in every reachable state.                           *)
THEOREM InvHolds == Spec => []Inv
  <1>1. Inv /\ [Next]_vars => Inv'
    BY TypeStep, CursorStep, DebounceStep, InsertStep, ApplyStep DEF Inv
  <1>2. QED
    BY <1>1, InitInv, PTL DEF Spec

(* Every variable keeps its type through all interleavings of ticks,       *)
(* decisions, detections and arrivals, and the cursor never passes the     *)
(* clock although events may be dated after it.                            *)
THEOREM TypesKept == Spec => []TypeOK
  <1>1. Inv => TypeOK
    BY DEF Inv, TypeInv
  <1>2. QED
    BY <1>1, InvHolds, PTL

(* The cursor of runPropagationTickRow passes no event that some tick has  *)
(* not looked at, other than those dated at or before the cursor when they *)
(* were stored and those the query of the tick that moved it left out.     *)
THEOREM CursorLeavesNoneBehind == Spec => []NoEventForgotten
  <1>1. Inv => NoEventForgotten
    BY DEF Inv, NoneLeftBehind
  <1>2. QED
    BY <1>1, InvHolds, PTL

(* Within its window, isRuleDebouncedRow lets a rule recommend once for an *)
(* event, as long as no two ticks overlap.                                 *)
THEOREM RulesAreDebounced == Spec => []DebounceHolds
  <1>1. ASSUME Inv, ~overlapped, NEW e \in Events PROVE Cardinality(RecentOf(e)) <= 1
    <2>1. CASE RecentOf(e) = {}
      BY <2>1, FS_EmptySet
    <2>2. CASE RecentOf(e) # {}
      <3>1. PICK t \in Ticks : RecentOf(e) = {t}
        <4>1. PICK t \in RecentOf(e) : TRUE
          BY <2>2
        <4>2. \A u \in RecentOf(e) : u = t
          BY <1>1, <4>1 DEF Inv, OneAtATime
        <4>3. RecentOf(e) = {t} /\ t \in Ticks
          BY <4>1, <4>2 DEF RecentOf
        <4>4. QED
          BY <4>3
      <3>2. Cardinality(RecentOf(e)) = 1
        BY <3>1, FS_Singleton
      <3>3. QED
        BY <3>2
    <2>3. QED
      BY <2>1, <2>2
  <1>2. Inv => DebounceHolds
    BY <1>1 DEF DebounceHolds
  <1>3. QED
    BY <1>2, InvHolds, PTL

(* acceptRecommendationRow leaves no recommendation accepted whose payload *)
(* was never applied, whatever fails and whoever else decides.             *)
THEOREM AcceptedMeansApplied == Spec => []AcceptedWasApplied
  <1>1. Inv => AcceptedWasApplied
    BY DEF Inv, Applying
  <1>2. QED
    BY <1>1, InvHolds, PTL

(* Once the calls that found it pending are through, the decision about a  *)
(* recommendation and the effect of its payload stay as they are.          *)
THEOREM DecisionsSettle == Spec => SettledIsFinal
  <1>1. Inv /\ [Next]_vars =>
            [\A r \in Recs : Settled(r) =>
                Settled(r)' /\ status'[r] = status[r] /\ applied'[r] = applied[r]]_vars
    BY SettledStep DEF Inv, Keeps
  <1>2. QED
    BY <1>1, InvHolds, PTL DEF Spec, SettledIsFinal
=============================================================================
