----------------------- MODULE IdempotencyGuardProofs -----------------------
(***************************************************************************)
(* Theorems about IdempotencyGuard, for every set of requests and every    *)
(* number of failing handlers and lost statements: type correctness, what  *)
(* a replay may show, the finality of a stored response, the single write  *)
(* of a key until something fails, and that a reservation is held.         *)
(***************************************************************************)
EXTENDS IdempotencyGuard, FiniteSetTheorems, TLAPS

(* The definitions the steps of a request share. *)
USE DEF store, vars, Goto, Fault, Failure

-----------------------------------------------------------------------------
(* Every step of the guard keeps the types: a row is only ever inserted    *)
(* reserved, completed, or deleted.                                        *)
LEMMA TypeStep == TypeOK /\ [Next]_vars => TypeOK'
  <1> SUFFICES ASSUME TypeOK, [Next]_vars PROVE TypeOK'
    OBVIOUS
  <1> USE DEF TypeOK, RowStates, Stages
  <1>1. CASE UNCHANGED vars
    BY <1>1
  <1>2. CASE Next
    <2> PICK q \in Requests :
            RequestStep(q) \/ ReserveFailsOpen(q) \/ SettleLost(q) \/ Crash(q)
      BY <1>2 DEF Next
    <2>1. CASE ReserveInsert(q)
      BY <2>1 DEF ReserveInsert
    <2>2. CASE ReserveSelect(q)
      BY <2>2 DEF ReserveSelect
    <2>3. CASE HandlerSucceeds(q)
      BY <2>3 DEF HandlerSucceeds
    <2>4. CASE HandlerFails(q)
      BY <2>4 DEF HandlerFails, AfterFailure, ToRelease
    <2>5. CASE HandlerUnreplayable(q)
      BY <2>5 DEF HandlerUnreplayable
    <2>6. CASE CompleteKey(q)
      BY <2>6 DEF CompleteKey
    <2>7. CASE ReleaseKey(q)
      BY <2>7 DEF ReleaseKey, DropReservation, DeleteRow
    <2>8. CASE ReserveFailsOpen(q)
      BY <2>8 DEF ReserveFailsOpen
    <2>9. CASE SettleLost(q)
      BY <2>9 DEF SettleLost
    <2>10. CASE Crash(q)
      BY <2>10 DEF Crash
    <2>11. QED
      BY <2>1, <2>2, <2>3, <2>4, <2>5, <2>6, <2>7, <2>8, <2>9, <2>10
         DEF RequestStep
  <1>3. QED
    BY <1>1, <1>2

(* Type correctness of the guard of lib/idempotency.ts and its row.        *)
THEOREM TypeCorrect == Spec => []TypeOK
  <1>1. Init => TypeOK
    BY GuardBounds DEF Init, TypeOK, RowStates, Stages
  <1>2. QED
    BY <1>1, TypeStep, PTL DEF Spec

-----------------------------------------------------------------------------
(* What a replay shows, followed back to the handler: a request completes  *)
(* the row only after its handler wrote, and the row stores the response   *)
(* of the request that completed it.                                       *)
ReplayInv ==
    /\ \A q \in Requests : pc[q] = "completing" => q \in effects
    /\ row = "completed" => answer \in effects
    /\ ReplaysComeFromEffects

(* Every step of the guard keeps ReplayInv: effects only grow, and a       *)
(* replayed request is given the answer the row holds.                     *)
LEMMA ReplayStep == TypeOK /\ ReplayInv /\ [Next]_vars => ReplayInv'
  <1> SUFFICES ASSUME TypeOK, ReplayInv, [Next]_vars PROVE ReplayInv'
    OBVIOUS
  <1> USE DEF TypeOK, ReplayInv, ReplaysComeFromEffects
  <1>1. CASE UNCHANGED vars
    BY <1>1
  <1>2. CASE Next
    <2> PICK q \in Requests :
            RequestStep(q) \/ ReserveFailsOpen(q) \/ SettleLost(q) \/ Crash(q)
      BY <1>2 DEF Next
    <2>1. CASE ReserveInsert(q)
      BY <2>1 DEF ReserveInsert
    <2>2. CASE ReserveSelect(q)
      BY <2>2 DEF ReserveSelect
    <2>3. CASE HandlerSucceeds(q)
      BY <2>3 DEF HandlerSucceeds
    <2>4. CASE HandlerFails(q)
      BY <2>4 DEF HandlerFails, AfterFailure, ToRelease
    <2>5. CASE HandlerUnreplayable(q)
      BY <2>5 DEF HandlerUnreplayable
    <2>6. CASE CompleteKey(q)
      BY <2>6 DEF CompleteKey
    <2>7. CASE ReleaseKey(q)
      BY <2>7 DEF ReleaseKey, DropReservation, DeleteRow
    <2>8. CASE ReserveFailsOpen(q)
      BY <2>8 DEF ReserveFailsOpen
    <2>9. CASE SettleLost(q)
      BY <2>9 DEF SettleLost
    <2>10. CASE Crash(q)
      BY <2>10 DEF Crash
    <2>11. QED
      BY <2>1, <2>2, <2>3, <2>4, <2>5, <2>6, <2>7, <2>8, <2>9, <2>10
         DEF RequestStep
  <1>3. QED
    BY <1>1, <1>2

(* However reservations change hands and the guard's statements fail, what *)
(* a replayed request is shown was produced by a handler that wrote.       *)
THEOREM ReplaysAreOfEffects == Spec => []ReplaysComeFromEffects
  <1>1. Init => ReplayInv
    BY DEF Init, ReplayInv, ReplaysComeFromEffects
  <1>2. ReplayInv => ReplaysComeFromEffects
    BY DEF ReplayInv
  <1>3. QED
    BY <1>1, <1>2, ReplayStep, TypeCorrect, PTL DEF Spec

-----------------------------------------------------------------------------
(* No statement of the guard replaces or drops a completed row: the two    *)
(* that write to an existing row ask for a NULL response_status.           *)
THEOREM StoredResponseStays == Spec => StoredResponseIsFinal
  <1> DEFINE Final == row = "completed" => row' = "completed" /\ answer' = answer
  <1>1. ASSUME [Next]_vars PROVE [Final]_vars
    <2> SUFFICES ASSUME row = "completed", Next
                 PROVE  row' = "completed" /\ answer' = answer
      BY <1>1
    <2> PICK q \in Requests :
            RequestStep(q) \/ ReserveFailsOpen(q) \/ SettleLost(q) \/ Crash(q)
      BY DEF Next
    <2>1. CASE ReserveInsert(q)
      BY <2>1 DEF ReserveInsert, InsertTakes, KeyIsFree
    <2>2. CASE CompleteKey(q) \/ ReleaseKey(q)
      BY <2>2 DEF CompleteKey, ReleaseKey, Unanswered
    <2>3. CASE ReserveSelect(q)
      BY <2>3 DEF ReserveSelect
    <2>4. CASE HandlerSucceeds(q) \/ HandlerFails(q) \/ HandlerUnreplayable(q)
      BY <2>4 DEF HandlerSucceeds, HandlerFails, HandlerUnreplayable
    <2>5. CASE ReserveFailsOpen(q) \/ SettleLost(q) \/ Crash(q)
      BY <2>5 DEF ReserveFailsOpen, SettleLost, Crash
    <2>6. QED
      BY <2>1, <2>2, <2>3, <2>4, <2>5 DEF RequestStep
  <1>2. QED
    BY <1>1, PTL DEF Spec, StoredResponseIsFinal

-----------------------------------------------------------------------------
(* The request that holds the key: its handler runs, is about to be        *)
(* recorded, or has written.                                               *)
Holds(q) == pc[q] \in {"handling", "completing"} \/ q \in effects

(* Until something fails the row is never deleted, so that whoever         *)
(* inserted it stays the only holder.                                      *)
SingleHolder ==
    failures = 0 /\ faults = 0 =>
        /\ row = "none" => effects = {} /\ \A q \in Requests : pc[q] = "start"
        /\ \A q \in Requests : pc[q] # "releasing"
        /\ \A p, q \in Requests : Holds(p) /\ Holds(q) => p = q

(* Every step keeps the single holder: the INSERT takes the key only while *)
(* nobody holds it, and no other step before a failure makes a holder.     *)
LEMMA SingleHolderStep == TypeOK /\ SingleHolder /\ [Next]_vars => SingleHolder'
  <1> SUFFICES ASSUME TypeOK, SingleHolder, [Next]_vars,
                      failures' = 0, faults' = 0
               PROVE  SingleHolder'
    BY DEF SingleHolder
  <1> USE DEF TypeOK, SingleHolder, Holds
  <1>1. CASE UNCHANGED vars
    BY <1>1
  <1>2. CASE Next
    <2> PICK q \in Requests :
            RequestStep(q) \/ ReserveFailsOpen(q) \/ SettleLost(q) \/ Crash(q)
      BY <1>2 DEF Next
    <2>1. CASE ReserveInsert(q)
      BY <2>1 DEF ReserveInsert, InsertTakes, KeyIsFree
    <2>2. CASE ReserveSelect(q)
      BY <2>2 DEF ReserveSelect
    <2>3. CASE HandlerSucceeds(q)
      BY <2>3 DEF HandlerSucceeds
    <2>4. CASE HandlerFails(q) \/ HandlerUnreplayable(q)
      BY <2>4 DEF HandlerFails, HandlerUnreplayable
    <2>5. CASE CompleteKey(q)
      BY <2>5 DEF CompleteKey
    <2>6. CASE ReleaseKey(q)
      BY <2>6 DEF ReleaseKey
    <2>7. CASE ReserveFailsOpen(q) \/ SettleLost(q) \/ Crash(q)
      BY <2>7 DEF ReserveFailsOpen, SettleLost, Crash
    <2>8. QED
      BY <2>1, <2>2, <2>3, <2>4, <2>5, <2>6, <2>7 DEF RequestStep
  <1>3. QED
    BY <1>1, <1>2

(* A set without two members is empty or a singleton. *)
LEMMA AtMostOneMember ==
    ASSUME NEW S, \A x, y \in S : x = y
    PROVE  Cardinality(S) <= 1
  <1>1. CASE S = {}
    BY <1>1, FS_EmptySet
  <1>2. CASE S # {}
    <2>1. PICK x \in S : S = {x}
      BY <1>2
    <2>2. QED
      BY <2>1, FS_Singleton
  <1>3. QED
    BY <1>1, <1>2

(* Any number of retries and concurrent requests with one key write once,  *)
(* as long as no handler fails and no statement of the guard is lost.      *)
THEOREM KeyWritesOnce == Spec => []AtMostOneEffect
  <1>1. Init => SingleHolder
    BY DEF Init, SingleHolder, Holds
  <1>2. TypeOK /\ SingleHolder => AtMostOneEffect
    <2> SUFFICES ASSUME TypeOK, SingleHolder, failures = 0 /\ faults = 0
                 PROVE  Cardinality(effects) <= 1
      BY DEF AtMostOneEffect
    <2>1. \A x, y \in effects : x = y
      BY DEF SingleHolder, Holds, TypeOK
    <2>2. QED
      BY <2>1, AtMostOneMember
  <1>3. QED
    BY <1>1, <1>2, SingleHolderStep, TypeCorrect, PTL DEF Spec

-----------------------------------------------------------------------------
(* Somebody is on the way to completing or releasing the key.              *)
ReservationIsHeld ==
    row = "reserved" /\ faults = 0 =>
        \E q \in Requests : pc[q] \in {"handling", "completing", "releasing"}

(* Every step keeps a reservation held: who ends with the key in hand      *)
(* completes or deletes the row, whoever inserted it.                      *)
LEMMA ReservationStep == TypeOK /\ ReservationIsHeld /\ [Next]_vars => ReservationIsHeld'
  <1> SUFFICES ASSUME TypeOK, ReservationIsHeld, [Next]_vars, row' = "reserved", faults' = 0
               PROVE  \E q \in Requests : pc'[q] \in {"handling", "completing", "releasing"}
    BY DEF ReservationIsHeld
  <1> USE DEF TypeOK
  <1>1. CASE UNCHANGED vars
    BY <1>1 DEF ReservationIsHeld
  <1>2. CASE Next
    <2> PICK q \in Requests :
            RequestStep(q) \/ ReserveFailsOpen(q) \/ SettleLost(q) \/ Crash(q)
      BY <1>2 DEF Next
    <2>1. CASE ReserveInsert(q)
      <3>1. CASE InsertTakes
        BY <2>1, <3>1 DEF ReserveInsert
      <3>2. CASE ~InsertTakes
        <4>1. PICK p \in Requests : pc[p] \in {"handling", "completing", "releasing"}
          BY <2>1, <3>2 DEF ReserveInsert, ReservationIsHeld
        <4>2. pc'[p] = pc[p]
          BY <2>1, <3>2, <4>1 DEF ReserveInsert
        <4>3. QED
          BY <4>1, <4>2
      <3>3. QED
        BY <3>1, <3>2
    <2>2. CASE ReserveSelect(q)
      <3>1. PICK p \in Requests : pc[p] \in {"handling", "completing", "releasing"}
        BY <2>2 DEF ReserveSelect, ReservationIsHeld
      <3>2. pc'[p] = pc[p]
        BY <2>2, <3>1 DEF ReserveSelect
      <3>3. QED
        BY <3>1, <3>2
    <2>3. CASE HandlerSucceeds(q) \/ HandlerFails(q) \/ HandlerUnreplayable(q)
      <3>1. pc'[q] \in {"completing", "releasing"}
        BY <2>3 DEF HandlerSucceeds, HandlerFails, HandlerUnreplayable, AfterFailure, ToRelease
      <3>2. QED
        BY <3>1
    <2>4. CASE CompleteKey(q) \/ ReleaseKey(q)
      BY <2>4 DEF CompleteKey, ReleaseKey, Unanswered, DropReservation, DeleteRow
    <2>5. CASE ReserveFailsOpen(q) \/ SettleLost(q) \/ Crash(q)
      BY <2>5 DEF ReserveFailsOpen, SettleLost, Crash
    <2>6. QED
      BY <2>1, <2>2, <2>3, <2>4, <2>5 DEF RequestStep
  <1>3. QED
    BY <1>1, <1>2

(* The safety half of ReservationEnds, for every number of requests and    *)
(* failing handlers: until a statement of the guard is lost or a worker    *)
(* dies, a reserved key always has a request on the way to completing or   *)
(* releasing it, although releases may delete somebody else's row.         *)
THEOREM ReservationsAreHeld == Spec => []ReservationIsHeld
  <1>1. Init => ReservationIsHeld
    BY DEF Init, ReservationIsHeld
  <1>2. QED
    BY <1>1, ReservationStep, TypeCorrect, PTL DEF Spec
=============================================================================
