----------------------- MODULE ProjectionOutboxProofs -----------------------
(***************************************************************************)
(* Theorems about ProjectionOutbox, for every set of rows, dispatchers and *)
(* consumers and every bound: type correctness, the finality of processed  *)
(* and dead-lettered rows, that a processed row was projected, that no     *)
(* governed row is lost while runs end within their claim, and that it     *)
(* implements Outbox.  At the end, theorems about GraphPersist.            *)
(***************************************************************************)
EXTENDS ProjectionOutbox, GraphPersist, TLAPS

-----------------------------------------------------------------------------
(* Type correctness.                                                       *)

(* Taking a message off the queue, and putting one on, keeps the counts    *)
(* natural.                                                                *)
LEMMA TakeType ==
    ASSUME TypeOK, NEW r \in Rows, NEW k \in Deliveries, main[r][k] > 0
    PROVE  Take(r, k) \in [Rows -> [Deliveries -> Nat]]
  <1>1. main[r] \in [Deliveries -> Nat] /\ main[r][k] - 1 \in Nat
    BY DEF TypeOK
  <1>2. [main[r] EXCEPT ![k] = @ - 1] \in [Deliveries -> Nat]
    BY <1>1
  <1>3. QED
    BY <1>2 DEF Take, TypeOK

(* Publishing a batch keeps the counts natural.                            *)
LEMMA PublishedType ==
    ASSUME TypeOK, NEW ids \in SUBSET Rows
    PROVE  Published(ids) \in [Rows -> [Deliveries -> Nat]]
  <1>1. 1 \in Deliveries
    BY BoundsAssumption DEF Deliveries
  <1>2. ASSUME NEW r \in Rows
        PROVE  [main[r] EXCEPT ![1] = @ + 1] \in [Deliveries -> Nat]
    <2>1. main[r] \in [Deliveries -> Nat] /\ main[r][1] + 1 \in Nat
      BY <1>1 DEF TypeOK
    <2>2. QED
      BY <2>1
  <1>3. QED
    BY <1>2 DEF Published, TypeOK

(* Giving a message back keeps the counts natural, on either queue.        *)
LEMMA RedeliverType ==
    ASSUME TypeOK, NEW r \in Rows, NEW k \in Deliveries, Redeliver(r, k)
    PROVE  main' \in [Rows -> [Deliveries -> Nat]] /\ dlq' \in [Rows -> Nat]
  <1>1. CASE k < MaxDeliveries
    <2>1. k + 1 \in Deliveries
      BY <1>1, BoundsAssumption DEF Deliveries
    <2>2. main[r] \in [Deliveries -> Nat] /\ main[r][k + 1] + 1 \in Nat
      BY <2>1 DEF TypeOK
    <2>3. [main[r] EXCEPT ![k + 1] = @ + 1] \in [Deliveries -> Nat]
      BY <2>2
    <2>4. main' = [main EXCEPT ![r][k + 1] = @ + 1] /\ dlq' = dlq
      BY <1>1 DEF Redeliver
    <2>5. QED
      BY <2>3, <2>4 DEF TypeOK
  <1>2. CASE ~(k < MaxDeliveries)
    <2>1. main' = main /\ dlq' = [dlq EXCEPT ![r] = @ + 1]
      BY <1>2 DEF Redeliver
    <2>2. dlq[r] + 1 \in Nat
      BY DEF TypeOK
    <2>3. QED
      BY <2>1, <2>2 DEF TypeOK
  <1>3. QED
    BY <1>1, <1>2

(* Every step of the dispatchers, the consumers, the queue and the writers *)
(* keeps the types.                                                        *)
LEMMA TypeStep == TypeOK /\ [Next]_vars => TypeOK'
  <1> SUFFICES ASSUME TypeOK, [Next]_vars PROVE TypeOK'
    OBVIOUS
  <1> USE DEF rowVars, dispVars, consVars
  <1>1. CASE UNCHANGED vars
    BY <1>1 DEF TypeOK, vars
  <1>2. ASSUME NEW r \in Rows, Commit(r) PROVE TypeOK'
    BY <1>2 DEF Commit, TypeOK, Statuses
  <1>3. ASSUME NEW r \in Rows, ClaimAges(r) PROVE TypeOK'
    BY <1>3 DEF ClaimAges, TypeOK
  <1>4. ASSUME NEW r \in Rows, ClaimOverdue(r) PROVE TypeOK'
    BY <1>4 DEF ClaimOverdue, Fault, TypeOK
  <1>5. ASSUME NEW r \in Rows, DeadLetter(r) PROVE TypeOK'
    BY <1>5 DEF DeadLetter, WriteDeadLetter, DeadLetterOpen, TypeOK, Statuses
  <1>6. ASSUME NEW r \in Rows, DeadLetterUnacked(r) PROVE TypeOK'
    BY <1>6 DEF DeadLetterUnacked, WriteDeadLetter, DeadLetterOpen, Fault, TypeOK,
                Statuses
  <1>7. ASSUME NEW r \in Rows, NEW k \in Deliveries, AckInvalid(r, k) PROVE TypeOK'
    <2>1. main' \in [Rows -> [Deliveries -> Nat]]
      BY <1>7, TakeType DEF AckInvalid
    <2>2. QED
      BY <1>7, <2>1 DEF AckInvalid, TypeOK
  <1>8. ASSUME NEW r \in Rows, NEW k \in Deliveries, AckUnclaimed(r, k) PROVE TypeOK'
    <2>1. main' \in [Rows -> [Deliveries -> Nat]]
      BY <1>8, TakeType DEF AckUnclaimed
    <2>2. QED
      BY <1>8, <2>1 DEF AckUnclaimed, TypeOK
  <1>9. ASSUME NEW r \in Rows, NEW k \in Deliveries, NEW c \in Consumers,
               BeginAttempt(c, r, k)
        PROVE  TypeOK'
    <2>1. main' \in [Rows -> [Deliveries -> Nat]]
      BY <1>9, TakeType DEF BeginAttempt
    <2>2. QED
      BY <1>9, <2>1 DEF BeginAttempt, TypeOK, Statuses, CPhases
  <1>10. ASSUME NEW d \in Dispatchers, ClaimRows(d) PROVE TypeOK'
    <2>1. PICK ids \in SUBSET {r \in Rows : Claimable(r)} :
            /\ status' = [r \in Rows |-> IF r \in ids THEN "dispatching" ELSE status[r]]
            /\ stale' = [r \in Rows |-> IF r \in ids THEN FALSE ELSE stale[r]]
            /\ dids' = [dids EXCEPT ![d] = ids]
      BY <1>10 DEF ClaimRows
    <2>2. ids \in SUBSET Rows
      OBVIOUS
    <2>3. status' \in [Rows -> Statuses] /\ stale' \in [Rows -> BOOLEAN]
      BY <2>1 DEF TypeOK, Statuses
    <2>4. dids' \in [Dispatchers -> SUBSET Rows]
      BY <2>1, <2>2 DEF TypeOK
    <2>5. QED
      BY <1>10, <2>3, <2>4 DEF ClaimRows, TypeOK, DPhases
  <1>11. ASSUME NEW d \in Dispatchers, SendBatch(d) PROVE TypeOK'
    <2>1. main' \in [Rows -> [Deliveries -> Nat]]
      BY <1>11, PublishedType DEF SendBatch, TypeOK
    <2>2. QED
      BY <1>11, <2>1 DEF SendBatch, TypeOK, DPhases
  <1>12. ASSUME NEW d \in Dispatchers, SendBatchFails(d) PROVE TypeOK'
    <2>1. main' \in [Rows -> [Deliveries -> Nat]]
      BY <1>12, PublishedType DEF SendBatchFails, TypeOK
    <2>2. QED
      BY <1>12, <2>1 DEF SendBatchFails, Fault, TypeOK, DPhases
  <1>13. ASSUME NEW d \in Dispatchers, MarkDispatched(d) PROVE TypeOK'
    BY <1>13 DEF MarkDispatched, TypeOK, Statuses, DPhases
  <1>14. ASSUME NEW d \in Dispatchers, MarkDispatchedFails(d) PROVE TypeOK'
    BY <1>14 DEF MarkDispatchedFails, Fault, TypeOK, DPhases
  <1>15. ASSUME NEW d \in Dispatchers, ReleaseDispatch(d) PROVE TypeOK'
    BY <1>15 DEF ReleaseDispatch, TypeOK, Statuses, DPhases
  <1>16. ASSUME NEW d \in Dispatchers, DispatcherCrash(d) PROVE TypeOK'
    BY <1>16 DEF DispatcherCrash, Fault, TypeOK, DPhases
  <1>17. ASSUME NEW c \in Consumers, AssembleFacts(c) PROVE TypeOK'
    BY <1>17 DEF AssembleFacts, Committed, TypeOK, CPhases
  <1>18. ASSUME NEW c \in Consumers, PersistGraph(c) PROVE TypeOK'
    BY <1>18 DEF PersistGraph, TypeOK, CPhases
  <1>19. ASSUME NEW c \in Consumers, MarkProcessed(c) PROVE TypeOK'
    BY <1>19 DEF MarkProcessed, TypeOK, Statuses, CPhases
  <1>20. ASSUME NEW c \in Consumers, AckProcessed(c) PROVE TypeOK'
    BY <1>20 DEF AckProcessed, TypeOK, CPhases
  <1>21. ASSUME NEW c \in Consumers, ProjectionFails(c) PROVE TypeOK'
    BY <1>21 DEF ProjectionFails, Fault, TypeOK, CPhases
  <1>22. ASSUME NEW c \in Consumers, MarkFailed(c) PROVE TypeOK'
    <2>1. crow[c] \in Rows /\ cdel[c] \in Deliveries
      BY DEF TypeOK
    <2>2. Redeliver(crow[c], cdel[c])
      BY <1>22 DEF MarkFailed, AfterAttemptFailed, RetryMessage
    <2>3. main' \in [Rows -> [Deliveries -> Nat]] /\ dlq' \in [Rows -> Nat]
      BY <2>1, <2>2, RedeliverType
    <2>4. QED
      BY <1>22, <2>3 DEF MarkFailed, FailedAttemptStatus, TypeOK, Statuses, CPhases
  <1>23. ASSUME NEW c \in Consumers, ConsumerCrash(c) PROVE TypeOK'
    <2>1. crow[c] \in Rows /\ cdel[c] \in Deliveries
      BY DEF TypeOK
    <2>2. main' \in [Rows -> [Deliveries -> Nat]] /\ dlq' \in [Rows -> Nat]
      BY <1>23, <2>1, RedeliverType DEF ConsumerCrash
    <2>3. QED
      BY <1>23, <2>2 DEF ConsumerCrash, Fault, TypeOK, CPhases
  <1>24. QED
    BY <1>1, <1>2, <1>3, <1>4, <1>5, <1>6, <1>7, <1>8, <1>9, <1>10, <1>11, <1>12,
       <1>13, <1>14, <1>15, <1>16, <1>17, <1>18, <1>19, <1>20, <1>21, <1>22, <1>23
       DEF Next, DeliverStep, DispatchStep, ConsumeStep

(* The empty table, idle workers and empty queues are well typed.          *)
LEMMA TypeInit == Init => TypeOK
  <1>1. 1 \in Deliveries
    BY BoundsAssumption DEF Deliveries
  <1>2. QED
    BY <1>1 DEF Init, TypeOK, Statuses, DPhases, CPhases

(* Every variable keeps its type: in particular the status column stays    *)
(* within the values its CHECK constraint allows, whoever writes it.       *)
THEOREM TypeCorrect == Spec => []TypeOK
  <1>1. QED
    BY TypeInit, TypeStep, PTL DEF Spec

-----------------------------------------------------------------------------
(* Finality.  The timestamps and the status column are written together,   *)
(* so a set timestamp fixes the status; every other writer's WHERE clause  *)
(* then excludes the row.                                                  *)

ProcessedStatus == \A r \in Rows : processed[r] => status[r] = "processed"
DeadStatus == \A r \in Rows : dead[r] => status[r] \in {"dead_letter", "processed"}

(* What one step may do to a processed and to a dead-lettered row. *)
KeepsProcessed ==
    \A r \in Rows : processed[r] => processed'[r] /\ status'[r] = "processed"
KeepsDead ==
    \A r \in Rows : dead[r] => dead'[r] /\ status'[r] \in {"dead_letter", "processed"}

(* No step takes a processed or a dead-lettered row back.                  *)
LEMMA FinalStep ==
    TypeOK /\ ProcessedStatus /\ DeadStatus /\ [Next]_vars => KeepsProcessed /\ KeepsDead
  <1> SUFFICES ASSUME TypeOK, ProcessedStatus, DeadStatus, [Next]_vars
               PROVE  KeepsProcessed /\ KeepsDead
    OBVIOUS
  <1> USE DEF rowVars, ProcessedStatus, DeadStatus, KeepsProcessed, KeepsDead
  <1>1. CASE UNCHANGED rowVars
    BY <1>1
  <1>2. ASSUME NEW r \in Rows, Commit(r) PROVE KeepsProcessed /\ KeepsDead
    BY <1>2 DEF Commit, TypeOK
  <1>3. ASSUME NEW r \in Rows, ClaimAges(r) \/ ClaimOverdue(r)
        PROVE  KeepsProcessed /\ KeepsDead
    BY <1>3 DEF ClaimAges, ClaimOverdue
  <1>4. ASSUME NEW r \in Rows, WriteDeadLetter(r) PROVE KeepsProcessed /\ KeepsDead
    BY <1>4 DEF WriteDeadLetter, DeadLetterOpen, TypeOK
  <1>5. ASSUME NEW r \in Rows, NEW k \in Deliveries, NEW c \in Consumers,
               BeginAttempt(c, r, k)
        PROVE  KeepsProcessed /\ KeepsDead
    BY <1>5 DEF BeginAttempt, Startable, TypeOK
  <1>6. ASSUME NEW d \in Dispatchers, ClaimRows(d) PROVE KeepsProcessed /\ KeepsDead
    <2>1. PICK ids \in SUBSET {r \in Rows : Claimable(r)} :
            status' = [r \in Rows |-> IF r \in ids THEN "dispatching" ELSE status[r]]
      BY <1>6 DEF ClaimRows
    <2>2. \A r \in Rows : processed[r] \/ dead[r] => r \notin ids
      BY DEF Claimable
    <2>3. QED
      BY <1>6, <2>1, <2>2 DEF ClaimRows
  <1>7. ASSUME NEW d \in Dispatchers, MarkDispatched(d) \/ ReleaseDispatch(d)
        PROVE  KeepsProcessed /\ KeepsDead
    BY <1>7 DEF MarkDispatched, ReleaseDispatch, DispatchOpen, FromDispatching
  <1>8. ASSUME NEW c \in Consumers, MarkProcessed(c) PROVE KeepsProcessed /\ KeepsDead
    BY <1>8 DEF MarkProcessed, TypeOK
  <1>9. ASSUME NEW c \in Consumers, MarkFailed(c) PROVE KeepsProcessed /\ KeepsDead
    BY <1>9 DEF MarkFailed, FailureOpen, TypeOK
  <1>10. QED
    BY <1>1, <1>2, <1>3, <1>4, <1>5, <1>6, <1>7, <1>8, <1>9
       DEF Next, DeliverStep, DispatchStep, ConsumeStep, vars,
           DeadLetter, DeadLetterUnacked, AckInvalid, AckUnclaimed, SendBatch,
           SendBatchFails, MarkDispatchedFails, DispatcherCrash, AssembleFacts,
           PersistGraph, AckProcessed, ProjectionFails, ConsumerCrash

(* The status goes with the timestamps in every step.                      *)
LEMMA FinalInvStep ==
    TypeOK /\ ProcessedStatus /\ DeadStatus /\ [Next]_vars
        => ProcessedStatus' /\ DeadStatus'
  <1> SUFFICES ASSUME TypeOK, ProcessedStatus, DeadStatus, [Next]_vars
               PROVE  ProcessedStatus' /\ DeadStatus'
    OBVIOUS
  <1>1. KeepsProcessed /\ KeepsDead
    BY FinalStep
  <1>2. ASSUME NEW r \in Rows, processed'[r], ~processed[r]
        PROVE  status'[r] = "processed"
    <2>1. PICK c \in Consumers : MarkProcessed(c)
      BY <1>2 DEF Next, DeliverStep, DispatchStep, ConsumeStep, vars, rowVars,
           Commit, ClaimAges, ClaimOverdue, WriteDeadLetter, BeginAttempt, ClaimRows,
           MarkDispatched, ReleaseDispatch, MarkFailed,
           DeadLetter, DeadLetterUnacked, AckInvalid, AckUnclaimed, SendBatch,
           SendBatchFails, MarkDispatchedFails, DispatcherCrash, AssembleFacts,
           PersistGraph, AckProcessed, ProjectionFails, ConsumerCrash
    <2>2. QED
      BY <1>2, <2>1 DEF MarkProcessed, TypeOK
  <1>3. ASSUME NEW r \in Rows, dead'[r], ~dead[r]
        PROVE  status'[r] \in {"dead_letter", "processed"}
    <2>1. PICK q \in Rows : WriteDeadLetter(q)
      BY <1>3 DEF Next, DeliverStep, DispatchStep, ConsumeStep, vars, rowVars,
           Commit, ClaimAges, ClaimOverdue, BeginAttempt, ClaimRows,
           MarkDispatched, ReleaseDispatch, MarkFailed, MarkProcessed,
           DeadLetter, DeadLetterUnacked, AckInvalid, AckUnclaimed, SendBatch,
           SendBatchFails, MarkDispatchedFails, DispatcherCrash, AssembleFacts,
           PersistGraph, AckProcessed, ProjectionFails, ConsumerCrash
    <2>2. QED
      BY <1>3, <2>1 DEF WriteDeadLetter, DeadLetterOpen, TypeOK
  <1>4. QED
    BY <1>1, <1>2, <1>3 DEF KeepsProcessed, KeepsDead, ProcessedStatus, DeadStatus

(* Types and the agreement of status and timestamps hold throughout.       *)
LEMMA FinalInvariant == Spec => [](TypeOK /\ ProcessedStatus /\ DeadStatus)
  <1>1. Init => TypeOK /\ ProcessedStatus /\ DeadStatus
    <2>1. Init => ProcessedStatus /\ DeadStatus
      BY DEF Init, ProcessedStatus, DeadStatus
    <2>2. QED
      BY <2>1, TypeInit
  <1>2. QED
    BY <1>1, TypeStep, FinalInvStep, PTL DEF Spec

(* Once processed_at is set, no late attempt, release, failure or dead     *)
(* letter changes the row.                                                 *)
THEOREM ProcessedStaysFinal == Spec => ProcessedIsFinal
  <1>1. TypeOK /\ ProcessedStatus /\ DeadStatus /\ [Next]_vars
          => [\A r \in Rows : processed[r] => processed'[r] /\ status'[r] = "processed"]_vars
    BY FinalStep DEF KeepsProcessed
  <1>2. QED
    BY <1>1, FinalInvariant, PTL DEF Spec, ProcessedIsFinal

(* A dead-lettered row is never put back to work.                          *)
THEOREM DeadStaysClosed == Spec => DeadIsNeverReopened
  <1>1. TypeOK /\ ProcessedStatus /\ DeadStatus /\ [Next]_vars
          => [\A r \in Rows : dead[r] => dead'[r]
                /\ status'[r] \in {"dead_letter", "processed"}]_vars
    BY FinalStep DEF KeepsDead
  <1>2. QED
    BY <1>1, FinalInvariant, PTL DEF Spec, DeadIsNeverReopened

-----------------------------------------------------------------------------
(* Processed rows were projected.  Followed back through an attempt: it    *)
(* opens on a committed row, reads its facts after that, installs what it  *)
(* read, and only then marks the row.                                      *)

AttemptCommitted ==
    \A c \in Consumers : cphase[c] = "assembling" => status[crow[c]] # "absent"
FactsHaveRow ==
    \A c \in Consumers : cphase[c] = "persisting" => crow[c] \in facts[c]
GraphHasRow ==
    \A c \in Consumers : cphase[c] \in {"projected", "acking"} => crow[c] \in projected

ProjectionInv ==
    /\ AttemptCommitted
    /\ FactsHaveRow
    /\ GraphHasRow
    /\ ProcessedWasProjected

(* A committed row stays committed.                                        *)
LEMMA CommittedStays ==
    ASSUME TypeOK, [Next]_vars, NEW r \in Rows, status[r] # "absent"
    PROVE  status'[r] # "absent"
  <1> USE DEF rowVars
  <1>1. CASE UNCHANGED rowVars
    BY <1>1
  <1>2. ASSUME NEW q \in Rows, Commit(q) \/ ClaimAges(q) \/ ClaimOverdue(q)
                               \/ WriteDeadLetter(q)
        PROVE  status'[r] # "absent"
    BY <1>2 DEF Commit, ClaimAges, ClaimOverdue, WriteDeadLetter, TypeOK
  <1>3. ASSUME NEW q \in Rows, NEW k \in Deliveries, NEW c \in Consumers,
               BeginAttempt(c, q, k)
        PROVE  status'[r] # "absent"
    BY <1>3 DEF BeginAttempt, TypeOK
  <1>4. ASSUME NEW d \in Dispatchers,
               ClaimRows(d) \/ MarkDispatched(d) \/ ReleaseDispatch(d)
        PROVE  status'[r] # "absent"
    BY <1>4 DEF ClaimRows, MarkDispatched, ReleaseDispatch
  <1>5. ASSUME NEW c \in Consumers, MarkProcessed(c) \/ MarkFailed(c)
        PROVE  status'[r] # "absent"
    BY <1>5 DEF MarkProcessed, MarkFailed, FailedAttemptStatus, TypeOK
  <1>6. QED
    BY <1>1, <1>2, <1>3, <1>4, <1>5
       DEF Next, DeliverStep, DispatchStep, ConsumeStep, vars,
           DeadLetter, DeadLetterUnacked, AckInvalid, AckUnclaimed, SendBatch,
           SendBatchFails, MarkDispatchedFails, DispatcherCrash, AssembleFacts,
           PersistGraph, AckProcessed, ProjectionFails, ConsumerCrash

(* Every step keeps an attempt's facts and the installed graphs in line.   *)
LEMMA ProjectionStep == TypeOK /\ ProjectionInv /\ [Next]_vars => ProjectionInv'
  <1> SUFFICES ASSUME TypeOK, ProjectionInv, [Next]_vars PROVE ProjectionInv'
    OBVIOUS
  <1> USE DEF ProjectionInv, AttemptCommitted, FactsHaveRow, GraphHasRow,
              ProcessedWasProjected, consVars
  <1>1. \A r \in Rows : status[r] # "absent" => status'[r] # "absent"
    BY CommittedStays
  <1>2. CASE UNCHANGED <<consVars, projected, processed>>
    BY <1>1, <1>2 DEF TypeOK
  <1>3. ASSUME NEW r \in Rows, NEW k \in Deliveries, NEW c \in Consumers,
               BeginAttempt(c, r, k)
        PROVE  ProjectionInv'
    <2>1. status'[r] # "absent"
      BY <1>3 DEF BeginAttempt, TypeOK
    <2>2. QED
      BY <1>1, <1>3, <2>1 DEF BeginAttempt, TypeOK
  <1>4. ASSUME NEW c \in Consumers, AssembleFacts(c) PROVE ProjectionInv'
    <2>1. crow[c] \in Committed
      BY <1>4 DEF AssembleFacts, Committed, TypeOK
    <2>2. QED
      BY <1>1, <1>4, <2>1 DEF AssembleFacts, rowVars, TypeOK
  <1>5. ASSUME NEW c \in Consumers, PersistGraph(c) PROVE ProjectionInv'
    BY <1>1, <1>5 DEF PersistGraph, rowVars, TypeOK
  <1>6. ASSUME NEW c \in Consumers, MarkProcessed(c) PROVE ProjectionInv'
    BY <1>1, <1>6 DEF MarkProcessed, MayMarkProcessed, AfterGraph, TypeOK
  <1>7. ASSUME NEW c \in Consumers, AckProcessed(c) \/ ProjectionFails(c)
                                    \/ MarkFailed(c) \/ ConsumerCrash(c)
        PROVE  ProjectionInv'
    BY <1>1, <1>7 DEF AckProcessed, ProjectionFails, MarkFailed, ConsumerCrash,
                      rowVars, TypeOK
  <1>8. QED
    BY <1>2, <1>3, <1>4, <1>5, <1>6, <1>7
       DEF Next, DeliverStep, DispatchStep, ConsumeStep, vars, rowVars,
           Commit, ClaimAges, ClaimOverdue, WriteDeadLetter, DeadLetter,
           DeadLetterUnacked, AckInvalid, AckUnclaimed, ClaimRows, SendBatch,
           SendBatchFails, MarkDispatched, MarkDispatchedFails, ReleaseDispatch,
           DispatcherCrash

(* A row is marked processed only when some installed graph contained its  *)
(* effect, for any number of overlapping attempts, faults and late runs.   *)
THEOREM ProcessedRowsWereProjected == Spec => []ProcessedWasProjected
  <1>1. Init => ProjectionInv
    BY DEF Init, ProjectionInv, AttemptCommitted, FactsHaveRow, GraphHasRow,
           ProcessedWasProjected
  <1>2. ProjectionInv => ProcessedWasProjected
    BY DEF ProjectionInv
  <1>3. QED
    BY <1>1, <1>2, TypeInit, TypeStep, ProjectionStep, PTL DEF Spec

-----------------------------------------------------------------------------
(* No governed row is lost, while dispatcher runs end within their claim.  *)
(* A row leaves the dispatchers' reach when it is marked dispatched, so    *)
(* its message must then still exist; it does, because a message is only   *)
(* dropped unhandled for a row that is settled or has been released, and a *)
(* claim that is still held is neither released nor taken by another run.  *)

(* A message of r is queued, exhausted or being handled. *)
Queued(r) == (\E k \in Deliveries : main[r][k] > 0) \/ dlq[r] > 0
Delivery(r) ==
    \/ Queued(r)
    \/ \E c \in Consumers : cphase[c] # "idle" /\ crow[c] = r

StatusSettles ==
    \A r \in Rows : /\ status[r] = "processed" => processed[r]
                    /\ status[r] = "dead_letter" => dead[r]
AckingIsProcessed ==
    \A c \in Consumers : cphase[c] = "acking" => processed[crow[c]]
OneHolder ==
    \A d, e \in Dispatchers, r \in Rows : Holds(d, r) /\ Holds(e, r) => d = e
HeldIsClaimed ==
    \A d \in Dispatchers, r \in Rows :
        Holds(d, r) => /\ status[r] \notin {"absent", "pending"}
                       /\ status[r] = "dispatching" => ~stale[r]
SentIsDelivered ==
    \A d \in Dispatchers, r \in Governed :
        dphase[d] = "sent" /\ r \in dids[d] /\ ~Settled(r) => Delivery(r)
WorkIsDelivered ==
    \A r \in Governed :
        status[r] \in {"dispatched", "processing"} /\ ~Settled(r) => Delivery(r)

DeliveryInv ==
    /\ StatusSettles
    /\ AckingIsProcessed
    /\ OneHolder
    /\ HeldIsClaimed
    /\ SentIsDelivered
    /\ WorkIsDelivered

(* A message the queue takes back is queued again, and nothing else moves. *)
LEMMA RedeliverQueues ==
    ASSUME TypeOK, NEW q \in Rows, NEW k \in Deliveries, Redeliver(q, k)
    PROVE  /\ Queued(q)'
           /\ \A r \in Rows : Queued(r) => Queued(r)'
  <1>1. CASE k < MaxDeliveries
    <2>1. k + 1 \in Deliveries
      BY <1>1, BoundsAssumption DEF Deliveries
    <2>2. main' = [main EXCEPT ![q] = [main[q] EXCEPT ![k + 1] = main[q][k + 1] + 1]]
          /\ dlq' = dlq
      BY <1>1 DEF Redeliver
    <2>3. main[q] \in [Deliveries -> Nat] /\ main[q][k + 1] \in Nat
      BY <2>1 DEF TypeOK
    <2>4. main'[q] = [main[q] EXCEPT ![k + 1] = main[q][k + 1] + 1]
          /\ \A r \in Rows : r # q => main'[r] = main[r]
      BY <2>2 DEF TypeOK
    <2>5. main'[q][k + 1] > 0
      BY <2>1, <2>3, <2>4
    <2>6. QED
      BY <2>1, <2>2, <2>4, <2>5 DEF Queued
  <1>2. CASE ~(k < MaxDeliveries)
    <2>1. main' = main /\ dlq' = [dlq EXCEPT ![q] = @ + 1]
      BY <1>2 DEF Redeliver
    <2>2. dlq[q] \in Nat /\ \A r \in Rows : dlq[r] \in Nat
      BY DEF TypeOK
    <2>3. QED
      BY <2>1, <2>2 DEF Queued, TypeOK
  <1>3. QED
    BY <1>1, <1>2

(* Publishing adds a message for every id and takes none away.             *)
LEMMA PublishedQueues ==
    ASSUME TypeOK, NEW ids \in SUBSET Rows, main' = Published(ids), dlq' = dlq
    PROVE  /\ \A r \in ids : Queued(r)'
           /\ \A r \in Rows : Queued(r) => Queued(r)'
  <1>1. 1 \in Deliveries
    BY BoundsAssumption DEF Deliveries
  <1>2. ASSUME NEW r \in ids PROVE main'[r][1] > 0
    <2>1. main[r] \in [Deliveries -> Nat] /\ main[r][1] \in Nat
      BY <1>1 DEF TypeOK
    <2>2. main'[r] = [main[r] EXCEPT ![1] = main[r][1] + 1]
      BY DEF Published
    <2>3. QED
      BY <1>1, <2>1, <2>2
  <1>3. \A r \in Rows : r \notin ids => main'[r] = main[r]
    BY DEF Published
  <1>4. QED
    BY <1>1, <1>2, <1>3 DEF Queued

(* Taking a message for q leaves every other row's messages alone.         *)
LEMMA TakeOthers ==
    ASSUME TypeOK, NEW q \in Rows, NEW k \in Deliveries, main' = Take(q, k), dlq' = dlq,
           NEW r \in Rows, r # q, Queued(r)
    PROVE  Queued(r)'
  <1>1. main'[r] = main[r]
    BY DEF Take, TypeOK
  <1>2. QED
    BY <1>1 DEF Queued

(* The delivery of an unsettled claimed row ends only in another one.      *)
LEMMA DeliveryKept ==
    ASSUME TypeOK, StatusSettles, AckingIsProcessed, [Next]_vars,
           NEW r \in Governed, status[r] \notin {"absent", "pending"},
           ~Settled(r), ~Settled(r)', Delivery(r)
    PROVE  Delivery(r)'
  <1> USE RowsAssumption DEF rowVars, consVars, dispVars
  <1>0. r \in Rows
    OBVIOUS
  <1>1. CASE UNCHANGED <<main, dlq, cphase, crow>>
    BY <1>1 DEF Delivery, Queued
  <1>2. ASSUME NEW d \in Dispatchers, SendBatch(d) \/ SendBatchFails(d)
        PROVE  Delivery(r)'
    <2>1. Queued(r) => Queued(r)'
      <3>1. CASE main' = Published(dids[d]) /\ dlq' = dlq
        BY <1>0, <3>1, PublishedQueues DEF TypeOK
      <3>2. CASE main' = main /\ dlq' = dlq
        BY <3>2 DEF Queued
      <3>3. QED
        BY <1>2, <3>1, <3>2 DEF SendBatch, SendBatchFails
    <2>2. QED
      BY <1>2, <2>1 DEF SendBatch, SendBatchFails, Delivery
  <1>3. ASSUME NEW q \in Rows, NEW k \in Deliveries, AckInvalid(q, k)
        PROVE  Delivery(r)'
    <2>1. q # r
      BY <1>3 DEF AckInvalid
    <2>2. Queued(r) => Queued(r)'
      BY <1>0, <1>3, <2>1, TakeOthers DEF AckInvalid
    <2>3. QED
      BY <1>3, <2>2 DEF AckInvalid, Delivery
  <1>4. ASSUME NEW q \in Rows, NEW k \in Deliveries, AckUnclaimed(q, k)
        PROVE  Delivery(r)'
    <2>1. Startable(r)
      BY <1>0 DEF Startable, Settled, StatusSettles, TypeOK, Statuses
    <2>2. q # r
      BY <1>4, <2>1 DEF AckUnclaimed
    <2>3. Queued(r) => Queued(r)'
      BY <1>0, <1>4, <2>2, TakeOthers DEF AckUnclaimed
    <2>4. QED
      BY <1>4, <2>3 DEF AckUnclaimed, Delivery
  <1>5. ASSUME NEW q \in Rows, NEW k \in Deliveries, NEW c \in Consumers,
               BeginAttempt(c, q, k)
        PROVE  Delivery(r)'
    <2>1. CASE q = r
      BY <1>5, <2>1 DEF BeginAttempt, Delivery, TypeOK
    <2>2. CASE q # r
      <3>1. Queued(r) => Queued(r)'
        BY <1>0, <1>5, <2>2, TakeOthers DEF BeginAttempt
      <3>2. QED
        BY <1>5, <3>1 DEF BeginAttempt, Delivery, TypeOK
    <2>3. QED
      BY <2>1, <2>2
  <1>6. ASSUME NEW c \in Consumers, AssembleFacts(c) \/ PersistGraph(c)
                                    \/ MarkProcessed(c) \/ ProjectionFails(c)
        PROVE  Delivery(r)'
    <2>1. cphase'[c] # "idle" /\ UNCHANGED <<main, dlq, crow>>
          /\ \A x \in Consumers : x # c => cphase'[x] = cphase[x]
      BY <1>6 DEF AssembleFacts, PersistGraph, MarkProcessed, ProjectionFails, TypeOK
    <2>2. QED
      BY <2>1 DEF Delivery, Queued
  <1>7. ASSUME NEW c \in Consumers, AckProcessed(c) PROVE Delivery(r)'
    <2>1. crow[c] # r
      BY <1>7 DEF AckProcessed, AckingIsProcessed, Settled
    <2>2. QED
      BY <1>7, <2>1 DEF AckProcessed, Delivery, Queued, TypeOK
  <1>8. ASSUME NEW c \in Consumers, MarkFailed(c) \/ ConsumerCrash(c)
        PROVE  Delivery(r)'
    <2>1. Redeliver(crow[c], cdel[c])
      BY <1>8 DEF MarkFailed, ConsumerCrash, AfterAttemptFailed, RetryMessage
    <2>2. crow[c] \in Rows /\ cdel[c] \in Deliveries
      BY DEF TypeOK
    <2>3. crow[c] = r \/ Queued(r) => Queued(r)'
      <3>1. ASSUME NEW q \in Rows, q = crow[c]
            PROVE  Queued(q)' /\ (Queued(r) => Queued(r)')
        BY <1>0, <2>1, <2>2, <3>1, RedeliverQueues
      <3>2. QED
        BY <1>0, <2>2, <3>1
    <2>4. crow' = crow /\ \A x \in Consumers : x # c => cphase'[x] = cphase[x]
      BY <1>8 DEF MarkFailed, ConsumerCrash, TypeOK
    <2>5. QED
      BY <2>3, <2>4 DEF Delivery
  <1>9. ASSUME NEW q \in Rows, DeadLetter(q) PROVE Delivery(r)'
    <2>1. q # r
      BY <1>0, <1>9 DEF DeadLetter, WriteDeadLetter, DeadLetterOpen, Settled, TypeOK
    <2>2. QED
      BY <1>9, <2>1 DEF DeadLetter, Delivery, Queued, TypeOK
  <1>10. QED
    BY <1>1, <1>2, <1>3, <1>4, <1>5, <1>6, <1>7, <1>8, <1>9
       DEF Next, DeliverStep, DispatchStep, ConsumeStep, vars,
           Commit, ClaimAges, ClaimOverdue, DeadLetterUnacked, ClaimRows,
           MarkDispatched, MarkDispatchedFails, ReleaseDispatch, DispatcherCrash

(* A terminal status is written together with its timestamp, and a message *)
(* is acknowledged after its row is processed.                             *)
LEMMA SettlesStep ==
    ASSUME TypeOK, ProcessedStatus, DeadStatus, StatusSettles, AckingIsProcessed,
           [Next]_vars
    PROVE  StatusSettles' /\ AckingIsProcessed'
  <1> USE DEF StatusSettles, AckingIsProcessed, rowVars, consVars
  <1>1. CASE UNCHANGED <<rowVars, consVars>>
    BY <1>1
  <1>2. ASSUME NEW r \in Rows, Commit(r) \/ ClaimAges(r) \/ ClaimOverdue(r)
        PROVE  StatusSettles' /\ AckingIsProcessed'
    BY <1>2 DEF Commit, ClaimAges, ClaimOverdue, TypeOK
  <1>3. ASSUME NEW r \in Rows, DeadLetter(r) \/ DeadLetterUnacked(r)
        PROVE  StatusSettles' /\ AckingIsProcessed'
    BY <1>3 DEF DeadLetter, DeadLetterUnacked, WriteDeadLetter, DeadLetterOpen, TypeOK
  <1>4. ASSUME NEW r \in Rows, NEW k \in Deliveries, NEW c \in Consumers,
               BeginAttempt(c, r, k)
        PROVE  StatusSettles' /\ AckingIsProcessed'
    BY <1>4 DEF BeginAttempt, TypeOK
  <1>5. ASSUME NEW d \in Dispatchers, ClaimRows(d) PROVE StatusSettles' /\ AckingIsProcessed'
    <2>1. PICK ids \in SUBSET {r \in Rows : Claimable(r)} :
            status' = [r \in Rows |-> IF r \in ids THEN "dispatching" ELSE status[r]]
      BY <1>5 DEF ClaimRows
    <2>2. QED
      BY <1>5, <2>1 DEF ClaimRows
  <1>6. ASSUME NEW d \in Dispatchers, MarkDispatched(d) \/ ReleaseDispatch(d)
        PROVE  StatusSettles' /\ AckingIsProcessed'
    BY <1>6 DEF MarkDispatched, ReleaseDispatch
  <1>7. ASSUME NEW c \in Consumers, MarkProcessed(c)
        PROVE  StatusSettles' /\ AckingIsProcessed'
    BY <1>7 DEF MarkProcessed, TypeOK
  <1>8. ASSUME NEW c \in Consumers, MarkFailed(c)
        PROVE  StatusSettles' /\ AckingIsProcessed'
    BY <1>8 DEF MarkFailed, FailedAttemptStatus, TypeOK
  <1>9. ASSUME NEW c \in Consumers,
               AssembleFacts(c) \/ PersistGraph(c) \/ AckProcessed(c)
               \/ ProjectionFails(c) \/ ConsumerCrash(c)
        PROVE  StatusSettles' /\ AckingIsProcessed'
    BY <1>9 DEF AssembleFacts, PersistGraph, AckProcessed, ProjectionFails,
                ConsumerCrash, TypeOK
  <1>10. QED
    BY <1>1, <1>2, <1>3, <1>4, <1>5, <1>6, <1>7, <1>8, <1>9
       DEF Next, DeliverStep, DispatchStep, ConsumeStep, vars, AckInvalid,
           AckUnclaimed, SendBatch, SendBatchFails, MarkDispatchedFails, DispatcherCrash

(* A claim in use has one holder, is not released and does not go stale.   *)
LEMMA HolderStep ==
    ASSUME ~SlowDispatch, TypeOK, OneHolder, HeldIsClaimed, [Next]_vars
    PROVE  OneHolder' /\ HeldIsClaimed'
  <1> USE DEF OneHolder, HeldIsClaimed, Holds, rowVars, dispVars
  <1>1. CASE UNCHANGED <<rowVars, dispVars>>
    BY <1>1
  <1>2. ASSUME NEW r \in Rows, Commit(r) \/ ClaimAges(r) \/ ClaimOverdue(r)
        PROVE  OneHolder' /\ HeldIsClaimed'
    BY <1>2 DEF Commit, ClaimAges, ClaimOverdue, TypeOK
  <1>3. ASSUME NEW r \in Rows, DeadLetter(r) \/ DeadLetterUnacked(r)
        PROVE  OneHolder' /\ HeldIsClaimed'
    BY <1>3 DEF DeadLetter, DeadLetterUnacked, WriteDeadLetter, TypeOK
  <1>4. ASSUME NEW r \in Rows, NEW k \in Deliveries, NEW c \in Consumers,
               BeginAttempt(c, r, k)
        PROVE  OneHolder' /\ HeldIsClaimed'
    BY <1>4 DEF BeginAttempt, TypeOK
  <1>5. ASSUME NEW d \in Dispatchers, ClaimRows(d) PROVE OneHolder' /\ HeldIsClaimed'
    <2>1. PICK ids \in SUBSET {r \in Rows : Claimable(r)} :
            /\ status' = [r \in Rows |-> IF r \in ids THEN "dispatching" ELSE status[r]]
            /\ stale' = [r \in Rows |-> IF r \in ids THEN FALSE ELSE stale[r]]
            /\ dids' = [dids EXCEPT ![d] = ids]
      BY <1>5 DEF ClaimRows
    <2>2. \A r \in ids, e \in Dispatchers : ~Holds(e, r)
      BY DEF Claimable
    <2>3. dphase' = [dphase EXCEPT ![d] = "claimed"]
      BY <1>5 DEF ClaimRows
    <2>4. ASSUME NEW e \in Dispatchers, NEW r \in Rows
          PROVE  Holds(e, r)' <=> IF e = d THEN r \in ids ELSE Holds(e, r)
      BY <2>1, <2>3 DEF TypeOK
    <2>5. OneHolder'
      BY <2>2, <2>4
    <2>6. HeldIsClaimed'
      BY <2>1, <2>4
    <2>7. QED
      BY <2>5, <2>6
  <1>6. ASSUME NEW d \in Dispatchers, MarkDispatched(d) \/ ReleaseDispatch(d)
        PROVE  OneHolder' /\ HeldIsClaimed'
    <2>1. ASSUME NEW e \in Dispatchers, NEW r \in Rows, Holds(e, r)'
          PROVE  e # d /\ Holds(e, r) /\ ~Holds(d, r)
      BY <1>6, <2>1 DEF MarkDispatched, ReleaseDispatch, TypeOK
    <2>2. \A r \in Rows : ~Holds(d, r) => status'[r] = status[r] /\ stale'[r] = stale[r]
      BY <1>6 DEF MarkDispatched, ReleaseDispatch
    <2>3. QED
      BY <2>1, <2>2
  <1>7. ASSUME NEW d \in Dispatchers,
               SendBatch(d) \/ SendBatchFails(d) \/ MarkDispatchedFails(d)
               \/ DispatcherCrash(d)
        PROVE  OneHolder' /\ HeldIsClaimed'
    <2>1. \A e \in Dispatchers, r \in Rows : Holds(e, r)' => Holds(e, r)
      BY <1>7 DEF SendBatch, SendBatchFails, MarkDispatchedFails, DispatcherCrash, TypeOK
    <2>2. UNCHANGED rowVars
      BY <1>7 DEF SendBatch, SendBatchFails, MarkDispatchedFails, DispatcherCrash
    <2>3. QED
      BY <2>1, <2>2
  <1>8. ASSUME NEW c \in Consumers, MarkProcessed(c) \/ MarkFailed(c)
        PROVE  OneHolder' /\ HeldIsClaimed'
    BY <1>8 DEF MarkProcessed, MarkFailed, FailedAttemptStatus, TypeOK
  <1>9. QED
    BY <1>1, <1>2, <1>3, <1>4, <1>5, <1>6, <1>7, <1>8
       DEF Next, DeliverStep, DispatchStep, ConsumeStep, vars, AckInvalid,
           AckUnclaimed, AssembleFacts, PersistGraph, AckProcessed, ProjectionFails,
           ConsumerCrash

(* A row settled in one step of the run stays settled.                     *)
LEMMA SettledStays ==
    ASSUME TypeOK, ProcessedStatus, DeadStatus, [Next]_vars, NEW r \in Rows, ~Settled(r)'
    PROVE  ~Settled(r)
  <1>1. KeepsProcessed /\ KeepsDead
    BY FinalStep
  <1>2. QED
    BY <1>1 DEF KeepsProcessed, KeepsDead, Settled

(* The messages of a run that has sent and not yet marked are outstanding. *)
LEMMA SentStep ==
    ASSUME TypeOK, ProcessedStatus, DeadStatus, DeliveryInv, [Next]_vars
    PROVE  SentIsDelivered'
  <1> SUFFICES ASSUME NEW d \in Dispatchers, NEW r \in Governed,
                      (dphase[d] = "sent")', (r \in dids[d])', ~Settled(r)'
               PROVE  Delivery(r)'
    BY DEF SentIsDelivered
  <1> USE RowsAssumption
  <1>1. r \in Rows /\ ~Settled(r)
    BY SettledStays
  <1>2. CASE dphase[d] = "sent"
    <2>1. r \in dids[d]
      BY <1>2 DEF Next, DeliverStep, DispatchStep, ConsumeStep, vars, dispVars,
           Commit, ClaimAges, ClaimOverdue, DeadLetter, DeadLetterUnacked, AckInvalid,
           AckUnclaimed, BeginAttempt, ClaimRows, SendBatch, SendBatchFails,
           MarkDispatched, MarkDispatchedFails, ReleaseDispatch, DispatcherCrash,
           AssembleFacts, PersistGraph, MarkProcessed, AckProcessed, ProjectionFails,
           MarkFailed, ConsumerCrash, TypeOK
    <2>2. Delivery(r)
      BY <1>1, <1>2, <2>1 DEF DeliveryInv, SentIsDelivered
    <2>3. status[r] \notin {"absent", "pending"}
      BY <1>1, <1>2, <2>1 DEF DeliveryInv, HeldIsClaimed, Holds
    <2>4. QED
      BY <1>1, <2>2, <2>3, DeliveryKept DEF DeliveryInv
  <1>3. CASE dphase[d] # "sent"
    <2>1. SendBatch(d)
      BY <1>3 DEF Next, DeliverStep, DispatchStep, ConsumeStep, vars, dispVars,
           Commit, ClaimAges, ClaimOverdue, DeadLetter, DeadLetterUnacked, AckInvalid,
           AckUnclaimed, BeginAttempt, ClaimRows, SendBatch, SendBatchFails,
           MarkDispatched, MarkDispatchedFails, ReleaseDispatch, DispatcherCrash,
           AssembleFacts, PersistGraph, MarkProcessed, AckProcessed, ProjectionFails,
           MarkFailed, ConsumerCrash, TypeOK
    <2>2. dids[d] \in SUBSET Rows /\ main' = Published(dids[d]) /\ dlq' = dlq
          /\ dids' = dids
      BY <2>1 DEF SendBatch, TypeOK
    <2>3. \A q \in dids[d] : Queued(q)'
      BY <2>2, PublishedQueues
    <2>4. QED
      BY <2>2, <2>3 DEF Delivery
  <1>4. QED
    BY <1>2, <1>3

(* A row out of the dispatchers' reach has a delivery outstanding.         *)
LEMMA WorkStep ==
    ASSUME TypeOK, ProcessedStatus, DeadStatus, DeliveryInv, [Next]_vars
    PROVE  WorkIsDelivered'
  <1> SUFFICES ASSUME NEW r \in Governed,
                      (status[r] \in {"dispatched", "processing"})', ~Settled(r)'
               PROVE  Delivery(r)'
    BY DEF WorkIsDelivered
  <1> USE RowsAssumption
  <1>1. r \in Rows /\ ~Settled(r)
    BY SettledStays
  <1>2. CASE Delivery(r) /\ status[r] \notin {"absent", "pending"}
    BY <1>1, <1>2, DeliveryKept DEF DeliveryInv
  <1>3. CASE status[r] \in {"dispatched", "processing"}
    <2>1. Delivery(r)
      BY <1>1, <1>3 DEF DeliveryInv, WorkIsDelivered
    <2>2. QED
      BY <1>2, <1>3, <2>1
  <1>4. ASSUME NEW k \in Deliveries, NEW c \in Consumers, BeginAttempt(c, r, k)
        PROVE  Delivery(r)'
    BY <1>1, <1>4 DEF BeginAttempt, Delivery, TypeOK
  <1>5. ASSUME NEW d \in Dispatchers, MarkDispatched(d), r \in dids[d], DispatchOpen(r)
        PROVE  Delivery(r)'
    <2>1. Delivery(r) /\ status[r] = "dispatching"
      BY <1>1, <1>5 DEF MarkDispatched, DeliveryInv, SentIsDelivered, DispatchOpen,
                        FromDispatching
    <2>2. QED
      BY <1>2, <2>1
  <1>6. ASSUME NEW c \in Consumers, MarkFailed(c), crow[c] = r PROVE Delivery(r)'
    <2>1. Redeliver(r, cdel[c]) /\ cdel[c] \in Deliveries
      BY <1>6 DEF MarkFailed, AfterAttemptFailed, RetryMessage, TypeOK
    <2>2. Queued(r)'
      BY <1>1, <2>1, RedeliverQueues
    <2>3. QED
      BY <2>2 DEF Delivery
  <1>7. CASE status[r] \notin {"dispatched", "processing"}
    <2>0. status'[r] \in {"dispatched", "processing"} /\ status'[r] # status[r]
      BY <1>7
    <2>1. ASSUME NEW q \in Rows, Commit(q) \/ WriteDeadLetter(q) PROVE FALSE
      BY <1>1, <2>0, <2>1 DEF Commit, WriteDeadLetter, TypeOK
    <2>2. ASSUME NEW q \in Rows, NEW k \in Deliveries, NEW c \in Consumers,
                 BeginAttempt(c, q, k)
          PROVE  Delivery(r)'
      <3>1. q = r
        BY <1>1, <2>0, <2>2 DEF BeginAttempt, TypeOK
      <3>2. QED
        BY <1>4, <2>2, <3>1
    <2>3. ASSUME NEW d \in Dispatchers, ClaimRows(d) \/ ReleaseDispatch(d) PROVE FALSE
      BY <1>1, <2>0, <2>3 DEF ClaimRows, ReleaseDispatch
    <2>4. ASSUME NEW d \in Dispatchers, MarkDispatched(d) PROVE Delivery(r)'
      <3>1. r \in dids[d] /\ DispatchOpen(r)
        BY <1>1, <2>0, <2>4 DEF MarkDispatched
      <3>2. QED
        BY <1>5, <2>4, <3>1
    <2>5. ASSUME NEW c \in Consumers, MarkProcessed(c) PROVE FALSE
      BY <1>1, <2>0, <2>5 DEF MarkProcessed, TypeOK
    <2>6. ASSUME NEW c \in Consumers, MarkFailed(c) PROVE Delivery(r)'
      <3>1. crow[c] = r
        BY <1>1, <2>0, <2>6 DEF MarkFailed, TypeOK
      <3>2. QED
        BY <1>6, <2>6, <3>1
    <2>7. QED
      BY <2>0, <2>1, <2>2, <2>3, <2>4, <2>5, <2>6
         DEF Next, DeliverStep, DispatchStep, ConsumeStep, vars, rowVars,
             ClaimAges, ClaimOverdue, DeadLetter, DeadLetterUnacked, AckInvalid,
             AckUnclaimed, SendBatch, SendBatchFails, MarkDispatchedFails,
             DispatcherCrash, AssembleFacts, PersistGraph, AckProcessed,
             ProjectionFails, ConsumerCrash
  <1>8. QED
    BY <1>3, <1>7

(* While every dispatcher run ends within its five-minute claim, no        *)
(* governed row is lost: until it is processed or dead-lettered it can     *)
(* still be claimed, or a delivery of its message is outstanding.          *)
THEOREM NoGovernedRowLost ==
    ASSUME ~SlowDispatch
    PROVE  Spec => []NoRowLost
  <1>1. Init => DeliveryInv
    BY RowsAssumption DEF Init, DeliveryInv, StatusSettles, AckingIsProcessed, OneHolder,
           HeldIsClaimed, SentIsDelivered, WorkIsDelivered, Holds
  <1>2. TypeOK /\ ProcessedStatus /\ DeadStatus /\ DeliveryInv /\ [Next]_vars
          => DeliveryInv'
    BY SettlesStep, HolderStep, SentStep, WorkStep DEF DeliveryInv
  <1>3. TypeOK /\ DeliveryInv => NoRowLost
    <2> SUFFICES ASSUME TypeOK, DeliveryInv, NEW r \in Governed,
                        status[r] # "absent", ~Settled(r),
                        status[r] \notin {"pending", "dispatching"}
                 PROVE  InFlight(r)
      BY DEF NoRowLost
    <2>1. status[r] \in {"dispatched", "processing"}
      BY RowsAssumption DEF TypeOK, Statuses, DeliveryInv, StatusSettles, Settled
    <2>2. Delivery(r)
      BY <2>1 DEF DeliveryInv, WorkIsDelivered
    <2>3. QED
      BY <2>2 DEF Delivery, Queued, InFlight
  <1>4. QED
    BY <1>1, <1>2, <1>3, FinalInvariant, PTL DEF Spec

-----------------------------------------------------------------------------
(* The outbox from outside.  A row's stage is read off its status, so the  *)
(* refinement needs that nothing writes the status of an uncommitted row   *)
(* but its commit, and that a rebuild reads committed effects only.        *)

Untouched(r) ==
    /\ \A d \in Dispatchers : r \notin dids[d]
    /\ \A k \in Deliveries : main[r][k] = 0
    /\ dlq[r] = 0
    /\ \A c \in Consumers : r \notin facts[c] /\ (crow[c] = r => cphase[c] = "idle")
UncommittedIsUntouched == \A r \in Rows : status[r] = "absent" => Untouched(r)

(* Publishing a run's own rows leaves the messages of other rows alone.    *)
LEMMA PublishedOthers ==
    ASSUME TypeOK, NEW ids, NEW r \in Rows, r \notin ids, main' \in {main, Published(ids)}
    PROVE  main'[r] = main[r]
  <1>1. QED
    BY DEF Published

(* A message taken back concerns its own row.                              *)
LEMMA RedeliverOthers ==
    ASSUME TypeOK, NEW q \in Rows, NEW k \in Deliveries, Redeliver(q, k),
           NEW r \in Rows, r # q
    PROVE  main'[r] = main[r] /\ dlq'[r] = dlq[r]
  <1>1. CASE k < MaxDeliveries
    BY <1>1 DEF Redeliver, TypeOK
  <1>2. CASE ~(k < MaxDeliveries)
    BY <1>2 DEF Redeliver, TypeOK
  <1>3. QED
    BY <1>1, <1>2

(* A row that is not committed yet is neither claimed nor sent nor worked  *)
(* on, nor read by a rebuild.                                              *)
LEMMA UntouchedStep ==
    ASSUME TypeOK, UncommittedIsUntouched, [Next]_vars
    PROVE  UncommittedIsUntouched'
  <1> SUFFICES ASSUME NEW r \in Rows, status'[r] = "absent" PROVE Untouched(r)'
    BY DEF UncommittedIsUntouched
  <1> USE DEF rowVars, dispVars, consVars
  <1>1. status[r] = "absent"
    BY CommittedStays
  <1>2. Untouched(r)
    BY <1>1 DEF UncommittedIsUntouched
  <1>3. CASE UNCHANGED <<dispVars, main, dlq, consVars>>
    BY <1>2, <1>3 DEF Untouched
  <1>4. ASSUME NEW q \in Rows, DeadLetter(q) PROVE Untouched(r)'
    <2>1. q # r
      BY <1>2, <1>4 DEF DeadLetter, Untouched
    <2>2. QED
      BY <1>2, <1>4, <2>1 DEF DeadLetter, Untouched, TypeOK
  <1>5. ASSUME NEW q \in Rows, NEW k \in Deliveries,
               AckInvalid(q, k) \/ AckUnclaimed(q, k)
        PROVE  Untouched(r)'
    <2>1. q # r
      BY <1>2, <1>5 DEF AckInvalid, AckUnclaimed, Untouched
    <2>2. main'[r] = main[r]
      BY <1>5, <2>1 DEF AckInvalid, AckUnclaimed, Take, TypeOK
    <2>3. QED
      BY <1>2, <1>5, <2>2 DEF AckInvalid, AckUnclaimed, Untouched
  <1>6. ASSUME NEW q \in Rows, NEW k \in Deliveries, NEW c \in Consumers,
               BeginAttempt(c, q, k)
        PROVE  Untouched(r)'
    <2>1. q # r
      BY <1>2, <1>6 DEF BeginAttempt, Untouched
    <2>2. main'[r] = main[r]
      BY <1>6, <2>1 DEF BeginAttempt, Take, TypeOK
    <2>3. QED
      BY <1>2, <1>6, <2>1, <2>2 DEF BeginAttempt, Untouched, TypeOK
  <1>7. ASSUME NEW d \in Dispatchers, ClaimRows(d) PROVE Untouched(r)'
    <2>1. PICK ids \in SUBSET {q \in Rows : Claimable(q)} : dids' = [dids EXCEPT ![d] = ids]
      BY <1>7 DEF ClaimRows
    <2>2. r \notin ids
      BY <1>1 DEF Claimable
    <2>3. QED
      BY <1>2, <1>7, <2>1, <2>2 DEF ClaimRows, Untouched, TypeOK
  <1>8. ASSUME NEW d \in Dispatchers, SendBatch(d) \/ SendBatchFails(d) PROVE Untouched(r)'
    <2>1. main' \in {main, Published(dids[d])} /\ r \notin dids[d]
      BY <1>2, <1>8 DEF SendBatch, SendBatchFails, Untouched
    <2>2. main'[r] = main[r]
      BY <2>1, PublishedOthers
    <2>3. QED
      BY <1>2, <1>8, <2>2 DEF SendBatch, SendBatchFails, Untouched
  <1>9. ASSUME NEW c \in Consumers, AssembleFacts(c) PROVE Untouched(r)'
    <2>1. r \notin Committed
      BY <1>1 DEF Committed
    <2>2. QED
      BY <1>2, <1>9, <2>1 DEF AssembleFacts, Untouched, TypeOK
  <1>10. ASSUME NEW c \in Consumers,
                PersistGraph(c) \/ MarkProcessed(c) \/ AckProcessed(c) \/ ProjectionFails(c)
         PROVE  Untouched(r)'
    <2>1. cphase[c] # "idle"
      BY <1>10 DEF PersistGraph, MarkProcessed, MayMarkProcessed, AfterGraph, AckProcessed,
                   ProjectionFails
    <2>2. QED
      BY <1>2, <1>10, <2>1 DEF PersistGraph, MarkProcessed, AckProcessed, ProjectionFails,
                               Untouched, TypeOK
  <1>11. ASSUME NEW c \in Consumers, MarkFailed(c) \/ ConsumerCrash(c)
         PROVE  Untouched(r)'
    <2>1. cphase[c] # "idle" /\ Redeliver(crow[c], cdel[c])
      BY <1>11 DEF MarkFailed, ConsumerCrash, AfterAttemptFailed, RetryMessage
    <2>2. crow[c] # r /\ crow[c] \in Rows /\ cdel[c] \in Deliveries
      BY <1>2, <2>1 DEF Untouched, TypeOK
    <2>3. main'[r] = main[r] /\ dlq'[r] = dlq[r]
      BY <2>1, <2>2, RedeliverOthers
    <2>4. QED
      BY <1>2, <1>11, <2>2, <2>3 DEF MarkFailed, ConsumerCrash, Untouched, TypeOK
  <1>12. ASSUME NEW q \in Rows,
                Commit(q) \/ ClaimAges(q) \/ ClaimOverdue(q) \/ DeadLetterUnacked(q)
         PROVE  Untouched(r)'
    BY <1>3, <1>12 DEF Commit, ClaimAges, ClaimOverdue, DeadLetterUnacked
  <1>13. ASSUME NEW d \in Dispatchers,
                MarkDispatched(d) \/ MarkDispatchedFails(d) \/ ReleaseDispatch(d)
                \/ DispatcherCrash(d)
         PROVE  Untouched(r)'
    BY <1>2, <1>13 DEF MarkDispatched, MarkDispatchedFails, ReleaseDispatch,
                       DispatcherCrash, Untouched
  <1>14. QED
    BY <1>3, <1>4, <1>5, <1>6, <1>7, <1>8, <1>9, <1>10, <1>11, <1>12, <1>13
       DEF Next, DeliverStep, DispatchStep, ConsumeStep, vars

StageOf == [r \in Rows |-> Stage(status[r])]

RefineInv ==
    /\ TypeOK /\ ProcessedStatus /\ DeadStatus
    /\ StatusSettles /\ AckingIsProcessed
    /\ ProjectionInv
    /\ UncommittedIsUntouched

(* The strengthening the refinement rests on holds throughout, with        *)
(* overdue runs as well.                                                   *)
LEMMA RefineInvariant == Spec => []RefineInv
  <1>1. Init => ProcessedStatus /\ DeadStatus /\ StatusSettles /\ AckingIsProcessed
    BY DEF Init, ProcessedStatus, DeadStatus, StatusSettles, AckingIsProcessed
  <1>2. Init => ProjectionInv
    BY DEF Init, ProjectionInv, AttemptCommitted, FactsHaveRow, GraphHasRow,
           ProcessedWasProjected
  <1>3. Init => UncommittedIsUntouched
    BY DEF Init, UncommittedIsUntouched, Untouched
  <1>4. Init => RefineInv
    BY <1>1, <1>2, <1>3, TypeInit DEF RefineInv
  <1>5. RefineInv /\ [Next]_vars => RefineInv'
    BY TypeStep, FinalInvStep, SettlesStep, ProjectionStep, UntouchedStep DEF RefineInv
  <1>6. QED
    BY <1>4, <1>5, PTL DEF Spec

(* A step that changes no stage and no graph is a stutter.                 *)
LEMMA StagesKept ==
    ASSUME \A r \in Rows : Stage(status'[r]) = Stage(status[r]), projected' = projected
    PROVE  UNCHANGED Abstract!vars
  <1>1. [r \in Rows |-> Stage(status[r])]' = [r \in Rows |-> Stage(status[r])]
    OBVIOUS
  <1>2. QED
    BY <1>1 DEF Abstract!vars

(* Writing the status of one row moves the stage of that row.              *)
LEMMA StageMoves ==
    ASSUME TypeOK, NEW q \in Rows, NEW s, status' = [status EXCEPT ![q] = s]
    PROVE  StageOf' = [StageOf EXCEPT ![q] = Stage(s)]
  <1>1. \A r \in Rows : status'[r] = IF r = q THEN s ELSE status[r]
    BY DEF TypeOK
  <1>2. \A r \in Rows : Stage(status'[r]) = IF r = q THEN Stage(s) ELSE Stage(status[r])
    BY <1>1 DEF Stage
  <1>3. QED
    BY <1>2 DEF StageOf

(* Every step of the outbox is a commit, an installed graph, a delivery, a *)
(* giving up, or invisible.                                                *)
LEMMA OutboxStep ==
    RefineInv /\ [Next]_vars => [Abstract!Next]_(Abstract!vars)
  <1> SUFFICES ASSUME RefineInv, [Next]_vars PROVE [Abstract!Next]_(Abstract!vars)
    OBVIOUS
  <1> USE DEF rowVars
  <1>0. TypeOK
    BY DEF RefineInv
  <1>1. CASE UNCHANGED <<status, projected>>
    BY <1>1, StagesKept
  <1>2. ASSUME NEW q \in Rows, Commit(q) PROVE Abstract!Commit(q)
    <2>1. status[q] = "absent" /\ status' = [status EXCEPT ![q] = "pending"]
          /\ projected' = projected
      BY <1>2 DEF Commit
    <2>2. StageOf' = [StageOf EXCEPT ![q] = Stage("pending")]
      BY <1>0, <2>1, StageMoves
    <2>3. QED
      BY <2>1, <2>2 DEF Abstract!Commit, StageOf, Stage
  <1>3. ASSUME NEW q \in Rows, DeadLetter(q) \/ DeadLetterUnacked(q)
        PROVE  Abstract!GiveUp(q) \/ UNCHANGED Abstract!vars
    <2>1. WriteDeadLetter(q) /\ dlq[q] > 0 /\ projected' = projected
      BY <1>3 DEF DeadLetter, DeadLetterUnacked
    <2>2. status[q] # "absent"
      BY <2>1 DEF RefineInv, UncommittedIsUntouched, Untouched, TypeOK
    <2>3. CASE processed[q]
      <3>1. status' = status
        BY <1>0, <2>1, <2>3 DEF WriteDeadLetter, DeadLetterOpen, TypeOK
      <3>2. QED
        BY <2>1, <3>1, StagesKept
    <2>4. CASE ~processed[q]
      <3>1. status' = [status EXCEPT ![q] = "dead_letter"]
        BY <2>1, <2>4 DEF WriteDeadLetter, DeadLetterOpen
      <3>2. StageOf' = [StageOf EXCEPT ![q] = Stage("dead_letter")]
        BY <1>0, <3>1, StageMoves
      <3>3. status[q] # "processed"
        BY <2>4 DEF RefineInv, StatusSettles
      <3>4. CASE status[q] = "dead_letter"
        <4>1. \A r \in Rows : status'[r] = status[r]
          BY <1>0, <3>1, <3>4 DEF TypeOK
        <4>2. QED
          BY <2>1, <4>1, StagesKept
      <3>5. CASE status[q] # "dead_letter"
        <4>1. StageOf[q] = "owed"
          BY <2>2, <3>3, <3>5 DEF StageOf, Stage
        <4>2. QED
          BY <2>1, <3>2, <4>1 DEF Abstract!GiveUp, StageOf, Stage
      <3>6. QED
        BY <3>4, <3>5
    <2>5. QED
      BY <2>3, <2>4
  <1>4. ASSUME NEW q \in Rows, NEW k \in Deliveries, NEW c \in Consumers,
               BeginAttempt(c, q, k)
        PROVE  UNCHANGED Abstract!vars
    <2>1. \A r \in Rows : Stage(status'[r]) = Stage(status[r])
      BY <1>0, <1>4 DEF BeginAttempt, Startable, Stage, TypeOK
    <2>2. QED
      BY <1>4, <2>1, StagesKept DEF BeginAttempt
  <1>5. ASSUME NEW d \in Dispatchers, ClaimRows(d) PROVE UNCHANGED Abstract!vars
    <2>1. PICK ids \in SUBSET {r \in Rows : Claimable(r)} :
            status' = [r \in Rows |-> IF r \in ids THEN "dispatching" ELSE status[r]]
      BY <1>5 DEF ClaimRows
    <2>2. \A r \in ids : status[r] \in {"pending", "dispatching"}
      BY DEF Claimable
    <2>3. \A r \in Rows : Stage(status'[r]) = Stage(status[r])
      BY <2>1, <2>2 DEF Stage
    <2>4. QED
      BY <1>5, <2>3, StagesKept DEF ClaimRows
  <1>6. ASSUME NEW d \in Dispatchers, MarkDispatched(d) \/ ReleaseDispatch(d)
        PROVE  UNCHANGED Abstract!vars
    <2>1. \A r \in Rows : Stage(status'[r]) = Stage(status[r])
      BY <1>6 DEF MarkDispatched, ReleaseDispatch, DispatchOpen, FromDispatching, Stage
    <2>2. QED
      BY <1>6, <2>1, StagesKept DEF MarkDispatched, ReleaseDispatch
  <1>7. ASSUME NEW c \in Consumers, PersistGraph(c) PROVE Abstract!Install
    <2>1. facts[c] \subseteq {r \in Rows : StageOf[r] # "uncommitted"}
      <3>1. ASSUME NEW r \in facts[c] PROVE r \in Rows /\ status[r] # "absent"
        BY DEF RefineInv, UncommittedIsUntouched, Untouched, TypeOK
      <3>2. QED
        BY <3>1 DEF StageOf, Stage
    <2>2. projected' = projected \union facts[c] /\ status' = status
      BY <1>7 DEF PersistGraph
    <2>3. QED
      BY <2>1, <2>2 DEF Abstract!Install, Abstract!Committed, StageOf
  <1>8. ASSUME NEW c \in Consumers, MarkProcessed(c)
        PROVE  Abstract!Deliver(crow[c]) \/ UNCHANGED Abstract!vars
    <2>1. PICK q \in Rows : q = crow[c]
      BY DEF RefineInv, TypeOK
    <2>2. status' = [status EXCEPT ![q] = "processed"] /\ projected' = projected
          /\ cphase[c] = "projected"
      BY <1>8, <2>1 DEF MarkProcessed, MayMarkProcessed, AfterGraph
    <2>3. StageOf' = [StageOf EXCEPT ![q] = Stage("processed")]
      BY <1>0, <2>2, StageMoves
    <2>4. q \in projected /\ status[q] # "absent"
      BY <2>1, <2>2 DEF RefineInv, ProjectionInv, GraphHasRow, UncommittedIsUntouched,
                        Untouched
    <2>5. CASE status[q] = "processed"
      <3>1. \A r \in Rows : status'[r] = status[r]
        BY <1>0, <2>2, <2>5 DEF TypeOK
      <3>2. QED
        BY <2>2, <3>1, StagesKept
    <2>6. CASE status[q] # "processed"
      <3>1. StageOf[q] \in {"owed", "given_up"}
        BY <2>4, <2>6 DEF StageOf, Stage
      <3>2. Abstract!Deliver(q)
        BY <2>2, <2>3, <2>4, <3>1 DEF Abstract!Deliver, StageOf, Stage
      <3>3. QED
        BY <2>1, <3>2
    <2>7. QED
      BY <2>5, <2>6
  <1>9. ASSUME NEW c \in Consumers, MarkFailed(c) PROVE UNCHANGED Abstract!vars
    <2>1. PICK q \in Rows : q = crow[c]
      BY DEF RefineInv, TypeOK
    <2>2. status' = [status EXCEPT ![q] = IF FailureOpen(q) THEN "dispatched" ELSE @]
          /\ projected' = projected /\ cphase[c] = "failing"
      BY <1>9, <2>1 DEF MarkFailed, FailedAttemptStatus
    <2>3. status[q] # "absent"
      BY <2>1, <2>2 DEF RefineInv, UncommittedIsUntouched, Untouched
    <2>4. FailureOpen(q) => status[q] \notin {"processed", "dead_letter"}
      BY DEF FailureOpen, RefineInv, StatusSettles
    <2>5. \A r \in Rows : Stage(status'[r]) = Stage(status[r])
      BY <1>0, <2>2, <2>3, <2>4 DEF Stage, TypeOK
    <2>6. QED
      BY <2>2, <2>5, StagesKept
  <1>10. ASSUME NEW c \in Consumers, ConsumeStep(c) \/ ProjectionFails(c) \/ ConsumerCrash(c)
         PROVE  [Abstract!Next]_(Abstract!vars)
    <2>1. CASE AssembleFacts(c) \/ AckProcessed(c) \/ ProjectionFails(c) \/ ConsumerCrash(c)
      BY <1>1, <2>1 DEF AssembleFacts, AckProcessed, ProjectionFails, ConsumerCrash
    <2>2. crow[c] \in Rows
      BY <1>0 DEF TypeOK
    <2>3. QED
      BY <1>7, <1>8, <1>9, <1>10, <2>1, <2>2 DEF ConsumeStep, Abstract!Next
  <1>11. ASSUME NEW d \in Dispatchers,
                DispatchStep(d) \/ SendBatchFails(d) \/ MarkDispatchedFails(d)
                \/ DispatcherCrash(d)
         PROVE  [Abstract!Next]_(Abstract!vars)
    <2>1. CASE SendBatch(d) \/ SendBatchFails(d) \/ MarkDispatchedFails(d)
               \/ DispatcherCrash(d)
      BY <1>1, <2>1 DEF SendBatch, SendBatchFails, MarkDispatchedFails, DispatcherCrash
    <2>2. QED
      BY <1>5, <1>6, <1>11, <2>1 DEF DispatchStep
  <1>12. ASSUME NEW q \in Rows, NEW k \in Deliveries, DeliverStep(q, k)
         PROVE  [Abstract!Next]_(Abstract!vars)
    <2>1. CASE AckInvalid(q, k) \/ AckUnclaimed(q, k)
      BY <1>1, <2>1 DEF AckInvalid, AckUnclaimed
    <2>2. QED
      BY <1>4, <1>12, <2>1 DEF DeliverStep
  <1>13. ASSUME NEW q \in Rows, ClaimAges(q) \/ ClaimOverdue(q)
         PROVE  [Abstract!Next]_(Abstract!vars)
    BY <1>1, <1>13 DEF ClaimAges, ClaimOverdue
  <1>14. CASE UNCHANGED vars
    BY <1>1, <1>14 DEF vars
  <1>15. CASE Next
    BY <1>2, <1>3, <1>10, <1>11, <1>12, <1>13, <1>15 DEF Next, Abstract!Next
  <1>16. QED
    BY <1>14, <1>15

(* Seen through the status column and the installed graphs, the outbox     *)
(* with its dispatchers, consumers, duplicate and late messages, overdue   *)
(* claims and crashes is the abstract one: effects are owed on commit,     *)
(* delivered only after a graph that shows them, for good, and given up at *)
(* most once.                                                              *)
THEOREM OutboxIsImplemented == Spec => ImplementsOutbox
  <1>1. Init => Abstract!Init
    BY DEF Init, Abstract!Init, Stage
  <1>2. QED
    BY <1>1, RefineInvariant, OutboxStep, PTL DEF Spec, ImplementsOutbox, Abstract!Spec

-----------------------------------------------------------------------------
(* The graph the consumers rebuild.  GraphPersist models persistDataGraph, *)
(* which PersistGraph above takes for one step; the two specifications     *)
(* share no variable and no constant.                                      *)

(* Building a graph from well-typed facts gives a well-typed graph.        *)
LEMMA BuiltTyped ==
    ASSUME GraphTypeOK, NEW w \in Rebuilders
    PROVE  \E g \in Graphs : Built(read[w]) = Built(g)
  <1>1. read[w] \in Graphs
    BY DEF GraphTypeOK
  <1>2. QED
    BY <1>1

(* Every step of a rebuild or of a writer keeps the types; the facts read  *)
(* stays within the tables.                                                *)
LEMMA GraphTypeStep == GraphTypeOK /\ [GraphNext]_graphVars => GraphTypeOK'
  <1> SUFFICES ASSUME GraphTypeOK, [GraphNext]_graphVars PROVE GraphTypeOK'
    OBVIOUS
  <1>1. CASE UNCHANGED graphVars
    BY <1>1 DEF GraphTypeOK, graphVars, run
  <1>2. CASE Change
    BY <1>2 DEF GraphTypeOK, Change, run
  <1>3. ASSUME NEW w \in Rebuilders, Start(w) PROVE GraphTypeOK'
    <2>1. 1 \in TableIds
      BY GraphBounds DEF TableIds
    <2>2. Active \in SUBSET Rebuilders
      BY DEF Active
    <2>3. QED
      BY <1>3, <2>1, <2>2 DEF GraphTypeOK, Start, FirstTable, Phases
  <1>4. ASSUME NEW w \in Rebuilders, ReadTable(w) PROVE GraphTypeOK'
    <2>1. next[w] \in TableIds /\ read[w] \in Graphs /\ tables \in Graphs
      BY DEF GraphTypeOK
    <2>2. [read[w] EXCEPT ![next[w]] = tables[next[w]]] \in Graphs
      BY <2>1 DEF Graphs
    <2>3. read' \in [Rebuilders -> Graphs]
      BY <1>4, <2>2 DEF ReadTable, GraphTypeOK
    <2>4. next' \in [Rebuilders -> TableIds] /\ phase' \in [Rebuilders -> Phases]
      <3>1. CASE MoreToRead(w)
        <4>1. next[w] + 1 \in TableIds
          BY <2>1, <3>1, GraphBounds DEF MoreToRead, TableIds
        <4>2. QED
          BY <1>4, <3>1, <4>1 DEF ReadTable, GraphTypeOK
      <3>2. CASE ~MoreToRead(w)
        BY <1>4, <3>2 DEF ReadTable, GraphTypeOK, Phases
      <3>3. QED
        BY <3>1, <3>2
    <2>5. QED
      BY <1>4, <2>3, <2>4 DEF ReadTable, GraphTypeOK
  <1>5. ASSUME NEW w \in Rebuilders, Finish(w)
        PROVE  /\ phase' \in [Rebuilders -> Phases]
               /\ before' \in [Rebuilders -> SUBSET Rebuilders]
    BY <1>5 DEF Finish, GraphTypeOK, Phases
  <1>6. ASSUME NEW w \in Rebuilders, Compare(w) PROVE GraphTypeOK'
    <2>1. /\ phase' \in [Rebuilders -> Phases]
          /\ before' \in [Rebuilders -> SUBSET Rebuilders]
      <3>1. CASE Finish(w)
        BY <1>5, <3>1
      <3>2. CASE phase' = [phase EXCEPT ![w] = "replacing"] /\ UNCHANGED before
        BY <3>2 DEF GraphTypeOK, Phases
      <3>3. QED
        BY <1>6, <3>1, <3>2 DEF Compare
    <2>2. QED
      BY <1>6, <2>1 DEF Compare, GraphTypeOK
  <1>7. ASSUME NEW w \in Rebuilders, ReplaceWorkspaceGraph(w) PROVE GraphTypeOK'
    <2>1. /\ phase' \in [Rebuilders -> Phases]
          /\ before' \in [Rebuilders -> SUBSET Rebuilders]
      BY <1>5, <1>7 DEF ReplaceWorkspaceGraph
    <2>2. \E g \in Graphs : graph' = Built(g)
      BY <1>7, BuiltTyped DEF ReplaceWorkspaceGraph
    <2>3. anchor' = None \/ \E g \in Graphs : anchor' = Built(g)
      <3>1. CASE outdated[w]
        BY <1>7, <3>1 DEF ReplaceWorkspaceGraph, InsertSnapshot,
                          AppendSnapshot, GraphTypeOK
      <3>2. CASE ~outdated[w]
        BY <1>7, <3>2, BuiltTyped DEF ReplaceWorkspaceGraph, InsertSnapshot,
                                      AppendSnapshot
      <3>3. QED
        BY <3>1, <3>2
    <2>4. outdated' \in [Rebuilders -> BOOLEAN]
      BY <1>7 DEF ReplaceWorkspaceGraph, GraphTypeOK
    <2>5. QED
      BY <1>7, <2>1, <2>2, <2>3, <2>4 DEF ReplaceWorkspaceGraph, GraphTypeOK
  <1>8. ASSUME NEW w \in Rebuilders, RebuildFails(w) PROVE GraphTypeOK'
    <2>1. /\ phase' \in [Rebuilders -> Phases]
          /\ before' \in [Rebuilders -> SUBSET Rebuilders]
      BY <1>5, <1>8 DEF RebuildFails
    <2>2. QED
      BY <1>8, <2>1 DEF RebuildFails, GraphTypeOK
  <1>9. QED
    BY <1>1, <1>2, <1>3, <1>4, <1>6, <1>7, <1>8 DEF GraphNext, RebuildStep

(* However rebuilds overlap and fail, the facts a rebuild has read, the    *)
(* stored graph and the anchor are each one content per table, and the     *)
(* read never runs past the last table.                                    *)
THEOREM GraphTypeCorrect == GraphSpec => []GraphTypeOK
  <1>1. GraphInit => GraphTypeOK
    <2>1. 1 \in TableIds
      BY GraphBounds DEF TableIds
    <2>2. QED
      BY <2>1 DEF GraphInit, GraphTypeOK, Phases
  <1>2. QED
    BY <1>1, GraphTypeStep, PTL DEF GraphSpec

(* A rebuild runs to its end without a statement rejecting.                *)
Ends(w) == phase[w] # "idle" /\ phase'[w] = "idle" /\ stops' = stops

(* A rebuild leaves what the others have read alone.                       *)
LEMMA OtherRebuild ==
    ASSUME GraphTypeOK, NEW v \in Rebuilders, NEW w \in Rebuilders, v # w,
           RebuildStep(v) \/ RebuildFails(v)
    PROVE  phase'[w] = phase[w] /\ next'[w] = next[w] /\ read'[w] = read[w]
  <1> USE DEF GraphTypeOK
  <1>1. CASE Start(v)
    BY <1>1 DEF Start
  <1>2. CASE ReadTable(v)
    BY <1>2 DEF ReadTable
  <1>3. CASE Compare(v)
    BY <1>3 DEF Compare, Finish
  <1>4. CASE ReplaceWorkspaceGraph(v)
    BY <1>4 DEF ReplaceWorkspaceGraph, Finish
  <1>5. CASE RebuildFails(v)
    BY <1>5 DEF RebuildFails, Finish
  <1>6. QED
    BY <1>1, <1>2, <1>3, <1>4, <1>5 DEF RebuildStep

(* The last statement of an undisturbed read completes a copy of the       *)
(* tables.                                                                 *)
LEMMA LastRead ==
    ASSUME GraphTypeOK, NEW w \in Rebuilders, ReadsAgree(w),
           ReadTable(w), tables' = tables
    PROVE  ReadsAgree(w)'
  <1>1. /\ next[w] \in TableIds /\ read[w] \in [TableIds -> Contents]
        /\ tables \in [TableIds -> Contents] /\ TableIds = 1 .. Tables
    BY GraphBounds DEF GraphTypeOK, Graphs, TableIds
  <1>2. \A i \in TableIds : i < next[w] => read[w][i] = tables[i]
    BY DEF ReadTable, ReadsAgree
  <1>3. read'[w] = [read[w] EXCEPT ![next[w]] = tables[next[w]]]
    BY DEF ReadTable, GraphTypeOK
  <1>4. /\ read'[w] \in [TableIds -> Contents]
        /\ \A i \in TableIds : i <= next[w] => read'[w][i] = tables[i]
    BY <1>1, <1>2, <1>3, GraphBounds
  <1>5. CASE MoreToRead(w)
    <2>1. phase'[w] = "assembling" /\ next'[w] = next[w] + 1
      BY <1>5 DEF ReadTable, GraphTypeOK
    <2>2. \A i \in TableIds : i < next[w] + 1 => i <= next[w]
      BY <1>1
    <2>3. \A i \in TableIds : i < next'[w] => read'[w][i] = tables'[i]
      BY <1>4, <2>1, <2>2
    <2>4. TableIds' = TableIds
      BY DEF TableIds
    <2>5. QED
      BY <2>1, <2>3, <2>4 DEF ReadsAgree
  <1>6. CASE ~MoreToRead(w)
    <2>1. phase'[w] = "comparing"
      BY <1>6 DEF ReadTable, GraphTypeOK
    <2>2. \A i \in TableIds : i <= next[w]
      BY <1>1, <1>6, GraphBounds DEF MoreToRead
    <2>3. read'[w] = tables
      BY <1>1, <1>4, <2>2, GraphBounds
    <2>4. QED
      BY <2>1, <2>3 DEF ReadsAgree
  <1>7. QED
    BY <1>5, <1>6

(* As long as no writer commits, what was read stays true.                 *)
LEMMA ReadsKept ==
    ASSUME GraphTypeOK, GraphNext, tables' = tables,
           NEW w \in Rebuilders, ReadsAgree(w)
    PROVE  ReadsAgree(w)'
  <1>1. CASE Change
    BY <1>1 DEF Change
  <1>2. ASSUME NEW v \in Rebuilders, RebuildStep(v) \/ RebuildFails(v), v # w
        PROVE  ReadsAgree(w)'
    BY <1>2, OtherRebuild DEF ReadsAgree, TableIds
  <1>3. CASE Start(w)
    <2>1. phase'[w] = "assembling" /\ next'[w] = 1
      BY <1>3 DEF Start, FirstTable, GraphTypeOK
    <2>2. QED
      BY <2>1 DEF ReadsAgree, TableIds
  <1>4. CASE ReadTable(w)
    BY <1>4, LastRead
  <1>5. CASE Compare(w)
    <2>1. read' = read /\ read[w] = tables /\ phase'[w] \in {"idle", "replacing"}
      BY <1>5 DEF Compare, Finish, ReadsAgree, GraphTypeOK
    <2>2. QED
      BY <2>1 DEF ReadsAgree
  <1>6. CASE ReplaceWorkspaceGraph(w) \/ RebuildFails(w)
    <2>1. phase'[w] = "idle"
      BY <1>6 DEF ReplaceWorkspaceGraph, RebuildFails, Finish, GraphTypeOK
    <2>2. QED
      BY <2>1 DEF ReadsAgree
  <1>7. QED
    BY <1>1, <1>2, <1>3, <1>4, <1>5, <1>6 DEF GraphNext, RebuildStep

(* The "and stays" of GraphConverges, for any number of overlapping and    *)
(* failing rebuilds: once the graph and the anchor are the projection of   *)
(* the tables and every running rebuild has read them as they are, only a  *)
(* writer's commit can change that.                                        *)
THEOREM ConvergedGraphsStay == GraphSpec => ConvergenceStays
  <1>1. ASSUME GraphTypeOK, GraphNext, Converged, tables' = tables PROVE Converged'
    <2>1. \A w \in Rebuilders : ReadsAgree(w)'
      BY <1>1, ReadsKept DEF Converged
    <2>2. ASSUME NEW w \in Rebuilders, ReplaceWorkspaceGraph(w)
          PROVE  graph' = graph /\ anchor' = anchor
      <3>1. read[w] = tables
        BY <1>1, <2>2 DEF ReplaceWorkspaceGraph, Converged, ReadsAgree
      <3>2. QED
        BY <1>1, <2>2, <3>1 DEF ReplaceWorkspaceGraph, InsertSnapshot,
           AppendSnapshot, Converged
    <2>3. UNCHANGED <<graph, anchor>>
      BY <1>1, <2>2 DEF GraphNext, Change, RebuildStep, Start, ReadTable,
         Compare, RebuildFails
    <2>4. QED
      BY <1>1, <2>1, <2>3 DEF Converged, Built
  <1>2. GraphTypeOK /\ [GraphNext]_graphVars
          => [Converged /\ tables' = tables => Converged']_graphVars
    BY <1>1
  <1>3. QED
    BY <1>2, GraphTypeCorrect, PTL DEF GraphSpec, ConvergenceStays

(* While rebuilds install in the order they started, the anchor is the     *)
(* stored graph: both come from the same rebuild.                          *)
LEMMA AnchorStep ==
    anchor = graph /\ InOrder /\ [GraphNext]_graphVars => (anchor = graph)'
  <1> SUFFICES ASSUME anchor = graph, InOrder, [GraphNext]_graphVars PROVE anchor' = graph'
    OBVIOUS
  <1>1. ASSUME NEW w \in Rebuilders, ReplaceWorkspaceGraph(w) PROVE anchor' = graph'
    BY <1>1 DEF ReplaceWorkspaceGraph, InsertSnapshot, AppendSnapshot, InOrder
  <1>2. QED
    BY <1>1 DEF GraphNext, Change, RebuildStep, Start, ReadTable, Compare, RebuildFails, graphVars

(* A rebuild no writer disturbs goes on undisturbed, and when it ends,     *)
(* whether it writes or skips the write, graph and anchor are the          *)
(* projection of the tables.                                               *)
UndisturbedConverges ==
    [][\A w \in Rebuilders : ReadsAgree(w) /\ tables' = tables
         => ReadsAgree(w)' /\ (Ends(w) => graph' = Built(tables) /\ anchor' = graph')]_graphVars

(* The "becomes" of GraphConverges, as far as safety goes, for any number  *)
(* of overlapping callers whose rebuilds install in the order they         *)
(* started: a rebuild that no commit disturbs and no failure ends leaves   *)
(* the projection of the tables behind.  The skip of an unchanged graph is *)
(* sound because the anchor is then the stored graph.                      *)
THEOREM UndisturbedRebuildsConverge ==
    GraphSpec /\ []InOrder => UndisturbedConverges
  <1>1. ASSUME GraphTypeOK, anchor = graph, InOrder, GraphNext, tables' = tables,
               NEW w \in Rebuilders, ReadsAgree(w)
        PROVE  /\ ReadsAgree(w)'
               /\ Ends(w) => graph' = Built(tables) /\ anchor' = graph'
    <2>1. ReadsAgree(w)'
      BY <1>1, ReadsKept
    <2>2. SUFFICES ASSUME Ends(w) PROVE graph' = Built(tables) /\ anchor' = graph'
      BY <2>1
    <2>3. anchor' = graph'
      BY <1>1, AnchorStep
    <2>4. Compare(w) \/ ReplaceWorkspaceGraph(w)
      <3>1. PICK v \in Rebuilders : RebuildStep(v) \/ RebuildFails(v)
        BY <1>1, <2>2 DEF GraphNext, Change, run, Ends
      <3>2. v = w
        BY <1>1, <2>2, <3>1, OtherRebuild DEF Ends
      <3>3. ~Start(w) /\ ~ReadTable(w)
        BY <1>1, <2>2 DEF Start, ReadTable, Ends, GraphTypeOK
      <3>4. ~RebuildFails(w)
        BY <1>1, <2>2 DEF RebuildFails, Ends, GraphTypeOK
      <3>5. QED
        BY <3>1, <3>2, <3>3, <3>4 DEF RebuildStep
    <2>5. CASE Compare(w)
      <3>1. driftOf(w) = "fresh" /\ read[w] = tables /\ graph' = graph
        BY <1>1, <2>2, <2>5 DEF Compare, Ends, ReadsAgree, GraphTypeOK
      <3>2. anchor # None /\ anchor.from = tables
        BY <3>1 DEF driftOf, Drift
      <3>3. PICK g \in Graphs : anchor = Built(g)
        BY <1>1, <3>2 DEF GraphTypeOK
      <3>4. g = tables
        BY <3>2, <3>3 DEF Built
      <3>5. QED
        BY <1>1, <2>3, <3>1, <3>3, <3>4
    <2>6. CASE ReplaceWorkspaceGraph(w)
      BY <1>1, <2>3, <2>6 DEF ReplaceWorkspaceGraph, ReadsAgree
    <2>7. QED
      BY <2>4, <2>5, <2>6
  <1>2. GraphTypeOK /\ anchor = graph /\ InOrder /\ [GraphNext]_graphVars
          => [\A w \in Rebuilders : ReadsAgree(w) /\ tables' = tables
                => ReadsAgree(w)'
                   /\ (Ends(w) => graph' = Built(tables) /\ anchor' = graph')]_graphVars
    BY <1>1
  <1>3. GraphInit => anchor = graph
    BY DEF GraphInit
  <1>4. QED
    BY <1>2, <1>3, AnchorStep, GraphTypeCorrect, PTL DEF GraphSpec, UndisturbedConverges
=============================================================================
