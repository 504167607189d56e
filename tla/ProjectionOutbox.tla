-------------------------- MODULE ProjectionOutbox --------------------------
(***************************************************************************)
(* The transactional outbox that carries committed governed effects to a   *)
(* tenant's derived graph:                                                 *)
(*                                                                         *)
(*   dal/projection-outbox-store.ts       the row lifecycle, one guarded   *)
(*                                        UPDATE per operation             *)
(*   services/tenant-projection-queue.ts  the dispatcher and the consumer  *)
(*   crons/tenant-projection-dispatch.ts  the five-minute dispatcher run   *)
(*                                                                         *)
(* A dispatcher claims rows, publishes one message per row and marks them  *)
(* dispatched.  A consumer takes a message, opens an attempt on its row,   *)
(* rebuilds the workspace graph and marks the row processed.  Dispatchers, *)
(* consumers and the queue interleave at every await of the code, and      *)
(* every call may fail or be the last one before a crash.                  *)
(*                                                                         *)
(* The queue (Cloudflare Queues, external) delivers at least once: a       *)
(* message that is not acknowledged is delivered again, MaxDeliveries      *)
(* times in all, and then moved to the dead-letter queue.                  *)
(***************************************************************************)
EXTENDS Naturals, FiniteSets

CONSTANTS
    Rows,           \* ids of projection_outbox rows
    Governed,       \* the rows whose event_type is 'governed_intake.executed'
    Dispatchers,    \* concurrent runs of the dispatch cron
    Consumers,      \* concurrent invocations of the queue consumer
    BatchLimit,     \* LIMIT of a claim
    MaxDeliveries,  \* max_retries of the queue + 1
    MaxFaults,      \* bound: failed calls, crashes and overdue runs
    SlowDispatch    \* may a dispatcher run outlive the five-minute claim?

ASSUME RowsAssumption == Governed \subseteq Rows
ASSUME BoundsAssumption ==
    /\ BatchLimit \in Nat \ {0}
    /\ MaxDeliveries \in Nat \ {0}
    /\ MaxFaults \in Nat
    /\ SlowDispatch \in BOOLEAN

VARIABLES
    status,     \* status[r]: the status column, "absent" before the INSERT
    stale,      \* stale[r]: claimed_at is more than five minutes old
    processed,  \* processed[r]: processed_at is set
    dead,       \* dead[r]: dead_lettered_at is set
    dphase,     \* where each dispatcher run is
    dids,       \* the ids it claimed
    main,       \* main[r][k]: messages for r awaiting their k-th delivery
    dlq,        \* dlq[r]: messages for r in the dead-letter queue
    cphase,     \* where each consumer is in handling its message
    crow,       \* the row of that message
    cdel,       \* which delivery of the message this is
    facts,      \* the effects its graph rebuild has read
    projected,  \* effects some installed graph has contained
    faults      \* faults so far

rowVars  == <<status, stale, processed, dead>>
dispVars == <<dphase, dids>>
consVars == <<cphase, crow, cdel, facts>>
vars == <<rowVars, dispVars, main, dlq, consVars, projected, faults>>

Statuses == {"absent", "pending", "dispatching", "dispatched", "processing",
             "processed", "dead_letter"}
DPhases == {"idle", "claimed", "sent", "failed"}
CPhases == {"idle", "assembling", "persisting", "projected", "acking", "failing"}
Deliveries == 1 .. MaxDeliveries

Init ==
    /\ status = [r \in Rows |-> "absent"]
    /\ stale = [r \in Rows |-> FALSE]
    /\ processed = [r \in Rows |-> FALSE]
    /\ dead = [r \in Rows |-> FALSE]
    /\ dphase = [d \in Dispatchers |-> "idle"]
    /\ dids = [d \in Dispatchers |-> {}]
    /\ main = [r \in Rows |-> [k \in Deliveries |-> 0]]
    /\ dlq = [r \in Rows |-> 0]
    /\ cphase = [c \in Consumers |-> "idle"]
    /\ crow \in [Consumers -> Rows]
    /\ cdel = [c \in Consumers |-> 1]
    /\ facts = [c \in Consumers |-> {}]
    /\ projected = {}
    /\ faults = 0

Fault == faults < MaxFaults /\ faults' = faults + 1

Committed == {r \in Rows : status[r] # "absent"}

(* A run between its claim and its last statement. *)
Holds(d, r) == dphase[d] # "idle" /\ r \in dids[d]

-----------------------------------------------------------------------------
(* The authority statement inserts the effect and its outbox row at once.  *)
Commit(r) ==
    /\ status[r] = "absent"
    /\ status' = [status EXCEPT ![r] = "pending"]
    /\ UNCHANGED <<stale, processed, dead, dispVars, main, dlq, consVars,
                   projected, faults>>

-----------------------------------------------------------------------------
(* The dispatcher.                                                         *)

PendingOnly(r) == ~processed[r] /\ ~dead[r] /\ status[r] = "pending"

Claimable(r) ==
    /\ ~processed[r]
    /\ ~dead[r]
    /\ status[r] = "pending" \/ (status[r] = "dispatching" /\ stale[r])

(* SKIP LOCKED lets a claim pass over rows another statement holds, so any *)
(* non-empty set of candidates within the limit may come back.             *)
ClaimRows(d) ==
    /\ dphase[d] = "idle"
    /\ \E ids \in SUBSET {r \in Rows : Claimable(r)} :
        /\ ids # {} /\ Cardinality(ids) <= BatchLimit
        /\ status' = [r \in Rows |-> IF r \in ids THEN "dispatching" ELSE status[r]]
        /\ stale' = [r \in Rows |-> IF r \in ids THEN FALSE ELSE stale[r]]
        /\ dids' = [dids EXCEPT ![d] = ids]
    /\ dphase' = [dphase EXCEPT ![d] = "claimed"]
    /\ UNCHANGED <<processed, dead, main, dlq, consVars, projected, faults>>

Published(ids) ==
    [r \in Rows |-> IF r \in ids THEN [main[r] EXCEPT ![1] = @ + 1] ELSE main[r]]

SendBatch(d) ==
    /\ dphase[d] = "claimed"
    /\ main' = Published(dids[d])
    /\ dphase' = [dphase EXCEPT ![d] = "sent"]
    /\ UNCHANGED <<rowVars, dids, dlq, consVars, projected, faults>>

(* sendBatch rejects: the messages may or may not have been accepted. *)
SendBatchFails(d) ==
    /\ Fault
    /\ dphase[d] = "claimed"
    /\ main' \in {main, Published(dids[d])}
    /\ dphase' = [dphase EXCEPT ![d] = "failed"]
    /\ UNCHANGED <<rowVars, dids, dlq, consVars, projected>>

FromDispatching(r) == status[r] = "dispatching"
FromAnyStatus(r) == TRUE
(* The WHERE clause shared by markDispatched and releaseDispatch. *)
DispatchOpen(r) == FromDispatching(r)

MarkDispatched(d) ==
    /\ dphase[d] = "sent"
    /\ status' = [r \in Rows |-> IF r \in dids[d] /\ DispatchOpen(r)
                                 THEN "dispatched" ELSE status[r]]
    /\ stale' = [r \in Rows |-> IF r \in dids[d] /\ DispatchOpen(r)
                                THEN FALSE ELSE stale[r]]
    /\ dphase' = [dphase EXCEPT ![d] = "idle"]
    /\ UNCHANGED <<processed, dead, dids, main, dlq, consVars, projected, faults>>

(* Publishing and marking share one try block, so a failed mark is handled *)
(* exactly like a failed send: the claim is released.                      *)
MarkDispatchedFails(d) ==
    /\ Fault
    /\ dphase[d] = "sent"
    /\ dphase' = [dphase EXCEPT ![d] = "failed"]
    /\ UNCHANGED <<rowVars, dids, main, dlq, consVars, projected>>

ReleaseDispatch(d) ==
    /\ dphase[d] = "failed"
    /\ status' = [r \in Rows |-> IF r \in dids[d] /\ DispatchOpen(r)
                                 THEN "pending" ELSE status[r]]
    /\ stale' = [r \in Rows |-> IF r \in dids[d] /\ DispatchOpen(r)
                                THEN FALSE ELSE stale[r]]
    /\ dphase' = [dphase EXCEPT ![d] = "idle"]
    /\ UNCHANGED <<processed, dead, dids, main, dlq, consVars, projected, faults>>

(* The run dies between two statements (or the release itself rejects). *)
DispatcherCrash(d) ==
    /\ Fault
    /\ dphase[d] # "idle"
    /\ dphase' = [dphase EXCEPT ![d] = "idle"]
    /\ UNCHANGED <<rowVars, dids, main, dlq, consVars, projected>>

(* Five minutes pass on a claim whose run is over. *)
ClaimAges(r) ==
    /\ status[r] = "dispatching" /\ ~stale[r]
    /\ \A d \in Dispatchers : ~Holds(d, r)
    /\ stale' = [stale EXCEPT ![r] = TRUE]
    /\ UNCHANGED <<status, processed, dead, dispVars, main, dlq, consVars,
                   projected, faults>>

(* Five minutes pass on a claim whose run is still going. *)
ClaimOverdue(r) ==
    /\ SlowDispatch
    /\ Fault
    /\ status[r] = "dispatching" /\ ~stale[r]
    /\ \E d \in Dispatchers : Holds(d, r)
    /\ stale' = [stale EXCEPT ![r] = TRUE]
    /\ UNCHANGED <<status, processed, dead, dispVars, main, dlq, consVars,
                   projected>>

-----------------------------------------------------------------------------
(* The consumer.  Each message is acknowledged or retried by itself, so a  *)
(* batch is a sequence of these steps.                                     *)

Take(r, k) == [main EXCEPT ![r][k] = @ - 1]

(* parseTenantProjectionMessage accepts one event type; a message about    *)
(* any other row is acknowledged without a look at the database.           *)
AckInvalid(r, k) ==
    /\ r \notin Governed
    /\ main[r][k] > 0
    /\ main' = Take(r, k)
    /\ UNCHANGED <<rowVars, dispVars, dlq, consVars, projected, faults>>

(* The WHERE clause of beginProjectionOutboxAttempt. *)
Startable(r) ==
    /\ ~processed[r]
    /\ ~dead[r]
    /\ status[r] \in {"dispatching", "dispatched", "processing"}

BeginAttempt(c, r, k) ==
    /\ r \in Governed
    /\ cphase[c] = "idle"
    /\ main[r][k] > 0
    /\ Startable(r)
    /\ status' = [status EXCEPT ![r] = "processing"]
    /\ main' = Take(r, k)
    /\ cphase' = [cphase EXCEPT ![c] = "assembling"]
    /\ crow' = [crow EXCEPT ![c] = r]
    /\ cdel' = [cdel EXCEPT ![c] = k]
    /\ UNCHANGED <<stale, processed, dead, dispVars, dlq, facts, projected, faults>>

(* No row came back: a duplicate, or a row released since it was sent. *)
AckUnclaimed(r, k) ==
    /\ r \in Governed
    /\ main[r][k] > 0
    /\ ~Startable(r)
    /\ main' = Take(r, k)
    /\ UNCHANGED <<rowVars, dispVars, dlq, consVars, projected, faults>>

(* persistDataGraph: the facts are read first ...                          *)
AssembleFacts(c) ==
    /\ cphase[c] = "assembling"
    /\ facts' = [facts EXCEPT ![c] = Committed]
    /\ cphase' = [cphase EXCEPT ![c] = "persisting"]
    /\ UNCHANGED <<rowVars, dispVars, main, dlq, crow, cdel, projected, faults>>

(* ... and then the graph built from them is installed, or found equal to  *)
(* the one already there.                                                  *)
PersistGraph(c) ==
    /\ cphase[c] = "persisting"
    /\ projected' = projected \union facts[c]
    /\ facts' = [facts EXCEPT ![c] = {}]
    /\ cphase' = [cphase EXCEPT ![c] = "projected"]
    /\ UNCHANGED <<rowVars, dispVars, main, dlq, crow, cdel, faults>>

AfterGraph(c) == cphase[c] = "projected"
BeforeGraph(c) == cphase[c] \in {"persisting", "projected"}
MayMarkProcessed(c) == AfterGraph(c)

(* Guarded by processed_at alone: a row dead-lettered in the meantime is   *)
(* marked processed too.                                                   *)
MarkProcessed(c) ==
    /\ MayMarkProcessed(c)
    /\ LET r == crow[c] IN
        /\ status' = [status EXCEPT ![r] = "processed"]
        /\ processed' = [processed EXCEPT ![r] = TRUE]
    /\ cphase' = [cphase EXCEPT ![c] = "acking"]
    /\ UNCHANGED <<stale, dead, dispVars, main, dlq, crow, cdel, facts, projected,
                   faults>>

AckProcessed(c) ==
    /\ cphase[c] = "acking"
    /\ cphase' = [cphase EXCEPT ![c] = "idle"]
    /\ UNCHANGED <<rowVars, dispVars, main, dlq, crow, cdel, facts, projected, faults>>

(* A statement of the try block rejects. *)
ProjectionFails(c) ==
    /\ Fault
    /\ cphase[c] \in {"assembling", "persisting", "projected"}
    /\ cphase' = [cphase EXCEPT ![c] = "failing"]
    /\ facts' = [facts EXCEPT ![c] = {}]
    /\ UNCHANGED <<rowVars, dispVars, main, dlq, crow, cdel, projected>>

(* The queue takes back delivery k of a message for r. *)
Redeliver(r, k) ==
    IF k < MaxDeliveries
    THEN main' = [main EXCEPT ![r][k + 1] = @ + 1] /\ UNCHANGED dlq
    ELSE dlq' = [dlq EXCEPT ![r] = @ + 1] /\ UNCHANGED main

RetryMessage(r, k) == Redeliver(r, k)
AckMessage(r, k) == UNCHANGED <<main, dlq>>
(* What the consumer tells the queue about a failed attempt. *)
AfterAttemptFailed(r, k) == RetryMessage(r, k)

(* What markProjectionOutboxFailed puts in the status column. *)
FailedAttemptStatus == "dispatched"

NotProcessed(r) == ~processed[r]
(* The WHERE clause of markProjectionOutboxFailed. *)
FailureOpen(r) == ~processed[r] /\ ~dead[r]

MarkFailed(c) ==
    /\ cphase[c] = "failing"
    /\ LET r == crow[c] IN
        /\ status' = [status EXCEPT ![r] = IF FailureOpen(r) THEN FailedAttemptStatus ELSE @]
        /\ AfterAttemptFailed(r, cdel[c])
    /\ cphase' = [cphase EXCEPT ![c] = "idle"]
    /\ UNCHANGED <<stale, processed, dead, dispVars, crow, cdel, facts, projected, faults>>

(* The invocation dies, or a statement outside the try block rejects: the  *)
(* message was not acknowledged and comes back.                            *)
ConsumerCrash(c) ==
    /\ Fault
    /\ cphase[c] # "idle"
    /\ Redeliver(crow[c], cdel[c])
    /\ cphase' = [cphase EXCEPT ![c] = "idle"]
    /\ facts' = [facts EXCEPT ![c] = {}]
    /\ UNCHANGED <<rowVars, dispVars, crow, cdel, projected>>

(* The WHERE clause of markProjectionOutboxDeadLettered. *)
DeadLetterOpen(r) == ~processed[r]

WriteDeadLetter(r) ==
    /\ status' = [status EXCEPT ![r] = IF DeadLetterOpen(r) THEN "dead_letter" ELSE @]
    /\ dead' = [dead EXCEPT ![r] = @ \/ DeadLetterOpen(r)]
    /\ UNCHANGED <<stale, processed>>

(* A batch from the dead-letter queue only records the exhausted message. *)
DeadLetter(r) ==
    /\ dlq[r] > 0
    /\ WriteDeadLetter(r)
    /\ dlq' = [dlq EXCEPT ![r] = @ - 1]
    /\ UNCHANGED <<dispVars, main, consVars, projected, faults>>

(* The same, with the acknowledgement lost. *)
DeadLetterUnacked(r) ==
    /\ Fault
    /\ dlq[r] > 0
    /\ WriteDeadLetter(r)
    /\ UNCHANGED <<dispVars, main, dlq, consVars, projected>>

-----------------------------------------------------------------------------
DispatchStep(d) ==
    \/ ClaimRows(d) \/ SendBatch(d) \/ MarkDispatched(d) \/ ReleaseDispatch(d)

ConsumeStep(c) ==
    \/ AssembleFacts(c) \/ PersistGraph(c) \/ MarkProcessed(c)
    \/ AckProcessed(c) \/ MarkFailed(c)

DeliverStep(r, k) ==
    \/ AckInvalid(r, k)
    \/ AckUnclaimed(r, k)
    \/ \E c \in Consumers : BeginAttempt(c, r, k)

Next ==
    \/ \E r \in Rows : Commit(r) \/ ClaimAges(r) \/ ClaimOverdue(r)
                       \/ DeadLetter(r) \/ DeadLetterUnacked(r)
    \/ \E r \in Rows, k \in Deliveries : DeliverStep(r, k)
    \/ \E d \in Dispatchers : DispatchStep(d) \/ SendBatchFails(d)
                              \/ MarkDispatchedFails(d) \/ DispatcherCrash(d)
    \/ \E c \in Consumers : ConsumeStep(c) \/ ProjectionFails(c) \/ ConsumerCrash(c)

Spec == Init /\ [][Next]_vars

(* The cron trigger keeps firing, a started invocation takes its next step *)
(* or crashes, the queue keeps delivering, and time passes.                *)
Fairness ==
    /\ \A d \in Dispatchers : WF_vars(DispatchStep(d))
    /\ \A c \in Consumers : WF_vars(ConsumeStep(c))
    /\ \A r \in Rows : WF_vars(ClaimAges(r)) /\ WF_vars(DeadLetter(r))
    /\ \A r \in Rows, k \in Deliveries : WF_vars(DeliverStep(r, k))

FairSpec == Spec /\ Fairness

-----------------------------------------------------------------------------
(* Properties.                                                             *)

Settled(r) == processed[r] \/ dead[r]

(* A delivery of r's message that is still to come or still being handled. *)
InFlight(r) ==
    \/ \E d \in Dispatchers : dphase[d] = "claimed" /\ r \in dids[d]
    \/ \E k \in Deliveries : main[r][k] > 0
    \/ dlq[r] > 0
    \/ \E c \in Consumers : cphase[c] # "idle" /\ crow[c] = r

(* Every variable has its type. *)
TypeOK ==
    /\ status \in [Rows -> Statuses]
    /\ stale \in [Rows -> BOOLEAN]
    /\ processed \in [Rows -> BOOLEAN]
    /\ dead \in [Rows -> BOOLEAN]
    /\ dphase \in [Dispatchers -> DPhases]
    /\ dids \in [Dispatchers -> SUBSET Rows]
    /\ main \in [Rows -> [Deliveries -> Nat]]
    /\ dlq \in [Rows -> Nat]
    /\ cphase \in [Consumers -> CPhases]
    /\ crow \in [Consumers -> Rows]
    /\ cdel \in [Consumers -> Deliveries]
    /\ facts \in [Consumers -> SUBSET Rows]
    /\ projected \in SUBSET Rows
    /\ faults \in Nat

(* No governed row is lost: until it is processed or dead-lettered, either *)
(* a dispatcher can still pick it up (pending, or a claim that goes stale) *)
(* or some delivery of its message is outstanding.  This is what           *)
(* at-least-once means for the outbox across released and stale claims,    *)
(* duplicate messages and crashes.                                         *)
NoRowLost ==
    \A r \in Governed :
        status[r] # "absent" /\ ~Settled(r) =>
            status[r] \in {"pending", "dispatching"} \/ InFlight(r)

(* A row marked processed was in a graph that was installed: the mark      *)
(* follows the rebuild, and the rebuild read its facts after the row.      *)
ProcessedWasProjected == \A r \in Rows : processed[r] => r \in projected

(* Once processed_at is set no late attempt, release, failure or dead      *)
(* letter changes the row: duplicates are harmless.                        *)
ProcessedIsFinal ==
    [][\A r \in Rows : processed[r] => processed'[r] /\ status'[r] = "processed"]_vars

(* A dead-lettered row is never put back to work; only an attempt already  *)
(* under way may still record that it was processed.                       *)
DeadIsNeverReopened ==
    [][\A r \in Rows : dead[r] => dead'[r] /\ status'[r] \in {"dead_letter", "processed"}]_vars

(* How far the effect of a row has come, as its status column tells it. *)
Stage(s) == CASE s = "absent" -> "uncommitted"
              [] s = "processed" -> "delivered"
              [] s = "dead_letter" -> "given_up"
              [] OTHER -> "owed"

Abstract == INSTANCE Outbox
    WITH stage <- [r \in Rows |-> Stage(status[r])], shown <- projected

(* Claims, releases, duplicate messages, failed attempts, late attempts    *)
(* and crashes are invisible from outside: all they amount to is that an   *)
(* effect is owed, then delivered or given up, each delivered effect shown *)
(* before and none taken up again.                                         *)
ImplementsOutbox == Abstract!Spec

(* Every committed governed row is eventually processed or dead-lettered.  *)
GovernedRowsSettle ==
    \A r \in Governed : status[r] # "absent" ~> Settled(r)
=============================================================================
