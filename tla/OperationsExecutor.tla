------------------------- MODULE OperationsExecutor -------------------------
(***************************************************************************)
(* The executor that drains the operator's queued commands:                *)
(*                                                                         *)
(*   services/operations-queue-consumer.ts   the drain                     *)
(*   dal/event-store.ts                      the queued page and the       *)
(*                                           guarded status transition     *)
(*   crons/index.ts                          the daily trigger             *)
(*                                                                         *)
(* A run polls one page of queued events, newest first, and works through  *)
(* it event by event: claim, run the verb, append the result (or a failure *)
(* note), then move the request to a terminal status.  Runs may overlap.   *)
(***************************************************************************)
EXTENDS Naturals, Sequences, FiniteSets

CONSTANTS
    Commands,   \* queued commands and other queued rows of the operator
    Known,      \* events whose next_action names a registered verb
    Unknown,    \* events with an execute: prefix and no registered verb
    Executors,  \* concurrent runs of the drain
    MaxBatch,   \* page size of a run
    MaxStops    \* bound: rejected statements and crashes

ASSUME ExecutorAssumption ==
    /\ Known \subseteq Commands /\ Unknown \subseteq Commands
    /\ Known \cap Unknown = {}
    /\ MaxBatch \in Nat \ {0} /\ MaxStops \in Nat

VARIABLES
    request,  \* status of each event, "absent" before it is enqueued
    log,      \* enqueued events in the order of occurred_at, newest last
    runs,     \* how often each event's verb ran
    results,  \* events whose result proposal was appended
    notes,    \* events whose failure note was appended
    xphase,   \* where each run is
    page,     \* the rest of its page, as places in log; the newest is in hand
    stranded, \* commands that a rejected statement or a death left running
    stops     \* statements rejected and runs dead so far

executorVars == <<request, log, runs, results, notes, xphase, page, stranded, stops>>

(* Not addressed to the executor. *)
Foreign == Commands \ (Known \union Unknown)
RequestStatuses == {"absent", "queued", "running", "completed", "failed"}
XPhases == {"idle", "scanning", "claimed", "appending", "finalizing",
            "noting", "failing"}

ExecutorInit ==
    /\ request = [e \in Commands |-> "absent"]
    /\ log = <<>>
    /\ runs = [e \in Commands |-> 0]
    /\ results = {}
    /\ notes = {}
    /\ xphase = [x \in Executors |-> "idle"]
    /\ page = [x \in Executors |-> {}]
    /\ stranded = {}
    /\ stops = 0

Fault == stops < MaxStops /\ stops' = stops + 1
Goto(x, p) == xphase' = [xphase EXCEPT ![x] = p]
Newest(S) == CHOOSE i \in S : \A j \in S : j <= i
Next1(x) == Goto(x, "scanning") /\ page' = [page EXCEPT ![x] = @ \ {Newest(@)}]
InHand(x) == log[Newest(page[x])]
Scanning(x) == xphase[x] = "scanning" /\ page[x] # {}

(* A run holds the command it has claimed until it moves it on or gives up. *)
Working == {"claimed", "appending", "finalizing", "noting", "failing"}
Holds(x, e) == xphase[x] \in Working /\ InHand(x) = e

-----------------------------------------------------------------------------
Enqueue(e) ==
    /\ request[e] = "absent"
    /\ request' = [request EXCEPT ![e] = "queued"]
    /\ log' = Append(log, e)
    /\ UNCHANGED <<runs, results, notes, xphase, page, stranded, stops>>

FirstBatch(S) == {i \in S : Cardinality({j \in S : i < j}) < MaxBatch}

(* listEventsForOperator: status = 'queued', newest first, LIMIT MaxBatch. *)
QueuedPage == FirstBatch({i \in 1 .. Len(log) : request[log[i]] = "queued"})

Poll(x) ==
    /\ xphase[x] = "idle"
    /\ QueuedPage # {}
    /\ Goto(x, "scanning")
    /\ page' = [page EXCEPT ![x] = QueuedPage]
    /\ UNCHANGED <<request, log, runs, results, notes, stranded, stops>>

SkipForeign(x) ==
    /\ Scanning(x)
    /\ InHand(x) \in Foreign
    /\ Next1(x)
    /\ UNCHANGED <<request, log, runs, results, notes, stranded, stops>>

StillQueued(e) == request[e] = "queued"
NotFinished(e) == request[e] \in {"queued", "running"}
(* expectedStatus of the claim: the page was read earlier. *)
ClaimGuard(e) == StillQueued(e)

Claim(x) ==
    /\ Scanning(x)
    /\ InHand(x) \notin Foreign
    /\ IF ClaimGuard(InHand(x))
       THEN /\ request' = [request EXCEPT ![InHand(x)] = "running"]
            /\ Goto(x, IF InHand(x) \in Known THEN "claimed" ELSE "noting")
            /\ UNCHANGED page
       ELSE Next1(x) /\ UNCHANGED request
    /\ UNCHANGED <<log, runs, results, notes, stranded, stops>>

RunVerb(x) ==
    /\ xphase[x] = "claimed"
    /\ runs' = [runs EXCEPT ![InHand(x)] = @ + 1]
    /\ Goto(x, "appending")
    /\ UNCHANGED <<request, log, results, notes, page, stranded, stops>>

VerbThrows(x) ==
    /\ xphase[x] = "claimed"
    /\ runs' = [runs EXCEPT ![InHand(x)] = @ + 1]
    /\ Goto(x, "noting")
    /\ UNCHANGED <<request, log, results, notes, page, stranded, stops>>

(* The result id is derived from the request's, so a repeat adds nothing. *)
AppendResult(x) ==
    /\ xphase[x] = "appending"
    /\ results' = results \union {InHand(x)}
    /\ Goto(x, "finalizing")
    /\ UNCHANGED <<request, log, runs, notes, page, stranded, stops>>

AppendFailureNote(x) ==
    /\ xphase[x] = "noting"
    /\ notes' = notes \union {InHand(x)}
    /\ Goto(x, "failing")
    /\ UNCHANGED <<request, log, runs, results, page, stranded, stops>>

GuardedMove(x, s) ==
    request' = [request EXCEPT ![InHand(x)] = IF @ = "running" THEN s ELSE @]
LeaveRunning(x, s) == UNCHANGED request
(* The guarded last transition of a request. *)
MoveFromRunning(x, s) == GuardedMove(x, s)

AfterAppend(x) == xphase[x] = "finalizing"
BeforeAppend(x) == xphase[x] \in {"appending", "finalizing"}
MayFinalize(x) == AfterAppend(x)

Finalize(x) ==
    /\ MayFinalize(x)
    /\ MoveFromRunning(x, "completed")
    /\ Next1(x)
    /\ UNCHANGED <<log, runs, results, notes, stranded, stops>>

MarkFailed(x) ==
    /\ xphase[x] = "failing"
    /\ MoveFromRunning(x, "failed")
    /\ Next1(x)
    /\ UNCHANGED <<log, runs, results, notes, stranded, stops>>

(* Nothing takes up a running command again.                               *)
LetGo(x) == stranded' = stranded \union {e \in Commands : Holds(x, e)}

(* A statement for the event in hand rejects: the run counts an error and  *)
(* goes on with the next event.                                            *)
EventErrors(x) ==
    /\ Fault
    /\ LetGo(x)
    /\ xphase[x] \in {"appending", "finalizing", "noting", "failing"} \/ Scanning(x)
    /\ Next1(x)
    /\ UNCHANGED <<request, log, runs, results, notes>>

(* The worker dies. *)
Crash(x) ==
    /\ Fault
    /\ LetGo(x)
    /\ xphase[x] # "idle"
    /\ Goto(x, "idle")
    /\ page' = [page EXCEPT ![x] = {}]
    /\ UNCHANGED <<request, log, runs, results, notes>>

EndRun(x) ==
    /\ xphase[x] = "scanning" /\ page[x] = {}
    /\ Goto(x, "idle")
    /\ UNCHANGED <<request, log, runs, results, notes, page, stranded, stops>>

-----------------------------------------------------------------------------
RunStep(x) ==
    \/ Poll(x) \/ SkipForeign(x) \/ Claim(x) \/ RunVerb(x) \/ AppendResult(x)
    \/ AppendFailureNote(x) \/ Finalize(x) \/ MarkFailed(x) \/ EndRun(x)

ExecutorNext ==
    \/ \E e \in Commands : Enqueue(e)
    \/ \E x \in Executors :
          RunStep(x) \/ VerbThrows(x) \/ EventErrors(x) \/ Crash(x)

ExecutorSpec == ExecutorInit /\ [][ExecutorNext]_executorVars

(* The daily trigger keeps firing and a run takes its next step or dies. *)
ExecutorFairSpec == ExecutorSpec /\ \A x \in Executors : WF_executorVars(RunStep(x))

-----------------------------------------------------------------------------
(* Every variable has its type. *)
ExecutorTypeOK ==
    /\ request \in [Commands -> RequestStatuses]
    /\ log \in Seq(Commands)
    /\ runs \in [Commands -> Nat]
    /\ results \subseteq Commands
    /\ notes \subseteq Commands
    /\ xphase \in [Executors -> XPhases]
    /\ page \in [Executors -> SUBSET (1 .. Len(log))]
    /\ stranded \subseteq Commands
    /\ stops \in Nat

(* RUN-EXACTLY-ONCE, the safety half: however many runs overlap on pages   *)
(* read before the others' claims, no command's verb runs twice.           *)
VerbRunsAtMostOnce == \A e \in Commands : runs[e] <= 1

(* A completed request has its appended result and a failed one its note,  *)
(* even when a statement after the claim rejected.                         *)
TerminalIsExplained ==
    \A e \in Commands :
        /\ request[e] = "completed" => e \in results
        /\ request[e] = "failed" => e \in notes

(* The page of a run is full of newer rows that are not the executor's and *)
(* that nobody takes out of the queue.                                     *)
CrowdedOut(e) ==
    LET newer == {i \in 1 .. Len(log) : \E j \in 1 .. i - 1 : log[j] = e}
    IN Cardinality({i \in newer : log[i] \in Foreign /\ request[log[i]] = "queued"}) >= MaxBatch

(* How far the cron is the GUARANTEED-EVENTUALLY backstop of crons/index.ts: *)
(* a queued command reaches a terminal status, whatever its verb does and    *)
(* whichever claims and pages are lost, once faults and new rows stop        *)
(* coming, but for two: the one a fault has left running, which no poll      *)
(* finds (the KNOWN LIMITATION of the consumer), and the one crowded out of  *)
(* every page by foreign rows.                                               *)
CommandsFinish ==
    \A e \in Known \union Unknown :
        request[e] = "queued" ~> \/ request[e] \in {"completed", "failed"}
                                 \/ e \in stranded
                                 \/ CrowdedOut(e)
=============================================================================
