------------------------ MODULE DigestApprovalProofs ------------------------
(***************************************************************************)
(* Theorems about DigestApproval, for every number of days, executor       *)
(* drafts, sweeps and lost post steps: type correctness, that nothing is   *)
(* posted without a standing approval, that decisions are final and that   *)
(* no approval is dropped.  At the end, theorems about OperationsExecutor. *)
(***************************************************************************)
EXTENDS Integers, DigestApproval, OperationsExecutor, WellFoundedInduction, TLAPS

(* What a step may leave alone. *)
USE DEF rows, vars

-----------------------------------------------------------------------------
(* Inserting a proposal keeps the columns' types. *)
LEMMA UpsertType ==
    ASSUME TypeOK, NEW p \in Proposals, Upsert(p)
    PROVE  /\ status' \in [Proposals -> Statuses]
           /\ approval' \in [Proposals -> Approvals]
           /\ archived' \in [Proposals -> BOOLEAN]
  BY DEF TypeOK, Upsert, Statuses, Approvals

(* A verdict writes a value of the approval_state column; 'noted' writes   *)
(* NULL.                                                                   *)
LEMMA VerdictType ==
    ASSUME NEW v \in {"approved", "rejected", "noted"}
    PROVE  ApprovalFor(v) \in Approvals
  BY DEF ApprovalFor, NullIfNoted, Approvals

(* Every step keeps the types. *)
LEMMA TypeStep == TypeOK /\ [Next]_vars => TypeOK'
  <1> SUFFICES ASSUME TypeOK, [Next]_vars PROVE TypeOK'
    OBVIOUS
  <1>1. day \in Proposals
    BY DEF TypeOK, Proposals
  <1>2. CASE UNCHANGED vars
    BY <1>2 DEF TypeOK
  <1>3. CASE NextDay
    BY <1>3, DigestBounds DEF NextDay, TypeOK, DayIds
  <1>4. CASE ManualDraft
    BY <1>1, <1>4, UpsertType DEF ManualDraft, TypeOK
  <1>5. ASSUME NEW s \in Sweeps,
               SweepSkips(s) \/ SweepScans(s) \/ SweepEnds(s)
        PROVE  TypeOK'
    BY <1>5 DEF SweepSkips, SweepScans, SweepEnds, TypeOK
  <1>6. ASSUME NEW s \in Sweeps, SweepDrafts(s) PROVE TypeOK'
    BY <1>1, <1>6, UpsertType DEF SweepDrafts, TypeOK
  <1>7. ASSUME NEW p \in Proposals, ExecutorDraft(p) PROVE TypeOK'
    BY <1>7, UpsertType DEF ExecutorDraft, TypeOK
  <1>8. ASSUME NEW p \in Proposals, PostStep(p) \/ PostLost(p) PROVE TypeOK'
    BY <1>8 DEF PostStep, PostReads, PostClaims, PostReceipt, AppendReceipt,
                WriteReceipt, PostLost, TypeOK, Statuses, PostPhases
  <1>9. ASSUME NEW p \in Proposals, Archive(p) \/ Restore(p) PROVE TypeOK'
    BY <1>9 DEF Archive, Restore, TypeOK
  <1>10. ASSUME NEW p \in Proposals, NEW v \in {"approved", "rejected", "noted"},
                SignOff(p, v)
         PROVE  TypeOK'
    BY <1>10, VerdictType DEF SignOff, TypeOK, PostPhases
  <1>11. QED
    BY <1>2, <1>3, <1>4, <1>5, <1>6, <1>7, <1>8, <1>9, <1>10 DEF Next

(* Type correctness of the proposal rows, the sweeps and the post steps.   *)
THEOREM TypeCorrect == Spec => []TypeOK
  <1>1. Init => TypeOK
    BY DigestBounds DEF Init, TypeOK, DayIds, Proposals, Statuses, Approvals,
                        PostPhases
  <1>2. QED
    BY <1>1, TypeStep, PTL DEF Spec

-----------------------------------------------------------------------------
(* An approval is followed through its post step: an absent proposal has   *)
(* no approval_state, a post step runs for an approved proposal only, and  *)
(* what it closes or posts stays approved.                                 *)
ApprovalInv ==
    \A p \in Proposals :
        /\ status[p] = "absent" => approval[p] = "null"
        /\ post[p] \in {"reading", "claiming", "receipting"}
             => approval[p] = "approved"
        /\ p \in receipts \/ status[p] = "completed" => approval[p] = "approved"

(* Inserting a proposal keeps ApprovalInv: an absent one was never decided. *)
LEMMA UpsertApproval ==
    ASSUME TypeOK, ApprovalInv, NEW p \in Proposals, Upsert(p),
           UNCHANGED <<post, receipts>>
    PROVE  ApprovalInv'
  BY DEF TypeOK, ApprovalInv, Upsert

(* Every step keeps ApprovalInv. *)
LEMMA ApprovalStep == TypeOK /\ ApprovalInv /\ [Next]_vars => ApprovalInv'
  <1> SUFFICES ASSUME TypeOK, ApprovalInv, [Next]_vars PROVE ApprovalInv'
    OBVIOUS
  <1>1. day \in Proposals
    BY DEF TypeOK, Proposals
  <1>2. CASE UNCHANGED vars
    BY <1>2 DEF ApprovalInv
  <1>3. CASE NextDay
    BY <1>3 DEF NextDay, ApprovalInv
  <1>4. CASE ManualDraft
    BY <1>1, <1>4, UpsertApproval DEF ManualDraft
  <1>5. ASSUME NEW s \in Sweeps,
               SweepSkips(s) \/ SweepScans(s) \/ SweepEnds(s)
        PROVE  ApprovalInv'
    BY <1>5 DEF SweepSkips, SweepScans, SweepEnds, ApprovalInv
  <1>6. ASSUME NEW s \in Sweeps, SweepDrafts(s) PROVE ApprovalInv'
    BY <1>1, <1>6, UpsertApproval DEF SweepDrafts
  <1>7. ASSUME NEW p \in Proposals, ExecutorDraft(p) PROVE ApprovalInv'
    BY <1>7, UpsertApproval DEF ExecutorDraft
  <1>8. ASSUME NEW p \in Proposals, PostStep(p) PROVE ApprovalInv'
    <2>1. CASE PostReads(p)
      BY <2>1 DEF PostReads, ApprovalInv, TypeOK
    <2>2. CASE PostClaims(p)
      BY <2>2 DEF PostClaims, ApprovalInv, TypeOK
    <2>3. CASE PostReceipt(p)
      BY <2>3 DEF PostReceipt, AppendReceipt, WriteReceipt, ApprovalInv, TypeOK
    <2>4. QED
      BY <1>8, <2>1, <2>2, <2>3 DEF PostStep
  <1>9. ASSUME NEW p \in Proposals, PostLost(p) PROVE ApprovalInv'
    BY <1>9 DEF PostLost, ApprovalInv, TypeOK
  <1>10. ASSUME NEW p \in Proposals, Archive(p) \/ Restore(p) PROVE ApprovalInv'
    BY <1>10 DEF Archive, Restore, ApprovalInv
  <1>11. ASSUME NEW p \in Proposals, NEW v \in {"approved", "rejected", "noted"},
                SignOff(p, v)
         PROVE  ApprovalInv'
    BY <1>11 DEF SignOff, SignOffOpen, OnlyPending, ApprovalFor, NullIfNoted,
                 ApprovalInv, TypeOK
  <1>12. QED
    BY <1>2, <1>3, <1>4, <1>5, <1>6, <1>7, <1>8, <1>9, <1>10, <1>11 DEF Next

(* Whatever sweeps, drafts and sign-offs overlap, a digest with a posted   *)
(* receipt, or closed by postApprovedDigest, is approved.                  *)
THEOREM PostedDigestsAreApproved == Spec => []PostedWasApproved
  <1>1. Init => ApprovalInv
    BY DEF Init, ApprovalInv
  <1>2. ApprovalInv => PostedWasApproved
    BY DEF ApprovalInv, PostedWasApproved
  <1>3. QED
    BY <1>1, <1>2, ApprovalStep, TypeCorrect, PTL DEF Spec

-----------------------------------------------------------------------------
(* No statement changes a decided proposal: sign-off asks for a pending    *)
(* one, and a draft is inserted only where there was no row.               *)
THEOREM DecisionsStay == Spec => DecisionIsFinal
  <1> DEFINE Kept(p) == approval[p] \in {"approved", "rejected"}
                          => approval'[p] = approval[p]
  <1>1. ASSUME TypeOK, ApprovalInv, Next, NEW p \in Proposals PROVE Kept(p)
    <2>1. ASSUME NEW d \in Proposals, Upsert(d) PROVE Kept(p)
      BY <1>1, <2>1 DEF Upsert, ApprovalInv, TypeOK
    <2>2. day \in Proposals
      BY <1>1 DEF TypeOK, Proposals
    <2>3. CASE NextDay
      BY <2>3 DEF NextDay
    <2>4. CASE ManualDraft
      BY <2>1, <2>2, <2>4 DEF ManualDraft
    <2>5. ASSUME NEW s \in Sweeps,
                 SweepSkips(s) \/ SweepScans(s) \/ SweepDrafts(s) \/ SweepEnds(s)
          PROVE  Kept(p)
      BY <2>1, <2>2, <2>5 DEF SweepSkips, SweepScans, SweepDrafts, SweepEnds
    <2>6. ASSUME NEW d \in Proposals, ExecutorDraft(d) PROVE Kept(p)
      BY <2>1, <2>6 DEF ExecutorDraft
    <2>7. ASSUME NEW d \in Proposals,
                 PostStep(d) \/ PostLost(d) \/ Archive(d) \/ Restore(d)
          PROVE  Kept(p)
      BY <2>7 DEF PostStep, PostReads, PostClaims, PostReceipt, PostLost,
                  Archive, Restore
    <2>8. ASSUME NEW d \in Proposals, NEW v \in {"approved", "rejected", "noted"},
                 SignOff(d, v)
          PROVE  Kept(p)
      BY <1>1, <2>8 DEF SignOff, SignOffOpen, OnlyPending, TypeOK
    <2>9. QED
      BY <1>1, <2>3, <2>4, <2>5, <2>6, <2>7, <2>8 DEF Next
  <1>2. TypeOK /\ ApprovalInv /\ [Next]_vars => [\A p \in Proposals : Kept(p)]_vars
    BY <1>1
  <1>3. Init => ApprovalInv
    BY DEF Init, ApprovalInv
  <1>4. QED
    BY <1>2, <1>3, ApprovalStep, TypeCorrect, PTL DEF Spec, DecisionIsFinal

-----------------------------------------------------------------------------
(* Where the post step of an approved digest is: it is started by the      *)
(* approval and by nothing else and, until a step is lost, it finds the    *)
(* digest open and leaves a receipt behind.                                *)
PostInv ==
    \A p \in Proposals :
        /\ post[p] # "none" <=> approval[p] = "approved"
        /\ faults = 0 =>
            /\ post[p] \in {"reading", "claiming"} => status[p] = "needs_review"
            /\ post[p] = "done" => p \in receipts

(* An approved digest has its receipt or a post step on its way to one.    *)
ApprovedIsOnItsWay ==
    \A p \in Proposals :
        approval[p] = "approved" /\ faults = 0 =>
            p \in receipts \/ post[p] \in {"reading", "claiming", "receipting"}

(* Inserting a proposal keeps PostInv: an absent one was never approved.   *)
LEMMA UpsertPost ==
    ASSUME TypeOK, ApprovalInv, PostInv, NEW p \in Proposals, Upsert(p),
           UNCHANGED <<post, receipts, faults>>
    PROVE  PostInv'
  BY DEF TypeOK, ApprovalInv, PostInv, Upsert

(* Every step keeps PostInv. *)
LEMMA PostInvStep == TypeOK /\ ApprovalInv /\ PostInv /\ [Next]_vars => PostInv'
  <1> SUFFICES ASSUME TypeOK, ApprovalInv, PostInv, [Next]_vars PROVE PostInv'
    OBVIOUS
  <1>1. day \in Proposals
    BY DEF TypeOK, Proposals
  <1>2. CASE UNCHANGED vars
    BY <1>2 DEF PostInv
  <1>3. CASE NextDay
    BY <1>3 DEF NextDay, PostInv
  <1>4. CASE ManualDraft
    BY <1>1, <1>4, UpsertPost DEF ManualDraft
  <1>5. ASSUME NEW s \in Sweeps,
               SweepSkips(s) \/ SweepScans(s) \/ SweepEnds(s)
        PROVE  PostInv'
    BY <1>5 DEF SweepSkips, SweepScans, SweepEnds, PostInv
  <1>6. ASSUME NEW s \in Sweeps, SweepDrafts(s) PROVE PostInv'
    BY <1>1, <1>6, UpsertPost DEF SweepDrafts
  <1>7. ASSUME NEW p \in Proposals, ExecutorDraft(p) PROVE PostInv'
    BY <1>7, UpsertPost DEF ExecutorDraft
  <1>8. ASSUME NEW p \in Proposals, PostStep(p) PROVE PostInv'
    <2>1. CASE PostReads(p)
      BY <2>1 DEF PostReads, PostInv, TypeOK
    <2>2. CASE PostClaims(p)
      BY <2>2 DEF PostClaims, PostInv, TypeOK
    <2>3. CASE PostReceipt(p)
      BY <2>3 DEF PostReceipt, AppendReceipt, WriteReceipt, PostInv, TypeOK
    <2>4. QED
      BY <1>8, <2>1, <2>2, <2>3 DEF PostStep
  <1>9. ASSUME NEW p \in Proposals, PostLost(p) PROVE PostInv'
    BY <1>9 DEF PostLost, PostInv, TypeOK
  <1>10. ASSUME NEW p \in Proposals, Archive(p) \/ Restore(p) PROVE PostInv'
    BY <1>10 DEF Archive, Restore, PostInv
  <1>11. ASSUME NEW p \in Proposals, NEW v \in {"approved", "rejected", "noted"},
                SignOff(p, v)
         PROVE  PostInv'
    <2>1. approval[p] = "pending" /\ status[p] = "needs_review" /\ post[p] = "none"
      BY <1>11 DEF SignOff, SignOffOpen, OnlyPending, ApprovalInv, PostInv, TypeOK, Statuses
    <2>2. QED
      BY <1>11, <2>1 DEF SignOff, ApprovalFor, NullIfNoted, PostInv, TypeOK
  <1>12. QED
    BY <1>2, <1>3, <1>4, <1>5, <1>6, <1>7, <1>8, <1>9, <1>10, <1>11 DEF Next

(* The safety half of ApprovedIsPosted: whatever sweeps, drafts and        *)
(* archivings overlap with it, no approval is dropped between the sign-off *)
(* and the receipt unless a statement of the post step is lost.            *)
THEOREM ApprovalsAreOnTheirWay == Spec => []ApprovedIsOnItsWay
  <1>1. Init => ApprovalInv /\ PostInv
    BY DEF Init, ApprovalInv, PostInv
  <1>2. TypeOK /\ PostInv => ApprovedIsOnItsWay
    BY DEF PostInv, ApprovedIsOnItsWay, TypeOK, PostPhases
  <1>3. QED
    BY <1>1, <1>2, ApprovalStep, PostInvStep, TypeCorrect, PTL DEF Spec

-----------------------------------------------------------------------------
(* The executor that appends the executed drafts.  Its theorems are here   *)
(* because a draft of Executed is a result of OperationsExecutor; the two  *)
(* specifications share no variable and no constant.                       *)

(* A run that works on a command has not come to the end of its page.      *)
ExecTypes ==
    /\ ExecutorTypeOK
    /\ \A x \in Executors : xphase[x] \in Working => page[x] # {}

(* A claimed command is running and has one holder; its verb runs while it *)
(* is held, and its result or note is there before the last transition.    *)
(* Nobody but a fault lets go of a running command.                        *)
ClaimInv ==
    \A e \in Commands :
        /\ runs[e] <= 1
        /\ request[e] \in {"absent", "queued"} => runs[e] = 0
        /\ request[e] = "completed" => e \in results /\ runs[e] = 1
        /\ request[e] = "failed" => e \in notes
        /\ request[e] = "running" => e \in stranded \/ \E x \in Executors : Holds(x, e)
        /\ \A x, y \in Executors : Holds(x, e) /\ Holds(y, e) => x = y
        /\ \A x \in Executors : Holds(x, e) =>
            /\ request[e] = "running"
            /\ xphase[x] = "claimed" => runs[e] = 0
            /\ xphase[x] \in {"appending", "finalizing"} => runs[e] = 1
            /\ xphase[x] = "finalizing" => e \in results
            /\ xphase[x] = "failing" => e \in notes

(* A page that is not used up has a newest row.                            *)
LEMMA NewestIsThere ==
    ASSUME NEW n \in Nat, NEW S, S \subseteq 1 .. n, S # {}
    PROVE  Newest(S) \in S
  <1> DEFINE R == OpToRel(<, Nat)
             T == {n - i : i \in S}
  <1>1. IsWellFoundedOn(R, Nat)
    BY NatLessThanWellFounded
  <1>2. \A i, j \in Nat : <<i, j>> \in R <=> i < j
    BY DEF OpToRel
  <1>3. T \subseteq Nat /\ T # {}
    <2>1. ASSUME NEW i \in S PROVE n - i \in Nat
      BY SMT
    <2>2. QED
      BY <2>1
  <1> HIDE DEF R
  <1>4. PICK t \in T : \A u \in T : ~(<<u, t>> \in R)
    BY <1>1, <1>3, WFMin
  <1>5. PICK i \in S : t = n - i
    BY <1>4
  <1>6. ASSUME NEW j \in S PROVE j <= i
    <2>1. ~(n - j < n - i)
      BY <1>2, <1>3, <1>4, <1>5
    <2>2. QED
      BY <2>1
  <1>7. QED
    BY <1>6 DEF Newest

(* The event in hand is one of the queue's.                                *)
LEMMA HandIsCommand ==
    ASSUME ExecTypes, NEW x \in Executors, page[x] # {}
    PROVE  /\ Newest(page[x]) \in 1 .. Len(log)
           /\ InHand(x) \in Commands
  <1>1. log \in Seq(Commands) /\ page[x] \subseteq 1 .. Len(log) /\ Len(log) \in Nat
    BY DEF ExecTypes, ExecutorTypeOK
  <1>2. Newest(page[x]) \in 1 .. Len(log)
    BY <1>1, NewestIsThere
  <1>3. QED
    BY <1>1, <1>2 DEF InHand

(* A step of a run leaves the other runs alone.                            *)
ExecStep(x) == RunStep(x) \/ VerbThrows(x) \/ EventErrors(x) \/ Crash(x)
ExecOthers(x) == \A y \in Executors \ {x} : xphase'[y] = xphase[y] /\ page'[y] = page[y]

(* Nor does it touch the queue, and what a fault left is left.             *)
LEMMA RunKeepsLog ==
    ASSUME NEW x \in Executors, ExecStep(x)
    PROVE  log' = log /\ \A e \in stranded : e \in stranded'
  BY DEF ExecStep, RunStep, Poll, SkipForeign, Claim, RunVerb,
     AppendResult, AppendFailureNote, Finalize, MarkFailed, EndRun,
     VerbThrows, EventErrors, Crash, LetGo

(* A step of a run keeps the types and leaves the other runs alone.        *)
LEMMA ExecFrame ==
    ASSUME ExecTypes, NEW x \in Executors, ExecStep(x)
    PROVE  ExecOthers(x) /\ ExecTypes'
  <1>0. /\ log' = log /\ log \in Seq(Commands)
        /\ page \in [Executors -> SUBSET (1 .. Len(log))]
        /\ page[x] # {} => InHand(x) \in Commands
    BY RunKeepsLog, HandIsCommand DEF ExecTypes, ExecutorTypeOK
  <1> USE <1>0 DEF ExecTypes, ExecOthers, Working, ExecutorTypeOK, RequestStatuses, XPhases,
                   Goto
  <1>1. CASE Poll(x)
    <2>1. QueuedPage \subseteq 1 .. Len(log)
      BY DEF QueuedPage, FirstBatch
    <2>2. QED
      BY <1>1, <2>1 DEF Poll
  <1>2. ASSUME Next1(x)
        PROVE  /\ page' \in [Executors -> SUBSET (1 .. Len(log))]
               /\ xphase' \in [Executors -> XPhases] /\ xphase'[x] = "scanning"
               /\ \A y \in Executors \ {x} : xphase'[y] = xphase[y] /\ page'[y] = page[y]
    BY <1>2 DEF Next1
  <1>3. CASE SkipForeign(x) \/ EventErrors(x)
    <2>1. /\ UNCHANGED <<request, runs, results, notes>> /\ Next1(x)
          /\ stops' \in Nat /\ stranded' \subseteq Commands
      BY <1>3 DEF SkipForeign, EventErrors, Fault, LetGo
    <2>2. QED
      BY <1>2, <2>1
  <1>4. CASE EndRun(x) \/ Crash(x)
    <2>1. /\ page' \in [Executors -> SUBSET (1 .. Len(log))]
          /\ xphase' \in [Executors -> XPhases] /\ xphase'[x] = "idle"
          /\ \A y \in Executors \ {x} : xphase'[y] = xphase[y] /\ page'[y] = page[y]
      <3>1. CASE EndRun(x)
        BY <3>1 DEF EndRun
      <3>2. CASE Crash(x)
        BY <3>2 DEF Crash
      <3>3. QED
        BY <1>4, <3>1, <3>2
    <2>2. /\ UNCHANGED <<request, runs, results, notes>> /\ stops' \in Nat
          /\ stranded' \subseteq Commands
      BY <1>4 DEF EndRun, Crash, Fault, LetGo
    <2>3. QED
      BY <2>1, <2>2
  <1>5. CASE Claim(x)
    <2>1. CASE ClaimGuard(InHand(x))
      BY <1>5, <2>1 DEF Claim, Scanning
    <2>2. CASE ~ClaimGuard(InHand(x))
      BY <1>2, <1>5, <2>2 DEF Claim
    <2>3. QED
      BY <2>1, <2>2
  <1>6. CASE RunVerb(x) \/ VerbThrows(x)
    <2>1. page[x] # {} /\ runs' = [runs EXCEPT ![InHand(x)] = @ + 1]
      BY <1>6 DEF RunVerb, VerbThrows
    <2>2. runs' \in [Commands -> Nat]
      BY <2>1
    <2>3. /\ xphase' \in [Executors -> XPhases]
          /\ \A y \in Executors \ {x} : xphase'[y] = xphase[y]
          /\ UNCHANGED <<request, results, notes, page, stranded, stops>>
      <3>1. CASE RunVerb(x)
        BY <3>1 DEF RunVerb
      <3>2. CASE VerbThrows(x)
        BY <3>2 DEF VerbThrows
      <3>3. QED
        BY <1>6, <3>1, <3>2
    <2>4. \A y \in Executors : xphase'[y] \in Working => page'[y] # {}
      BY <2>1, <2>3
    <2>5. ExecutorTypeOK'
      BY <2>2, <2>3
    <2>6. ExecOthers(x)
      BY <2>3
    <2>7. QED
      BY <2>4, <2>5, <2>6
  <1>7. CASE AppendResult(x)
    BY <1>7 DEF AppendResult
  <1>10. CASE AppendFailureNote(x)
    BY <1>10 DEF AppendFailureNote
  <1>8. CASE Finalize(x) \/ MarkFailed(x)
    BY <1>2, <1>8 DEF Finalize, MarkFailed, MoveFromRunning, GuardedMove
  <1>9. QED
    BY <1>1, <1>3, <1>4, <1>5, <1>6, <1>7, <1>8, <1>10 DEF ExecStep, RunStep

(* Every step of a run keeps the claims exclusive.                         *)
LEMMA ExecHolds ==
    ASSUME ExecTypes, ClaimInv, NEW x \in Executors, ExecStep(x)
    PROVE  ClaimInv'
  <1>0. ExecOthers(x) /\ ExecTypes' /\ log' = log /\ \A e \in stranded : e \in stranded'
    BY ExecFrame, RunKeepsLog
  <1>1. \A y \in Executors \ {x}, e \in Commands :
            (Holds(y, e)' <=> Holds(y, e)) /\ xphase'[y] = xphase[y]
    BY <1>0 DEF ExecOthers, Holds, InHand
  <1>2. ASSUME UNCHANGED <<request, runs, results, notes>>, \A e \in Commands : ~Holds(x, e)',
               \A e \in Commands : Holds(x, e) => e \in stranded'
        PROVE  ClaimInv'
    BY <1>0, <1>1, <1>2 DEF ClaimInv
  <1>3. CASE Poll(x) \/ SkipForeign(x) \/ EndRun(x) \/ EventErrors(x)
             \/ Crash(x)
    <2>1. xphase'[x] \in {"idle", "scanning"} /\ UNCHANGED <<request, runs, results, notes>>
      BY <1>3 DEF Poll, SkipForeign, EndRun, EventErrors, Crash,
         Goto, Next1, ExecTypes, ExecutorTypeOK
    <2>2. \A e \in Commands : Holds(x, e) => e \in stranded'
      BY <1>3 DEF Poll, SkipForeign, EndRun, EventErrors, Crash, LetGo,
         Scanning, Holds, Working
    <2>3. QED
      BY <1>2, <2>1, <2>2 DEF Holds, Working
  <1>4. CASE Claim(x)
    <2>1. CASE ~ClaimGuard(InHand(x))
      <3>1. xphase'[x] = "scanning" /\ UNCHANGED <<request, runs, results, notes>>
        BY <1>4, <2>1 DEF Claim, Goto, Next1, ExecTypes, ExecutorTypeOK
      <3>2. xphase[x] = "scanning"
        BY <1>4 DEF Claim, Scanning
      <3>3. QED
        BY <1>2, <3>1, <3>2 DEF Holds, Working
    <2>2. CASE ClaimGuard(InHand(x))
      <3>1. PICK h : h = InHand(x)
        OBVIOUS
      <3>2. /\ request' = [request EXCEPT ![h] = "running"] /\ request[h] = "queued"
            /\ xphase'[x] \in {"claimed", "noting"} /\ page' = page
            /\ UNCHANGED <<runs, results, notes>> /\ InHand(x)' = h
        BY <1>4, <2>2, <3>1 DEF Claim, ClaimGuard, StillQueued, Goto,
           InHand, ExecTypes, ExecutorTypeOK
      <3>3. \A e \in Commands : Holds(x, e)' <=> e = h
        BY <3>2 DEF Holds, Working
      <3>7. \A e \in Commands : ~Holds(x, e)
        BY <1>4 DEF Claim, Scanning, Holds, Working
      <3>4. \A e \in Commands : request'[e] = IF e = h THEN "running" ELSE request[e]
        BY <3>2 DEF ExecTypes, ExecutorTypeOK
      <3>5. h \in Commands => runs[h] = 0 /\ \A y \in Executors : ~Holds(y, h)
        BY <3>2 DEF ClaimInv
      <3>6. QED
        BY <1>0, <1>1, <3>2, <3>3, <3>4, <3>5, <3>7 DEF ClaimInv
    <2>3. QED
      BY <2>1, <2>2
  <1>5. ASSUME NEW h, h = InHand(x), InHand(x)' = h, request' = request,
               xphase[x] \in {"claimed", "appending", "noting"},
               xphase'[x] \in {"appending", "finalizing", "noting", "failing"},
               xphase'[x] = "finalizing" => xphase[x] = "appending",
               xphase'[x] = "finalizing" => results' = results \union {h},
               xphase'[x] = "failing" => notes' = notes \union {h},
               \A e \in results : e \in results', \A e \in notes : e \in notes',
               \/ runs' = runs /\ xphase[x] # "claimed" /\ xphase'[x] # "appending"
               \/ xphase[x] = "claimed" /\ runs' = [runs EXCEPT ![h] = @ + 1]
        PROVE  ClaimInv'
    <2>1. \A e \in Commands : Holds(x, e) <=> e = h
      BY <1>5 DEF Holds, Working
    <2>2. \A e \in Commands : Holds(x, e)' <=> e = h
      BY <1>5 DEF Holds, Working
    <2>3. ASSUME NEW e \in Commands
          PROVE  \/ /\ runs'[e] = runs[e]
                    /\ e = h => xphase[x] # "claimed" /\ xphase'[x] # "appending"
                 \/ e = h /\ xphase[x] = "claimed" /\ runs[e] = 0 /\ runs'[e] = 1
      BY <1>5, <2>1 DEF ClaimInv, ExecTypes, ExecutorTypeOK
    <2>4. QED
      BY <1>0, <1>1, <1>5, <2>1, <2>2, <2>3 DEF ClaimInv
  <1>6. CASE RunVerb(x) \/ VerbThrows(x)
    BY <1>5, <1>6 DEF RunVerb, VerbThrows, Goto, InHand, ExecTypes, ExecutorTypeOK
  <1>7. CASE AppendResult(x) \/ AppendFailureNote(x)
    BY <1>5, <1>7 DEF AppendResult, AppendFailureNote, Goto, InHand, ExecTypes,
       ExecutorTypeOK
  <1>8. CASE Finalize(x) \/ MarkFailed(x)
    <2>0. PICK h : h = InHand(x)
      OBVIOUS
    <2>1. PICK s \in {"completed", "failed"} :
            /\ xphase'[x] = "scanning" /\ UNCHANGED <<runs, results, notes>>
            /\ request' = [request EXCEPT ![h] = IF @ = "running" THEN s ELSE @]
            /\ s = "completed" => xphase[x] = "finalizing"
            /\ s = "failed" => xphase[x] = "failing"
      <3>1. CASE Finalize(x)
        BY <2>0, <3>1 DEF Finalize, MayFinalize, AfterAppend, MoveFromRunning,
           GuardedMove, Next1, Goto, ExecTypes, ExecutorTypeOK
      <3>2. CASE MarkFailed(x)
        BY <2>0, <3>2 DEF MarkFailed, MoveFromRunning, GuardedMove, Next1,
           Goto, ExecTypes, ExecutorTypeOK
      <3>3. QED
        BY <1>8, <3>1, <3>2
    <2>2. \A e \in Commands : ~Holds(x, e)'
      BY <2>1 DEF Holds, Working
    <2>3. \A e \in Commands : Holds(x, e) <=> e = h
      BY <2>0, <2>1 DEF Holds, Working
    <2>4. \A e \in Commands : request'[e] = IF e = h THEN s ELSE request[e]
      BY <2>1, <2>3 DEF ClaimInv, ExecTypes, ExecutorTypeOK
    <2>5. QED
      BY <1>0, <1>1, <2>1, <2>2, <2>3, <2>4 DEF ClaimInv
  <1>9. QED
    BY <1>3, <1>4, <1>6, <1>7, <1>8 DEF ExecStep, RunStep

(* A new command goes behind the pages that are being worked on.           *)
LEMMA EnqueueHolds ==
    ASSUME ExecTypes, ClaimInv, NEW e \in Commands, Enqueue(e)
    PROVE  ExecTypes' /\ ClaimInv'
  <1>1. /\ log \in Seq(Commands) /\ log' = Append(log, e) /\ Len(log) \in Nat
        /\ UNCHANGED <<runs, results, notes, xphase, page, stranded, stops>>
        /\ request[e] = "absent" /\ request' = [request EXCEPT ![e] = "queued"]
    BY DEF Enqueue, ExecTypes, ExecutorTypeOK
  <1>2. /\ log' \in Seq(Commands) /\ Len(log') = Len(log) + 1
        /\ \A i \in 1 .. Len(log) : log'[i] = log[i]
    BY <1>1
  <1>3. ExecTypes'
    <2>1. page' \in [Executors -> SUBSET (1 .. Len(log'))]
      BY <1>1, <1>2 DEF ExecTypes, ExecutorTypeOK
    <2>2. request' \in [Commands -> RequestStatuses]
      BY <1>1 DEF ExecTypes, ExecutorTypeOK, RequestStatuses
    <2>3. QED
      BY <1>1, <1>2, <2>1, <2>2 DEF ExecTypes, ExecutorTypeOK
  <1>4. ASSUME NEW x \in Executors, NEW f \in Commands PROVE Holds(x, f)' <=> Holds(x, f)
    <2>1. CASE page[x] = {}
      BY <1>1, <2>1 DEF Holds, ExecTypes
    <2>2. CASE page[x] # {}
      <3>1. InHand(x)' = InHand(x)
        BY <1>1, <1>2, <2>2, HandIsCommand DEF InHand
      <3>2. QED
        BY <1>1, <3>1 DEF Holds
    <2>3. QED
      BY <2>1, <2>2
  <1>5. \A f \in Commands : request'[f] = IF f = e THEN "queued" ELSE request[f]
    BY <1>1 DEF ExecTypes, ExecutorTypeOK
  <1>6. QED
    BY <1>1, <1>3, <1>4, <1>5 DEF ClaimInv

(* Claims exclude each other in every state of the executor.               *)
LEMMA ClaimsHold == ExecutorSpec => [](ExecTypes /\ ClaimInv)
  <1>1. ExecutorInit => ExecTypes /\ ClaimInv
    BY DEF ExecutorInit, ExecTypes, ClaimInv, Holds, Working, ExecutorTypeOK,
           RequestStatuses, XPhases
  <1>2. ASSUME ExecTypes, ClaimInv, [ExecutorNext]_executorVars PROVE ExecTypes' /\ ClaimInv'
    <2>1. CASE UNCHANGED executorVars
      BY <1>2, <2>1 DEF executorVars, ExecTypes, ExecutorTypeOK, ClaimInv, Holds, InHand
    <2>2. QED
      BY <1>2, <2>1, EnqueueHolds, ExecFrame, ExecHolds DEF ExecutorNext, ExecStep
  <1>3. QED
    BY <1>1, <1>2, PTL DEF ExecutorSpec

(* Every variable of the executor keeps its type: a run that works on a    *)
(* command has a row in hand, and that row is one of the queue's.          *)
THEOREM ExecutorTypeCorrect == ExecutorSpec => []ExecutorTypeOK
  <1>1. ExecTypes => ExecutorTypeOK
    BY DEF ExecTypes
  <1>2. QED
    BY <1>1, ClaimsHold, PTL

(* RUN-EXACTLY-ONCE, the safety half, for any number of overlapping runs   *)
(* of the executor, any page size and any faults: the guarded claim        *)
(* queued -> running lets one run at most past it.                         *)
THEOREM VerbsRunAtMostOnce == ExecutorSpec => []VerbRunsAtMostOnce
  <1>1. ClaimInv => VerbRunsAtMostOnce
    BY DEF ClaimInv, VerbRunsAtMostOnce
  <1>2. QED
    BY <1>1, ClaimsHold, PTL

(* A completed command has its result and a failed one its note, whatever  *)
(* statement rejected on the way.                                          *)
THEOREM EndsAreExplained == ExecutorSpec => []TerminalIsExplained
  <1>1. ClaimInv => TerminalIsExplained
    BY DEF ClaimInv, TerminalIsExplained
  <1>2. QED
    BY <1>1, ClaimsHold, PTL

(* A completed command's verb ran, once; and each running command that no  *)
(* fault has stranded is held by a run, and by one only.                   *)
CompletedRanOnce == \A e \in Commands : request[e] = "completed" => runs[e] = 1
RunningIsHeld ==
    \A e \in Commands :
        /\ request[e] = "running" => e \in stranded \/ \E x \in Executors : Holds(x, e)
        /\ \A x, y \in Executors : Holds(x, e) /\ Holds(y, e) => x = y

(* Exactly once, as far as safety goes: no command is completed without    *)
(* its verb, and none is completed twice.                                  *)
THEOREM CompletedRunsExactlyOnce == ExecutorSpec => []CompletedRanOnce
  <1>1. ClaimInv => CompletedRanOnce
    BY DEF ClaimInv, CompletedRanOnce
  <1>2. QED
    BY <1>1, ClaimsHold, PTL

(* The safety half of CommandsFinish: only a rejected statement or a death *)
(* of the very run that holds it strands a command in running; otherwise   *)
(* the run that claimed it is still on its way with it.                    *)
THEOREM RunningCommandsAreHeld == ExecutorSpec => []RunningIsHeld
  <1>1. ExecTypes /\ ClaimInv => RunningIsHeld
    BY DEF ClaimInv, RunningIsHeld, ExecTypes, ExecutorTypeOK
  <1>2. QED
    BY <1>1, ClaimsHold, PTL
=============================================================================
