--------------------------- MODULE DigestApproval ---------------------------
(***************************************************************************)
(* Digest proposals of one workspace, from draft to sign-off and posting:  *)
(*                                                                         *)
(*   services/scheduled-digest-sweep.ts  the weekly sweep                  *)
(*   routes/workspaces.ts                the manual trigger                *)
(*   services/operations-queue-consumer.ts  the executor's digest result   *)
(*   dal/governance-store.ts             createSignOffRow                  *)
(*   routes/sign-offs.ts                 sign-off, then the post step      *)
(*   services/agent-digest.ts            postApprovedDigest                *)
(*   dal/event-store.ts                  upsert, archive, restore          *)
(*                                                                         *)
(* A draft by the sweep or by hand has one id per day; a draft by the      *)
(* executor has an id of its own.  Only the sweep looks for an earlier     *)
(* proposal first, with a model call between the look and the insert.      *)
(***************************************************************************)
EXTENDS Naturals

CONSTANTS
    MaxDays,   \* bound: days that pass
    Executed,  \* ids of drafts appended by the executor
    Sweeps,    \* concurrent sweep runs
    MaxFaults  \* bound: lost post steps

ASSUME DigestBounds == MaxDays \in Nat \ {0} /\ MaxFaults \in Nat

DayIds == 1 .. MaxDays
Proposals == DayIds \union Executed

VARIABLES
    day,       \* today
    status,    \* status of each proposal event
    approval,  \* its approval_state
    archived,  \* archived_at is set
    sphase,    \* where each sweep run is
    post,      \* where the post step of each approved proposal is
    receipts,  \* proposals with a posted-receipt event
    faults

rows == <<status, approval, archived>>
vars == <<day, rows, sphase, post, receipts, faults>>

Statuses == {"absent", "needs_review", "completed"}
Approvals == {"null", "pending", "approved", "rejected"}
PostPhases == {"none", "reading", "claiming", "receipting", "done"}

Init ==
    /\ day = 1
    /\ status = [p \in Proposals |-> "absent"]
    /\ approval = [p \in Proposals |-> "null"]
    /\ archived = [p \in Proposals |-> FALSE]
    /\ sphase = [s \in Sweeps |-> "idle"]
    /\ post = [p \in Proposals |-> "none"]
    /\ receipts = {}
    /\ faults = 0

NextDay ==
    /\ day < MaxDays
    /\ day' = day + 1
    /\ UNCHANGED <<rows, sphase, post, receipts, faults>>

-----------------------------------------------------------------------------
(* upsertEvent: insert if the id is absent. *)
Upsert(p) ==
    IF status[p] = "absent"
    THEN /\ status' = [status EXCEPT ![p] = "needs_review"]
         /\ approval' = [approval EXCEPT ![p] = "pending"]
         /\ UNCHANGED archived
    ELSE UNCHANGED rows

(* What the sweep's scan finds: status = 'needs_review', not archived. *)
AwaitingScan == {p \in Proposals : status[p] = "needs_review" /\ ~archived[p]}

(* A scan that finds a proposal ends the sweep of this workspace. *)
SweepSkips(s) ==
    /\ sphase[s] = "idle"
    /\ AwaitingScan # {}
    /\ sphase' = [sphase EXCEPT ![s] = "skipped"]
    /\ UNCHANGED <<day, rows, post, receipts, faults>>

SweepScans(s) ==
    /\ sphase[s] = "idle"
    /\ AwaitingScan = {}
    /\ sphase' = [sphase EXCEPT ![s] = "drafting"]
    /\ UNCHANGED <<day, rows, post, receipts, faults>>

SweepDrafts(s) ==
    /\ sphase[s] = "drafting"
    /\ Upsert(day)
    /\ sphase' = [sphase EXCEPT ![s] = "idle"]
    /\ UNCHANGED <<day, post, receipts, faults>>

SweepEnds(s) ==
    /\ sphase[s] = "skipped"
    /\ sphase' = [sphase EXCEPT ![s] = "idle"]
    /\ UNCHANGED <<day, rows, post, receipts, faults>>

(* POST /workspaces/:id/agent/digest *)
ManualDraft ==
    /\ Upsert(day)
    /\ UNCHANGED <<day, sphase, post, receipts, faults>>

(* The executor appends the result of an execute:digest command. *)
ExecutorDraft(p) ==
    /\ p \in Executed
    /\ Upsert(p)
    /\ UNCHANGED <<day, sphase, post, receipts, faults>>

-----------------------------------------------------------------------------
OnlyPending(p) == approval[p] = "pending"
AnyProposal(p) == status[p] # "absent"
(* The WHERE clause of the sign-off statement's target update. *)
SignOffOpen(p) == OnlyPending(p)

NullIfNoted(verdict) == IF verdict = "noted" THEN "null" ELSE verdict
(* The approval_state a verdict writes. *)
ApprovalFor(verdict) == NullIfNoted(verdict)

(* createSignOffRow; a 'noted' verdict writes NULL.  The route then starts *)
(* the post step for an approval, and for nothing else.                    *)
SignOff(p, verdict) ==
    /\ SignOffOpen(p)
    /\ approval' = [approval EXCEPT ![p] = ApprovalFor(verdict)]
    /\ post' = [post EXCEPT ![p] = IF verdict = "approved" THEN "reading" ELSE @]
    /\ UNCHANGED <<day, status, archived, sphase, receipts, faults>>

(* postApprovedDigest: getEvent and its early return ...                   *)
PostReads(p) ==
    /\ post[p] = "reading"
    /\ post' = [post EXCEPT ![p] =
                  IF status[p] = "needs_review" THEN "claiming" ELSE "done"]
    /\ UNCHANGED <<day, rows, sphase, receipts, faults>>

(* ... the atomic claim needs_review -> completed ...                      *)
PostClaims(p) ==
    /\ post[p] = "claiming"
    /\ IF status[p] = "needs_review"
       THEN /\ status' = [status EXCEPT ![p] = "completed"]
            /\ post' = [post EXCEPT ![p] = "receipting"]
       ELSE /\ UNCHANGED status
            /\ post' = [post EXCEPT ![p] = "done"]
    /\ UNCHANGED <<day, approval, archived, sphase, receipts, faults>>

WriteReceipt(p) == receipts' = receipts \union {p}
SkipReceipt(p) == UNCHANGED receipts
AppendReceipt(p) == WriteReceipt(p)

(* ... and the appended receipt (the email after it is best effort).       *)
PostReceipt(p) ==
    /\ post[p] = "receipting"
    /\ AppendReceipt(p)
    /\ post' = [post EXCEPT ![p] = "done"]
    /\ UNCHANGED <<day, rows, sphase, faults>>

(* A statement of the post step rejects, which it swallows, or the isolate *)
(* dies: the step is not resumed.                                          *)
PostLost(p) ==
    /\ faults < MaxFaults /\ faults' = faults + 1
    /\ post[p] \in {"reading", "claiming", "receipting"}
    /\ post' = [post EXCEPT ![p] = "done"]
    /\ UNCHANGED <<day, rows, sphase, receipts>>

-----------------------------------------------------------------------------
(* The operator archives an event and may restore it. *)
Archive(p) ==
    /\ status[p] # "absent" /\ ~archived[p]
    /\ archived' = [archived EXCEPT ![p] = TRUE]
    /\ UNCHANGED <<day, status, approval, sphase, post, receipts, faults>>

Restore(p) ==
    /\ archived[p]
    /\ archived' = [archived EXCEPT ![p] = FALSE]
    /\ UNCHANGED <<day, status, approval, sphase, post, receipts, faults>>

-----------------------------------------------------------------------------
PostStep(p) == PostReads(p) \/ PostClaims(p) \/ PostReceipt(p)

Next ==
    \/ NextDay
    \/ ManualDraft
    \/ \E s \in Sweeps :
          SweepSkips(s) \/ SweepScans(s) \/ SweepDrafts(s) \/ SweepEnds(s)
    \/ \E p \in Proposals :
          \/ ExecutorDraft(p) \/ PostStep(p) \/ PostLost(p)
          \/ Archive(p) \/ Restore(p)
          \/ \E v \in {"approved", "rejected", "noted"} : SignOff(p, v)

Spec == Init /\ [][Next]_vars

(* The post step is awaited by the sign-off request: it runs to its end. *)
FairSpec == Spec /\ \A p \in Proposals : WF_vars(PostStep(p))

-----------------------------------------------------------------------------
(* Every variable has its type. *)
TypeOK ==
    /\ day \in DayIds
    /\ status \in [Proposals -> Statuses]
    /\ approval \in [Proposals -> Approvals]
    /\ archived \in [Proposals -> BOOLEAN]
    /\ sphase \in [Sweeps -> {"idle", "skipped", "drafting"}]
    /\ post \in [Proposals -> PostPhases]
    /\ receipts \subseteq Proposals
    /\ faults \in Nat

(* Nothing an agent drafts reaches the official record without a human     *)
(* approval that still stands: a posted proposal is approved, and so is    *)
(* one whose status was closed by the post step.                           *)
PostedWasApproved ==
    \A p \in Proposals :
        p \in receipts \/ status[p] = "completed" => approval[p] = "approved"

(* A decision is final: no second sign-off, of whatever verdict, changes   *)
(* an approved or a rejected proposal.                                     *)
DecisionIsFinal ==
    [][\A p \in Proposals :
         approval[p] \in {"approved", "rejected"} => approval'[p] = approval[p]]_vars

(* An approved digest is posted, unless a post step is lost.               *)
ApprovedIsPosted ==
    \A p \in Proposals : approval[p] = "approved" ~> p \in receipts \/ faults > 0
=============================================================================
