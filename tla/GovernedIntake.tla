--------------------------- MODULE GovernedIntake ---------------------------
(***************************************************************************)
(* Governed intake in one workspace: a resolution previews one effect, and *)
(* executing it claims the resolution, applies the effect and writes the   *)
(* receipt and its outbox row in one SQL statement.                        *)
(*                                                                         *)
(*   dal/intake-store.ts             resolve, execute, replay              *)
(*   routes/intake.ts                the two routes                        *)
(*   lib/intake-resolution.ts        what a resolution previews            *)
(*   dal/operational-spine-store.ts  the packets and approvals it acts on, *)
(*                                   which other routes change too         *)
(*                                                                         *)
(* The statement runs under READ COMMITTED (withWorkspaceRlsContext).  Its *)
(* sub-selects see the snapshot taken when it starts, while a row it       *)
(* updates is locked and its own WHERE clause is evaluated again if the    *)
(* row changed since.  So a statement is two steps here: Begin takes the   *)
(* snapshot and Execute claims, writes and commits.                        *)
(***************************************************************************)
EXTENDS Naturals, FiniteSets

CONSTANTS
    Packets,      \* ids of task packets
    Approvals,    \* ids of approval requests
    Resolutions,  \* ids of intake resolutions
    Attempts,     \* calls of the execute route
    Clients,      \* client_request_ids those calls carry
    NoClient,     \* no receipt yet
    Verdicts      \* what a decision may be: approved, rejected, cancelled

ASSUME ClientAssumption == NoClient \notin Clients
ASSUME VerdictsAssumption == Verdicts \subseteq {"approved", "rejected", "cancelled"}

VARIABLES
    pkt,       \* pkt[p]: version (0 before it exists) and lifecycle
    apr,       \* apr[a]: status and the packet version it is about, if any
    res,       \* res[r]: the resolution row
    expired,   \* resolutions past expires_at
    receipt,   \* receipt[r]: client_request_id of the receipt for r
    effects,   \* effects[r]: effects applied for r
    attempt    \* attempt[x]: stage, resolution, client id and snapshot

vars == <<pkt, apr, res, expired, receipt, effects, attempt>>
spine == <<pkt, apr>>

NoPacket == [version |-> 0, state |-> "absent"]
(* max(version) over the packets that are not archived. *)
WorkVersion(ps) ==
    LET live == {p \in Packets : ps[p].state \in {"open", "closed"}}
    IN  IF live = {} THEN 0
        ELSE CHOOSE v \in {ps[p].version : p \in live} :
                 \A p \in live : ps[p].version <= v

Init ==
    /\ pkt = [p \in Packets |-> NoPacket]
    /\ apr = [a \in Approvals |-> [status |-> "absent"]]
    /\ res = [r \in Resolutions |-> [status |-> "absent"]]
    /\ expired = {}
    /\ receipt = [r \in Resolutions |-> NoClient]
    /\ effects = [r \in Resolutions |-> 0]
    /\ attempt = [x \in Attempts |-> [stage |-> "idle"]]

-----------------------------------------------------------------------------
(* The operational spine, driven by other routes.                          *)

(* "open" stands for the lifecycle states in which work can be continued,  *)
(* "closed" for approved, rejected and completed.                          *)
CreatePacket(p) ==
    /\ pkt[p].state = "absent"
    /\ \E s \in {"open", "closed"} :
         pkt' = [pkt EXCEPT ![p] = [version |-> 1, state |-> s]]
    /\ UNCHANGED <<apr, res, expired, receipt, effects, attempt>>

(* A lifecycle deletion archives a packet, given an approved request. *)
ArchivePacket(p) ==
    /\ pkt[p].state \in {"open", "closed"}
    /\ \E a \in Approvals : apr[a].status = "approved"
    /\ pkt' = [pkt EXCEPT ![p].state = "archived"]
    /\ UNCHANGED <<apr, res, expired, receipt, effects, attempt>>

(* createApprovalRequestRow records the packet version it is about, or     *)
(* none.                                                                   *)
RequestApproval(a) ==
    /\ apr[a].status = "absent"
    /\ \E about \in {{}} \union {{[packet |-> p, version |-> pkt[p].version]} :
                                  p \in {q \in Packets : pkt[q].state # "absent"}} :
         apr' = [apr EXCEPT ![a] = [status |-> "requested", about |-> about]]
    /\ UNCHANGED <<pkt, res, expired, receipt, effects, attempt>>

StillRequested(a) == apr[a].status = "requested"
AnyRequest(a) == apr[a].status # "absent"
(* The status guard of both decision statements, on the locked row. *)
DecisionOpen(a) == StillRequested(a)

DecideApproval(a, verdict) ==
    /\ DecisionOpen(a)
    /\ apr' = [apr EXCEPT ![a].status = verdict]
    /\ UNCHANGED <<pkt, res, expired, receipt, effects, attempt>>

-----------------------------------------------------------------------------
(* buildIntakeResolution: the previewed effect and the versions it was     *)
(* previewed against, from the inventory read by the route.                *)
Preview ==
    {[op |-> "create_work"]}
    \union {[op |-> "continue_work", packet |-> p, version |-> pkt[p].version] :
              p \in {q \in Packets : pkt[q].state = "open"}}
    \union {[op |-> "decide", approval |-> a, verdict |-> v] :
              a \in {b \in Approvals : apr[b].status = "requested"}, v \in Verdicts}

Resolve(r) ==
    /\ res[r].status = "absent"
    /\ \E e \in Preview :
         res' = [res EXCEPT ![r] = [status |-> "pending", action |-> e,
                                    work |-> WorkVersion(pkt)]]
    /\ UNCHANGED <<spine, expired, receipt, effects, attempt>>

Expire(r) ==
    /\ res[r].status = "pending" /\ r \notin expired
    /\ expired' = expired \union {r}
    /\ UNCHANGED <<spine, res, receipt, effects, attempt>>

-----------------------------------------------------------------------------
(* executeIntakeResolutionRow.                                             *)

(* The statement starts: its snapshot. *)
Begin(x, r, k) ==
    /\ attempt[x].stage = "idle"
    /\ res[r].status # "absent"
    /\ attempt' = [attempt EXCEPT ![x] =
         [stage |-> "begun", res |-> r, client |-> k, pkt |-> pkt, apr |-> apr,
          open |-> res[r].status = "pending" /\ r \notin expired]]
    /\ UNCHANGED <<spine, res, expired, receipt, effects>>

(* The preconditions of the claim that read other tables. *)
SnapshotAllows(s, e, work) ==
    /\ work = WorkVersion(s.pkt)
    /\ CASE e.op = "create_work" -> TRUE
         [] e.op = "continue_work" ->
              s.pkt[e.packet] = [version |-> e.version, state |-> "open"]
         [] e.op = "decide" ->
              /\ s.apr[e.approval].status = "requested"
              /\ \A t \in s.apr[e.approval].about : t.version = s.pkt[t.packet].version

(* What the claim puts in the status column. *)
ClaimedStatus == "consumed"

RowPending(r) == res[r].status = "pending"
RowPresent(r) == res[r].status # "absent"
(* The part of the claim re-evaluated on the locked resolution row. *)
ClaimGuard(r) == RowPending(r)

Claims(x) ==
    LET s == attempt[x]
    IN  /\ s.open
        /\ ClaimGuard(s.res)
        /\ SnapshotAllows(s, res[s.res].action, res[s.res].work)

SameVersion(e) == pkt[e.packet] = [version |-> e.version, state |-> "open"]
StillOpen(e) == pkt[e.packet].state = "open"
(* The WHERE clause of the packet update, re-evaluated on the locked row. *)
ContinueGuard(e) == SameVersion(e)

(* The effect, when its target row still qualifies. *)
Apply(e) ==
    \/ /\ e.op = "create_work"
       /\ \E p \in Packets :
            /\ pkt[p].state = "absent"
            /\ pkt' = [pkt EXCEPT ![p] = [version |-> 1, state |-> "open"]]
       /\ UNCHANGED apr
    \/ /\ e.op = "continue_work"
       /\ ContinueGuard(e)
       /\ pkt' = [pkt EXCEPT ![e.packet].version = @ + 1]
       /\ UNCHANGED apr
    \/ /\ e.op = "decide"
       /\ DecisionOpen(e.approval)
       /\ apr' = [apr EXCEPT ![e.approval].status = e.verdict]
       /\ UNCHANGED pkt

(* Claimed, applied and recorded: the receipt and its outbox row. *)
ExecuteApplies(x) ==
    LET r == attempt[x].res IN
    /\ attempt[x].stage = "begun"
    /\ Claims(x)
    /\ Apply(res[r].action)
    /\ res' = [res EXCEPT ![r].status = ClaimedStatus]
    /\ receipt' = [receipt EXCEPT ![r] = attempt[x].client]
    /\ effects' = [effects EXCEPT ![r] = @ + 1]
    /\ attempt' = [attempt EXCEPT ![x] =
                     [stage |-> "executed", res |-> r, client |-> @.client]]
    /\ UNCHANGED expired

(* Claimed, but the target row changed after the snapshot: the data-       *)
(* modifying part for it updates no row, and nothing undoes the claim.     *)
ExecuteMisses(x) ==
    LET r == attempt[x].res
        e == res[r].action
    IN
    /\ attempt[x].stage = "begun"
    /\ Claims(x)
    /\ \/ e.op = "continue_work" /\ ~ContinueGuard(e)
       \/ e.op = "decide" /\ ~DecisionOpen(e.approval)
    /\ res' = [res EXCEPT ![r].status = ClaimedStatus]
    /\ attempt' = [attempt EXCEPT ![x] =
                     [stage |-> "explaining", res |-> r, client |-> @.client]]
    /\ UNCHANGED <<spine, expired, receipt, effects>>

(* No claim. *)
ExecuteRefused(x) ==
    /\ attempt[x].stage = "begun"
    /\ ~Claims(x)
    /\ attempt' = [attempt EXCEPT ![x] =
                     [stage |-> "explaining", res |-> @.res, client |-> @.client]]
    /\ UNCHANGED <<spine, res, expired, receipt, effects>>

SameClient(x) == receipt[attempt[x].res] = attempt[x].client
AnyReceipt(x) == receipt[attempt[x].res] # NoClient
(* A receipt replays only for the client_request_id that it records. *)
ReplayGuard(x) == SameClient(x)

(* The read that turns an empty result into a replay or a refusal. *)
Explain(x) ==
    /\ attempt[x].stage = "explaining"
    /\ attempt' = [attempt EXCEPT ![x].stage =
                     IF ReplayGuard(x) THEN "replayed" ELSE "refused"]
    /\ UNCHANGED <<spine, res, expired, receipt, effects>>

-----------------------------------------------------------------------------
Next ==
    \/ \E p \in Packets : CreatePacket(p) \/ ArchivePacket(p)
    \/ \E a \in Approvals : RequestApproval(a) \/ \E v \in Verdicts : DecideApproval(a, v)
    \/ \E r \in Resolutions : Resolve(r) \/ Expire(r)
    \/ \E x \in Attempts :
          \/ \E r \in Resolutions, k \in Clients : Begin(x, r, k)
          \/ ExecuteApplies(x) \/ ExecuteMisses(x) \/ ExecuteRefused(x)
          \/ Explain(x)

Spec == Init /\ [][Next]_vars

-----------------------------------------------------------------------------
(* Every variable has its type. *)
TypeOK ==
    /\ pkt \in [Packets -> [version : Nat, state : {"absent", "open", "closed", "archived"}]]
    /\ \A a \in Approvals :
         apr[a].status \in {"absent", "requested"} \union Verdicts
    /\ \A r \in Resolutions : res[r].status \in {"absent", "pending", "consumed"}
    /\ expired \subseteq Resolutions
    /\ receipt \in [Resolutions -> Clients \union {NoClient}]
    /\ effects \in [Resolutions -> Nat]
    /\ \A x \in Attempts :
         attempt[x].stage \in {"idle", "begun", "executed", "explaining",
                               "replayed", "refused"}

(* However many calls race on one resolution, with whatever client ids, it *)
(* takes effect at most once, and exactly when a receipt says so.          *)
OneEffectPerReceipt ==
    \A r \in Resolutions :
        effects[r] = (IF receipt[r] = NoClient THEN 0 ELSE 1)

(* Two previews of the same packet version never both advance the packet:  *)
(* the loser's work is not silently stacked on top of the winner's.        *)
NoDoubleContinue ==
    \A r, s \in Resolutions :
        /\ r # s
        /\ receipt[r] # NoClient /\ receipt[s] # NoClient
        /\ res[r].action.op = "continue_work" /\ res[s].action.op = "continue_work"
        => res[r].action # res[s].action

(* A caller told that its execution succeeded, now or earlier, holds the   *)
(* receipt: it is recorded under the client id it sent.                    *)
SuccessIsReceipted ==
    \A x \in Attempts :
        attempt[x].stage \in {"executed", "replayed"} =>
            receipt[attempt[x].res] = attempt[x].client

(* A decided approval keeps its verdict, although the spine route and an   *)
(* intake execution may decide it at the same time.                        *)
DecisionsAreFinal ==
    [][\A a \in Approvals :
         apr[a].status \in Verdicts => apr'[a] = apr[a]]_vars
=============================================================================
