------------------------ MODULE GovernedIntakeProofs ------------------------
(***************************************************************************)
(* Theorems about GovernedIntake, for every set of packets, approvals,     *)
(* resolutions, calls and client ids: type correctness, one effect per     *)
(* receipt, one continuation per previewed packet version, the receipt     *)
(* behind every success, and the finality of decisions.                    *)
(***************************************************************************)
EXTENDS GovernedIntake, TLAPS

(* The effects a resolution may preview.                                   *)
Effects ==
    [op : {"create_work"}]
    \union [op : {"continue_work"}, packet : Packets, version : Nat]
    \union [op : {"decide"}, approval : Approvals, verdict : Verdicts]

(* A row of intake_resolutions: what it previews stays in it.              *)
ResolutionRow(z) ==
    /\ "status" \in DOMAIN z
    /\ z.status \in {"absent", "pending", "consumed"}
    /\ z.status # "absent" => "action" \in DOMAIN z /\ z.action \in Effects

ApprovalRow(z) ==
    /\ "status" \in DOMAIN z
    /\ z.status \in {"absent", "requested"} \union Verdicts

(* A call that has begun names a resolution that exists.                   *)
AttemptRow(z) ==
    /\ "stage" \in DOMAIN z
    /\ z.stage \in {"idle", "begun", "executed", "explaining", "replayed", "refused"}
    /\ z.stage # "idle" => /\ {"res", "client"} \subseteq DOMAIN z
                           /\ z.res \in Resolutions /\ z.client \in Clients
                           /\ res[z.res].status # "absent"

Shapes ==
    /\ DOMAIN apr = Approvals /\ \A a \in Approvals : ApprovalRow(apr[a])
    /\ DOMAIN res = Resolutions /\ \A r \in Resolutions : ResolutionRow(res[r])
    /\ DOMAIN attempt = Attempts /\ \A x \in Attempts : AttemptRow(attempt[x])

TypeInv == TypeOK /\ Shapes

(* Only a consumed resolution has a receipt.                               *)
Unclaimed == \A r \in Resolutions : res[r].status # "consumed" => receipt[r] = NoClient

(* A packet that does not exist has version 0, and one that a resolution   *)
(* has advanced is past the version that resolution previewed.             *)
Advanced ==
    /\ \A p \in Packets : pkt[p].state = "absent" => pkt[p].version = 0
    /\ \A r \in Resolutions :
        receipt[r] # NoClient /\ res[r].action.op = "continue_work"
            => pkt[res[r].action.packet].version > res[r].action.version

Inv ==
    /\ TypeInv
    /\ Unclaimed
    /\ Advanced
    /\ OneEffectPerReceipt
    /\ NoDoubleContinue
    /\ SuccessIsReceipted

-----------------------------------------------------------------------------
(* An effect that is applied keeps the spine's types and lets no packet    *)
(* fall back to an earlier version.                                        *)
LEMMA ApplyStep ==
    ASSUME TypeInv, NEW e \in Effects, Apply(e)
    PROVE  /\ pkt' \in [Packets -> [version : Nat, state : {"absent", "open", "closed", "archived"}]]
           /\ DOMAIN apr' = Approvals /\ \A a \in Approvals : ApprovalRow(apr'[a])
           /\ \A p \in Packets : pkt'[p].version >= pkt[p].version \/ pkt[p].state = "absent"
           /\ \A p \in Packets : pkt'[p].state = "absent" => pkt'[p] = pkt[p]
  <1> USE DEF TypeInv, TypeOK, Shapes
  <1>1. CASE e.op = "create_work"
    <2>1. UNCHANGED apr
      BY <1>1 DEF Apply
    <2>2. PICK p \in Packets : /\ pkt[p].state = "absent"
                               /\ pkt' = [pkt EXCEPT ![p] = [version |-> 1, state |-> "open"]]
      BY <1>1 DEF Apply
    <2>3. QED
      BY <2>1, <2>2
  <1>2. CASE e.op = "continue_work"
    <2>1. UNCHANGED apr
      BY <1>2 DEF Apply
    <2>2. e.packet \in Packets /\ pkt[e.packet].state = "open"
      BY <1>2 DEF Apply, Effects, ContinueGuard, SameVersion
    <2>3. pkt' = [pkt EXCEPT ![e.packet].version = @ + 1]
      BY <1>2 DEF Apply
    <2>4. QED
      BY <2>1, <2>2, <2>3
  <1>3. CASE e.op = "decide"
    <2>1. UNCHANGED pkt
      BY <1>3 DEF Apply
    <2>2. e.approval \in Approvals /\ e.verdict \in Verdicts
      BY <1>3 DEF Effects
    <2>3. apr' = [apr EXCEPT ![e.approval].status = e.verdict]
      BY <1>3 DEF Apply
    <2>4. QED
      BY <2>1, <2>2, <2>3 DEF ApprovalRow
  <1>4. QED
    BY <1>1, <1>2, <1>3 DEF Apply

(* A call that claims has begun on a pending resolution, and is alone in   *)
(* changing it.                                                            *)
LEMMA ClaimIsPending ==
    ASSUME TypeInv, NEW x \in Attempts, attempt[x].stage = "begun", Claims(x)
    PROVE  /\ attempt[x].res \in Resolutions /\ attempt[x].client \in Clients
           /\ res[attempt[x].res].status = "pending"
           /\ res[attempt[x].res].action \in Effects
  BY DEF TypeInv, Shapes, AttemptRow, ResolutionRow, Claims, ClaimGuard, RowPending

(* What any step does to the spine: types are kept, versions never fall.   *)
LEMMA SpineStep ==
    ASSUME TypeInv, [Next]_vars
    PROVE  /\ pkt' \in [Packets -> [version : Nat, state : {"absent", "open", "closed", "archived"}]]
           /\ DOMAIN apr' = Approvals /\ \A a \in Approvals : ApprovalRow(apr'[a])
           /\ \A p \in Packets : pkt'[p].version >= pkt[p].version \/ pkt[p].state = "absent"
           /\ \A p \in Packets : pkt'[p].state = "absent" => pkt'[p] = pkt[p]
  <1> USE DEF TypeInv, TypeOK, Shapes
  <1>1. ASSUME NEW p \in Packets, CreatePacket(p) \/ ArchivePacket(p)
        PROVE  /\ pkt' \in [Packets -> [version : Nat, state : {"absent", "open", "closed", "archived"}]]
               /\ \A q \in Packets : pkt'[q].version >= pkt[q].version \/ pkt[q].state = "absent"
               /\ \A q \in Packets : pkt'[q].state = "absent" => pkt'[q] = pkt[q]
               /\ UNCHANGED apr
    <2>1. CASE CreatePacket(p)
      <3>1. PICK s \in {"open", "closed"} : pkt' = [pkt EXCEPT ![p] = [version |-> 1, state |-> s]]
        BY <2>1 DEF CreatePacket
      <3>2. pkt[p].state = "absent" /\ UNCHANGED apr
        BY <2>1 DEF CreatePacket
      <3>3. QED
        BY <3>1, <3>2
    <2>2. CASE ArchivePacket(p)
      BY <2>2 DEF ArchivePacket
    <2>3. QED
      BY <1>1, <2>1, <2>2
  <1>2. ASSUME NEW a \in Approvals, RequestApproval(a)
        PROVE  UNCHANGED pkt /\ DOMAIN apr' = Approvals /\ \A b \in Approvals : ApprovalRow(apr'[b])
    <2>1. PICK about : apr' = [apr EXCEPT ![a] = [status |-> "requested", about |-> about]]
      BY <1>2 DEF RequestApproval
    <2>2. QED
      BY <1>2, <2>1 DEF RequestApproval, ApprovalRow
  <1>3. ASSUME NEW a \in Approvals, NEW v \in Verdicts, DecideApproval(a, v)
        PROVE  UNCHANGED pkt /\ DOMAIN apr' = Approvals /\ \A b \in Approvals : ApprovalRow(apr'[b])
    BY <1>3 DEF DecideApproval, ApprovalRow
  <1>4. ASSUME NEW x \in Attempts, ExecuteApplies(x)
        PROVE  res[attempt[x].res].action \in Effects /\ Apply(res[attempt[x].res].action)
    BY <1>4, ClaimIsPending DEF ExecuteApplies
  <1>5. CASE \E x \in Attempts : ExecuteApplies(x)
    BY <1>4, <1>5, ApplyStep
  <1>6. CASE \E p \in Packets : CreatePacket(p) \/ ArchivePacket(p)
    BY <1>1, <1>6
  <1>7. CASE \E a \in Approvals : RequestApproval(a) \/ \E v \in Verdicts : DecideApproval(a, v)
    BY <1>2, <1>3, <1>7
  <1>8. CASE UNCHANGED spine
    BY <1>8 DEF spine
  <1>9. QED
    BY <1>5, <1>6, <1>7, <1>8 DEF Next, vars, spine, Resolve, Expire, Begin, ExecuteMisses,
                                  ExecuteRefused, Explain

(* What a step does to the resolutions, receipts, effects and calls.       *)
LEMMA ResolveStep ==
    ASSUME TypeInv, NEW r \in Resolutions, Resolve(r)
    PROVE  /\ res[r].status = "absent"
           /\ \E z : ResolutionRow(z) /\ z.status = "pending" /\ res' = [res EXCEPT ![r] = z]
           /\ UNCHANGED <<expired, receipt, effects, attempt>>
  <1>1. PICK e \in Preview :
            res' = [res EXCEPT ![r] = [status |-> "pending", action |-> e, work |-> WorkVersion(pkt)]]
    BY DEF Resolve
  <1>2. e \in Effects
    BY DEF Preview, Effects, TypeInv, TypeOK
  <1> DEFINE z == [status |-> "pending", action |-> e, work |-> WorkVersion(pkt)]
  <1>3. ResolutionRow(z) /\ z.status = "pending"
    BY <1>2 DEF ResolutionRow
  <1> HIDE DEF z
  <1>4. QED
    BY <1>1, <1>3 DEF Resolve, z

(* Every step keeps the types of the resolutions, receipts and calls.      *)
LEMMA TypeStep == TypeInv /\ [Next]_vars => TypeInv'
  <1> SUFFICES ASSUME TypeInv, [Next]_vars PROVE TypeInv'
    OBVIOUS
  <1>0. /\ pkt' \in [Packets -> [version : Nat, state : {"absent", "open", "closed", "archived"}]]
        /\ DOMAIN apr' = Approvals /\ \A a \in Approvals : ApprovalRow(apr'[a])
        /\ \A a \in Approvals : apr'[a].status \in {"absent", "requested"} \union Verdicts
    BY SpineStep DEF ApprovalRow
  <1> DEFINE Rest == /\ expired' \subseteq Resolutions
                     /\ receipt' \in [Resolutions -> Clients \union {NoClient}]
                     /\ effects' \in [Resolutions -> Nat]
                     /\ DOMAIN res' = Resolutions /\ \A r \in Resolutions : ResolutionRow(res'[r])
                     /\ DOMAIN attempt' = Attempts
                     /\ \A x \in Attempts : AttemptRow(attempt[x])'
  <1>1. SUFFICES Rest
    BY <1>0 DEF TypeInv, TypeOK, Shapes, ApprovalRow, AttemptRow, ResolutionRow
  <1> USE DEF TypeInv, TypeOK, Shapes
  <1>2. CASE UNCHANGED <<res, expired, receipt, effects, attempt>>
    BY <1>2 DEF AttemptRow
  <1>3. ASSUME NEW r \in Resolutions, Resolve(r) PROVE Rest
    <2>1. PICK z : ResolutionRow(z) /\ z.status = "pending" /\ res' = [res EXCEPT ![r] = z]
      BY <1>3, ResolveStep
    <2>2. UNCHANGED <<expired, receipt, effects, attempt>>
      BY <1>3, ResolveStep
    <2>3. QED
      BY <2>1, <2>2 DEF AttemptRow
  <1>4. ASSUME NEW r \in Resolutions, Expire(r) PROVE Rest
    BY <1>4 DEF Expire, AttemptRow
  <1>5. ASSUME NEW x \in Attempts, NEW r \in Resolutions, NEW k \in Clients, Begin(x, r, k) PROVE Rest
    BY <1>5 DEF Begin, AttemptRow
  <1>6. ASSUME NEW x \in Attempts, ExecuteApplies(x) PROVE Rest
    <2> DEFINE r == attempt[x].res
    <2>1. r \in Resolutions /\ attempt[x].client \in Clients /\ res[r].status = "pending"
      BY <1>6, ClaimIsPending DEF ExecuteApplies
    <2>2. /\ res' = [res EXCEPT ![r].status = "consumed"]
          /\ receipt' = [receipt EXCEPT ![r] = attempt[x].client]
          /\ effects' = [effects EXCEPT ![r] = @ + 1]
          /\ attempt' = [attempt EXCEPT ![x] = [stage |-> "executed", res |-> r, client |-> @.client]]
          /\ UNCHANGED expired
      BY <1>6 DEF ExecuteApplies, ClaimedStatus
    <2>3. DOMAIN res' = Resolutions /\ \A s \in Resolutions : ResolutionRow(res'[s])
      BY <2>1, <2>2 DEF ResolutionRow
    <2>4. \A s \in Resolutions : res[s].status # "absent" => res'[s].status # "absent"
      BY <2>1, <2>2 DEF ResolutionRow
    <2>5. DOMAIN attempt' = Attempts /\ \A y \in Attempts : AttemptRow(attempt[y])'
      BY <2>1, <2>2, <2>4 DEF AttemptRow
    <2>6. QED
      BY <2>1, <2>2, <2>3, <2>5
  <1>7. ASSUME NEW x \in Attempts, ExecuteMisses(x) PROVE Rest
    <2> DEFINE r == attempt[x].res
    <2>1. r \in Resolutions /\ attempt[x].client \in Clients /\ res[r].status = "pending"
      BY <1>7, ClaimIsPending DEF ExecuteMisses
    <2>2. /\ res' = [res EXCEPT ![r].status = "consumed"]
          /\ attempt' = [attempt EXCEPT ![x] = [stage |-> "explaining", res |-> r, client |-> @.client]]
          /\ UNCHANGED <<expired, receipt, effects>>
      BY <1>7 DEF ExecuteMisses, ClaimedStatus
    <2>3. DOMAIN res' = Resolutions /\ \A s \in Resolutions : ResolutionRow(res'[s])
      BY <2>1, <2>2 DEF ResolutionRow
    <2>4. \A s \in Resolutions : res[s].status # "absent" => res'[s].status # "absent"
      BY <2>1, <2>2 DEF ResolutionRow
    <2>5. DOMAIN attempt' = Attempts /\ \A y \in Attempts : AttemptRow(attempt[y])'
      BY <2>1, <2>2, <2>4 DEF AttemptRow
    <2>6. QED
      BY <2>2, <2>3, <2>5
  <1>8. ASSUME NEW x \in Attempts, ExecuteRefused(x) PROVE Rest
    BY <1>8 DEF ExecuteRefused, AttemptRow
  <1>9. ASSUME NEW x \in Attempts, Explain(x) PROVE Rest
    BY <1>9 DEF Explain, AttemptRow
  <1>10. QED
    BY <1>2, <1>3, <1>4, <1>5, <1>6, <1>7, <1>8, <1>9
    DEF Next, vars, CreatePacket, ArchivePacket, RequestApproval, DecideApproval

(* The receipt of a resolution, once there, stays; it comes with a claim,  *)
(* which consumes the resolution and applies its effect.                   *)
LEMMA ReceiptStep ==
    ASSUME TypeInv, [Next]_vars
    PROVE  \/ UNCHANGED <<receipt, effects>> /\ \A r \in Resolutions : res[r].status = "consumed" => res'[r] = res[r]
           \/ \E x \in Attempts : ExecuteApplies(x)
  <1>1. ASSUME NEW r \in Resolutions, Resolve(r)
        PROVE  UNCHANGED <<receipt, effects>> /\ \A s \in Resolutions : res[s].status = "consumed" => res'[s] = res[s]
    BY <1>1, ResolveStep DEF TypeInv, Shapes
  <1>2. ASSUME NEW x \in Attempts, ExecuteMisses(x)
        PROVE  UNCHANGED <<receipt, effects>> /\ \A s \in Resolutions : res[s].status = "consumed" => res'[s] = res[s]
    <2>1. res[attempt[x].res].status = "pending"
      BY <1>2, ClaimIsPending DEF ExecuteMisses
    <2>2. QED
      BY <1>2, <2>1 DEF ExecuteMisses, TypeInv, Shapes
  <1>3. CASE UNCHANGED <<res, receipt, effects>>
    BY <1>3
  <1>4. QED
    BY <1>1, <1>2, <1>3 DEF Next, vars, CreatePacket, ArchivePacket, RequestApproval, DecideApproval,
                            Expire, Begin, ExecuteRefused, Explain

(* The step that applies an effect, seen from the resolution it claims.    *)
LEMMA AppliesStep ==
    ASSUME Inv, NEW x \in Attempts, ExecuteApplies(x)
    PROVE  LET r == attempt[x].res IN
           /\ r \in Resolutions /\ receipt[r] = NoClient /\ effects[r] = 0
           /\ attempt[x].client \in Clients /\ attempt[x].client # NoClient
           /\ res[r].action \in Effects /\ Apply(res[r].action)
           /\ res'[r].status = "consumed" /\ res'[r].action = res[r].action
           /\ \A s \in Resolutions \ {r} : res'[s] = res[s]
           /\ receipt' = [receipt EXCEPT ![r] = attempt[x].client]
           /\ effects' = [effects EXCEPT ![r] = 1]
           /\ attempt' = [attempt EXCEPT ![x] = [stage |-> "executed", res |-> r, client |-> @.client]]
  <1> DEFINE r == attempt[x].res
  <1>1. /\ r \in Resolutions /\ attempt[x].client \in Clients
        /\ res[r].status = "pending" /\ res[r].action \in Effects
    BY ClaimIsPending DEF ExecuteApplies, Inv
  <1>2. receipt[r] = NoClient /\ effects[r] = 0
    BY <1>1 DEF Inv, Unclaimed, OneEffectPerReceipt
  <1>3. "status" \in DOMAIN res[r] /\ "action" \in DOMAIN res[r] /\ DOMAIN res = Resolutions
    BY <1>1 DEF Inv, TypeInv, Shapes, ResolutionRow
  <1>4. /\ res' = [res EXCEPT ![r].status = "consumed"]
        /\ receipt' = [receipt EXCEPT ![r] = attempt[x].client]
        /\ effects' = [effects EXCEPT ![r] = @ + 1]
        /\ attempt' = [attempt EXCEPT ![x] = [stage |-> "executed", res |-> r, client |-> @.client]]
        /\ Apply(res[r].action)
    BY DEF ExecuteApplies, ClaimedStatus
  <1>5. res'[r].status = "consumed" /\ res'[r].action = res[r].action
    BY <1>1, <1>3, <1>4
  <1>6. \A s \in Resolutions \ {r} : res'[s] = res[s]
    BY <1>3, <1>4
  <1>7. effects' = [effects EXCEPT ![r] = 1]
    BY <1>2, <1>4
  <1>8. QED
    BY <1>1, <1>2, <1>4, <1>5, <1>6, <1>7, ClientAssumption

(* A receipt is written with the one consumption of its resolution.        *)
LEMMA UnclaimedStep == Inv /\ [Next]_vars => Unclaimed' /\ OneEffectPerReceipt'
  <1> SUFFICES ASSUME Inv, [Next]_vars PROVE Unclaimed' /\ OneEffectPerReceipt'
    OBVIOUS
  <1>1. CASE UNCHANGED <<receipt, effects>> /\ \A r \in Resolutions : res[r].status = "consumed" => res'[r] = res[r]
    BY <1>1 DEF Inv, Unclaimed, OneEffectPerReceipt
  <1>2. ASSUME NEW x \in Attempts, ExecuteApplies(x) PROVE Unclaimed' /\ OneEffectPerReceipt'
    <2> DEFINE r == attempt[x].res
    <2> /\ receipt \in [Resolutions -> Clients \union {NoClient}] /\ effects \in [Resolutions -> Nat]
        /\ Unclaimed /\ OneEffectPerReceipt
      BY DEF Inv, TypeInv, TypeOK
    <2>1. QED
      BY <1>2, AppliesStep DEF Unclaimed, OneEffectPerReceipt
  <1>3. QED
    BY <1>1, <1>2, ReceiptStep DEF Inv

(* A continuation takes the packet past the version it previewed, and no   *)
(* later step takes it back.                                               *)
LEMMA AdvancedStep == Inv /\ [Next]_vars => Advanced'
  <1> SUFFICES ASSUME Inv, [Next]_vars PROVE Advanced'
    OBVIOUS
  <1> USE DEF Inv
  <1>1. \A p \in Packets : pkt'[p].state = "absent" => pkt'[p].version = 0
    BY SpineStep DEF Advanced
  <1>2. ASSUME NEW r \in Resolutions, receipt[r] # NoClient, res'[r] = res[r],
               res[r].action.op = "continue_work"
        PROVE  pkt'[res'[r].action.packet].version > res'[r].action.version
    <2> DEFINE p == res[r].action.packet
               v == res[r].action.version
    <2>1. res[r].action \in Effects
      BY <1>2 DEF Unclaimed, TypeInv, Shapes, ResolutionRow
    <2>2. p \in Packets /\ v \in Nat
      BY <2>1, <1>2 DEF Effects
    <2>3. pkt[p].version \in Nat /\ pkt'[p].version \in Nat
      BY <2>2, SpineStep DEF TypeInv, TypeOK
    <2>4. pkt[p].version > v
      BY <1>2 DEF Advanced
    <2>5. pkt[p].state # "absent"
      BY <2>2, <2>4 DEF Advanced
    <2>6. pkt'[p].version >= pkt[p].version
      BY <2>2, <2>5, SpineStep
    <2>7. QED
      BY <1>2, <2>2, <2>3, <2>4, <2>6
  <1>3. CASE UNCHANGED <<receipt, effects>> /\ \A r \in Resolutions : res[r].status = "consumed" => res'[r] = res[r]
    BY <1>1, <1>2, <1>3 DEF Advanced, Unclaimed
  <1>4. ASSUME NEW x \in Attempts, ExecuteApplies(x) PROVE Advanced'
    <2> DEFINE r == attempt[x].res
               e == res[r].action
    <2>1. r \in Resolutions /\ e \in Effects /\ Apply(e) /\ res'[r].action = e
      BY <1>4, AppliesStep
    <2>2. \A s \in Resolutions \ {r} : res'[s] = res[s] /\ receipt'[s] = receipt[s]
      BY <1>4, AppliesStep DEF TypeInv, TypeOK
    <2>3. CASE e.op = "continue_work"
      <3>1. e.packet \in Packets /\ e.version \in Nat /\ pkt[e.packet].version = e.version
        BY <2>1, <2>3 DEF Apply, Effects, ContinueGuard, SameVersion
      <3>2. pkt' = [pkt EXCEPT ![e.packet].version = @ + 1]
        BY <2>1, <2>3 DEF Apply
      <3>3. pkt'[e.packet].version = e.version + 1
        BY <3>1, <3>2 DEF TypeInv, TypeOK
      <3>4. QED
        BY <1>1, <1>2, <2>1, <2>2, <3>1, <3>3 DEF Advanced
    <2>4. CASE e.op # "continue_work"
      BY <1>1, <1>2, <2>1, <2>2, <2>4 DEF Advanced
    <2>5. QED
      BY <2>3, <2>4
  <1>5. QED
    BY <1>3, <1>4, ReceiptStep

(* The version guard of the packet update finds the packet past the        *)
(* version of a preview that was already continued.                        *)
LEMMA ContinueStep == Inv /\ [Next]_vars => NoDoubleContinue'
  <1> SUFFICES ASSUME Inv, [Next]_vars PROVE NoDoubleContinue'
    OBVIOUS
  <1> USE DEF Inv
  <1>1. CASE UNCHANGED <<receipt, effects>> /\ \A r \in Resolutions : res[r].status = "consumed" => res'[r] = res[r]
    BY <1>1 DEF NoDoubleContinue, Unclaimed
  <1>2. ASSUME NEW x \in Attempts, ExecuteApplies(x) PROVE NoDoubleContinue'
    <2> DEFINE r == attempt[x].res
               e == res[r].action
    <2>1. r \in Resolutions /\ e \in Effects /\ Apply(e) /\ res'[r].action = e
      BY <1>2, AppliesStep
    <2>2. \A s \in Resolutions \ {r} : res'[s] = res[s] /\ receipt'[s] = receipt[s]
      BY <1>2, AppliesStep DEF TypeInv, TypeOK
    <2>3. ASSUME NEW s \in Resolutions \ {r}, receipt[s] # NoClient,
                 res[s].action.op = "continue_work", e.op = "continue_work"
          PROVE  res[s].action # e
      <3>1. e.version \in Nat /\ pkt[e.packet].version = e.version
        BY <2>1, <2>3 DEF Apply, Effects, ContinueGuard, SameVersion
      <3>2. pkt[res[s].action.packet].version > res[s].action.version
        BY <2>3 DEF Advanced
      <3>3. QED
        BY <3>1, <3>2
    <2>4. QED
      BY <2>1, <2>2, <2>3 DEF NoDoubleContinue
  <1>3. QED
    BY <1>1, <1>2, ReceiptStep

(* A receipt is written once, so a success keeps the receipt it reported.  *)
LEMMA SuccessStep == Inv /\ [Next]_vars => SuccessIsReceipted'
  <1> SUFFICES ASSUME Inv, [Next]_vars PROVE SuccessIsReceipted'
    OBVIOUS
  <1> USE DEF Inv, SuccessIsReceipted
  <1>0. DOMAIN attempt = Attempts /\ \A x \in Attempts : AttemptRow(attempt[x])
    BY DEF TypeInv, Shapes
  <1>1. ASSUME NEW x \in Attempts, ExecuteApplies(x) PROVE SuccessIsReceipted'
    <2> DEFINE r == attempt[x].res
    <2>1. /\ r \in Resolutions /\ receipt[r] = NoClient
          /\ receipt' = [receipt EXCEPT ![r] = attempt[x].client]
          /\ attempt' = [attempt EXCEPT ![x] = [stage |-> "executed", res |-> r, client |-> @.client]]
      BY <1>1, AppliesStep
    <2>2. ASSUME NEW y \in Attempts \ {x}, attempt[y].stage \in {"executed", "replayed"}
          PROVE  attempt[y].res \in Resolutions /\ attempt[y].res # r
      BY <1>0, <2>1, <2>2, ClientAssumption DEF AttemptRow
    <2>3. QED
      BY <1>0, <2>1, <2>2 DEF TypeInv, TypeOK
  <1>2. ASSUME NEW x \in Attempts, Explain(x) PROVE SuccessIsReceipted'
    BY <1>0, <1>2 DEF Explain, ReplayGuard, SameClient, AttemptRow
  <1>3. ASSUME NEW x \in Attempts, ExecuteMisses(x) \/ ExecuteRefused(x) PROVE SuccessIsReceipted'
    BY <1>0, <1>3 DEF ExecuteMisses, ExecuteRefused
  <1>4. ASSUME NEW x \in Attempts, NEW r \in Resolutions, NEW k \in Clients, Begin(x, r, k)
        PROVE  SuccessIsReceipted'
    BY <1>0, <1>4 DEF Begin
  <1>5. CASE UNCHANGED <<attempt, receipt>>
    BY <1>5
  <1>6. QED
    BY <1>1, <1>2, <1>3, <1>4, <1>5
    DEF Next, vars, CreatePacket, ArchivePacket, RequestApproval, DecideApproval, Resolve, Expire

-----------------------------------------------------------------------------
(* The parts of the invariant carry each other from state to state.        *)
LEMMA Inductive == Spec => []Inv
  <1>1. Init => Inv
    BY DEF Init, Inv, TypeInv, TypeOK, Shapes, ApprovalRow, ResolutionRow, AttemptRow, NoPacket,
           Unclaimed, Advanced, OneEffectPerReceipt, NoDoubleContinue, SuccessIsReceipted
  <1>2. Inv /\ [Next]_vars => Inv'
    BY TypeStep, UnclaimedStep, AdvancedStep, ContinueStep, SuccessStep DEF Inv
  <1>3. QED
    BY <1>1, <1>2, PTL DEF Spec

(* Every variable of the governed intake keeps its type.                   *)
THEOREM TypesKept == Spec => []TypeOK
  <1>1. Inv => TypeOK
    BY DEF Inv, TypeInv
  <1>2. QED
    BY <1>1, Inductive, PTL

(* executeIntakeResolutionRow: whatever calls race on a resolution, it     *)
(* takes effect once if it has a receipt and not at all otherwise.         *)
THEOREM EffectsAreReceipted == Spec => []OneEffectPerReceipt
  <1>1. Inv => OneEffectPerReceipt
    BY DEF Inv
  <1>2. QED
    BY <1>1, Inductive, PTL

(* The packet update's version guard: two resolutions that previewed the   *)
(* same version of a packet are never both executed.                       *)
THEOREM ContinuedOnce == Spec => []NoDoubleContinue
  <1>1. Inv => NoDoubleContinue
    BY DEF Inv
  <1>2. QED
    BY <1>1, Inductive, PTL

(* The execution and the replay: a caller that was told of success finds   *)
(* the receipt under its own client_request_id, then and for good.         *)
THEOREM SuccessHasReceipt == Spec => []SuccessIsReceipted
  <1>1. Inv => SuccessIsReceipted
    BY DEF Inv
  <1>2. QED
    BY <1>1, Inductive, PTL

(* The status guard of both decision statements: no step changes an        *)
(* approval that has been decided.                                         *)
THEOREM DecidedForGood == Spec => DecisionsAreFinal
  <1>1. ASSUME TypeInv, [Next]_vars, NEW a \in Approvals, apr[a].status \in Verdicts
        PROVE  apr'[a] = apr[a]
    <2> DOMAIN apr = Approvals
      BY <1>1 DEF TypeInv, Shapes
    <2>0. apr[a].status \notin {"absent", "requested"}
      BY <1>1, VerdictsAssumption
    <2>1. ASSUME NEW x \in Attempts, ExecuteApplies(x) PROVE apr'[a] = apr[a]
      <3>1. Apply(res[attempt[x].res].action)
        BY <2>1 DEF ExecuteApplies
      <3>2. QED
        BY <2>0, <3>1 DEF Apply, DecisionOpen, StillRequested
    <2>2. ASSUME NEW b \in Approvals, RequestApproval(b) PROVE apr'[a] = apr[a]
      BY <2>0, <2>2 DEF RequestApproval
    <2>3. ASSUME NEW b \in Approvals, NEW v \in Verdicts, DecideApproval(b, v) PROVE apr'[a] = apr[a]
      BY <2>0, <2>3 DEF DecideApproval, DecisionOpen, StillRequested
    <2>4. CASE UNCHANGED apr
      BY <2>4
    <2>5. QED
      BY <1>1, <2>1, <2>2, <2>3, <2>4
      DEF Next, vars, spine, CreatePacket, ArchivePacket, Resolve, Expire, Begin, ExecuteMisses,
          ExecuteRefused, Explain
  <1>2. Inv /\ [Next]_vars => [\A a \in Approvals : apr[a].status \in Verdicts => apr'[a] = apr[a]]_vars
    BY <1>1 DEF Inv
  <1>3. QED
    BY <1>2, Inductive, PTL DEF Spec, DecisionsAreFinal
=============================================================================
