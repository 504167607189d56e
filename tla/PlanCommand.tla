---------------------------- MODULE PlanCommand ----------------------------
(***************************************************************************)
(* The authority commands on the plan entities of one scope:               *)
(*                                                                         *)
(*   routes/plan.ts                  reads the target, then commands       *)
(*   dal/plan-command-operations.ts  create, update (rename, move) and     *)
(*                                   delete with their sibling locks       *)
(*   dal/plan-command-store.ts       the transaction around them: replay   *)
(*                                   claim, lock, mutation, re-pack,       *)
(*                                   event, audit, outbox, stored response *)
(*                                                                         *)
(* A transaction runs under READ COMMITTED: each statement sees what has   *)
(* been committed when it starts, its own writes stay in a draft until it  *)
(* commits.  Retries are attempts with the same request; they overlap with *)
(* the first one as they please.                                           *)
(***************************************************************************)
EXTENDS Integers, FiniteSets, FiniteSetsExt

CONSTANTS
    Ids,        \* ids of plan entities, positive numbers: the lock keys sort
    Requests,   \* [op, id, parent, pos, key], see IsRequest
    Attempts,   \* the calls of the route
    Seed,       \* the updated_at of the first entities
    Plans       \* the plans to start from

Top == 0        \* parent_id IS NULL: the group of the top-level entities
Keep == -1      \* the patch does not name this field
Groups == Ids \union {Top}

IsRequest(q) ==
    /\ DOMAIN q = {"op", "id", "parent", "pos", "key"}
    /\ q.op \in {"create", "update", "delete"}
    /\ q.op = "create" => q.id = Top /\ q.parent \in Groups /\ q.pos = Keep
    /\ q.op = "update" => q.id \in Ids /\ q.parent \in Groups \union {Keep}
                          /\ q.pos \in Nat \union {Keep}
    /\ q.op = "delete" => q.id \in Ids /\ q.parent = Keep /\ q.pos = Keep

ASSUME IdsAssumption == Ids \subseteq Nat \ {0} /\ IsFiniteSet(Ids)
ASSUME RequestsAssumption == \A q \in Requests : IsRequest(q)
ASSUME SeedAssumption == Seed \notin Attempts

VARIABLES
    ent,        \* ent[e]: the committed row of plan entity e
    claims,     \* claims[k]: the completed replay row of key k
    spine,      \* operation event, audit and outbox row of each command
    pc,         \* where an attempt is
    req,        \* its request
    target,     \* the row the route read before the command
    mine,       \* its transaction inserted the replay row
    want,       \* sibling groups it has yet to lock
    held,       \* sibling groups it has locked
    draft,      \* rows it has written and not committed
    answer      \* what it was told

txVars == <<mine, want, held, draft>>
vars == <<ent, claims, spine, pc, req, target, txVars, answer>>

(* strictCommand: the key belongs to the route, which names the entity.    *)
KeyOf(q) == <<q.op, q.id, q.key>>
Keys == {KeyOf(q) : q \in Requests}

Entities == [status : {"absent", "live", "deleted"}, parent : Groups, pos : Nat,
             ver : Attempts \union {Seed}]

Absent == [status |-> "absent", parent |-> Top, pos |-> 0, ver |-> Seed]

Live(f) == {e \in DOMAIN f : f[e].status = "live"}
Group(f, g) == {e \in Live(f) : f[e].parent = g}

NoResult == <<>>
Refused == <<"refused">>
NoAnswer == <<>>

(* A plan somebody made earlier: packed groups, live parents, no cycles.   *)
Packed(f) == \A g \in Groups : {f[e].pos : e \in Group(f, g)} = 0 .. Cardinality(Group(f, g)) - 1

Below(f, e) ==
    LET D[n \in 0 .. Cardinality(Ids)] ==
            IF n = 0 THEN Group(f, e)
            ELSE D[n - 1] \union {x \in Live(f) : f[x].parent \in D[n - 1]}
    IN D[Cardinality(Ids)]

WellFormed(f) ==
    /\ f \in [Ids -> Entities]
    /\ \A e \in Ids : f[e].ver = Seed /\ f[e].status # "deleted"
    /\ \A e \in Ids : f[e].status = "absent" => f[e] = Absent
    /\ \A e \in Live(f) : f[e].parent \in Live(f) \union {Top} /\ e \notin Below(f, e)
    /\ Packed(f)

ASSUME PlansAssumption == \A f \in Plans : WellFormed(f)

Init ==
    /\ ent \in Plans
    /\ claims = [k \in Keys |-> NoResult]
    /\ spine = {}
    /\ pc = [a \in Attempts |-> "idle"]
    /\ req \in [Attempts -> Requests]
    /\ target = [a \in Attempts |-> Absent]
    /\ mine = [a \in Attempts |-> FALSE]
    /\ want = [a \in Attempts |-> {}]
    /\ held = [a \in Attempts |-> {}]
    /\ draft = [a \in Attempts |-> <<>>]
    /\ answer = [a \in Attempts |-> NoAnswer]

-----------------------------------------------------------------------------
(* The route.                                                              *)

Answer(a, r) ==
    /\ pc' = [pc EXCEPT ![a] = "done"]
    /\ answer' = [answer EXCEPT ![a] = r]

(* POST goes straight to the command.                                      *)
RequestCreate(a) ==
    /\ pc[a] = "idle"
    /\ req[a].op = "create"
    /\ pc' = [pc EXCEPT ![a] = "begin"]
    /\ UNCHANGED <<ent, claims, spine, req, target, txVars, answer>>

(* PATCH and DELETE read the live entity first ...                         *)
ReadTarget(a) ==
    /\ pc[a] = "idle"
    /\ req[a].op # "create"
    /\ req[a].id \in Live(ent)
    /\ target' = [target EXCEPT ![a] = ent[req[a].id]]
    /\ pc' = [pc EXCEPT ![a] = "begin"]
    /\ UNCHANGED <<ent, claims, spine, req, txVars, answer>>

(* ... and answer 404 when there is none.                                  *)
TargetNotFound(a) ==
    /\ pc[a] = "idle"
    /\ req[a].op # "create"
    /\ req[a].id \notin Live(ent)
    /\ Answer(a, Refused)
    /\ UNCHANGED <<ent, claims, spine, req, target, txVars>>

-----------------------------------------------------------------------------
(* The transaction.                                                        *)

InTx(a) == pc[a] \in {"claimed", "locking", "written"}

(* A transaction ends: its locks go, its draft is applied or forgotten.    *)
EndTx(a) ==
    /\ mine' = [mine EXCEPT ![a] = FALSE]
    /\ want' = [want EXCEPT ![a] = {}]
    /\ held' = [held EXCEPT ![a] = {}]
    /\ draft' = [draft EXCEPT ![a] = <<>>]

(* INSERT ... ON CONFLICT DO NOTHING: waits for a transaction that has     *)
(* inserted the key, and inserts unless that one committed.                *)
Claim(a) ==
    /\ pc[a] = "begin"
    /\ \A b \in Attempts : ~(InTx(b) /\ mine[b] /\ KeyOf(req[b]) = KeyOf(req[a]))
    /\ mine' = [mine EXCEPT ![a] = claims[KeyOf(req[a])] = NoResult]
    /\ pc' = [pc EXCEPT ![a] = "claimed"]
    /\ UNCHANGED <<ent, claims, spine, req, target, want, held, draft, answer>>

PatchParent(a) == req[a].parent
(* A patch that does not name parent_id keeps the one that was read.       *)
NewParent(a) == IF req[a].parent = Keep THEN target[a].parent ELSE req[a].parent

NewGroupOnly(a) == IF req[a].op = "create" THEN {req[a].parent} ELSE {NewParent(a)}
(* The sibling groups a command may change.                                *)
CommandGroups(a) ==
    IF req[a].op = "create" THEN {req[a].parent} ELSE {target[a].parent, NewParent(a)}

(* siblingLock locks nothing for an entity deleted since it was read.      *)
LockStatement(a) ==
    /\ pc[a] = "claimed"
    /\ want' = [want EXCEPT ![a] = IF req[a].op = "create" \/ req[a].id \in Live(ent)
                                   THEN CommandGroups(a) ELSE {}]
    /\ pc' = [pc EXCEPT ![a] = "locking"]
    /\ UNCHANGED <<ent, claims, spine, req, target, mine, held, draft, answer>>

TargetFirst(a) == IF target[a].parent \in want[a] THEN target[a].parent ELSE Min(want[a])
(* ORDER BY lock_key: the advisory locks are taken in one order by all.    *)
NextLock(a) == Min(want[a])

AcquireLock(a) ==
    /\ pc[a] = "locking"
    /\ want[a] # {}
    /\ LET g == NextLock(a) IN
        /\ \A b \in Attempts \ {a} : g \notin held[b]
        /\ held' = [held EXCEPT ![a] = @ \union {g}]
        /\ want' = [want EXCEPT ![a] = @ \ {g}]
    /\ UNCHANGED <<ent, claims, spine, pc, req, target, mine, draft, answer>>

(* The EXISTS every statement of the command repeats: a replay row with    *)
(* this digest and no response yet, which only this transaction can see.   *)
ClaimOpen(a) == mine[a]

LiveOnly(a) == ent[req[a].id].status = "live"
(* The target is the row the route read: live and with that updated_at.    *)
TargetUnchanged(a) ==
    /\ ent[req[a].id].status = "live"
    /\ ent[req[a].id].ver = target[a].ver

(* The parent is live and is neither the entity nor one of its descendants. *)
ParentAllowed(a, g) ==
    \/ g = Top
    \/ /\ g \in Live(ent)
       /\ req[a].op = "update" => g # req[a].id /\ g \notin Below(ent, req[a].id)

(* ROW_NUMBER() over each group: the command's target sorts by the         *)
(* requested position and before an entity that has it now.                *)
Repack(f, groups, t, p) ==
    LET place(x) == IF x = t THEN 2 * p ELSE 2 * f[x].pos + 1
        before(x) == {y \in Group(f, f[x].parent) :
                        place(y) < place(x) \/ (place(y) = place(x) /\ y < x)}
    IN [x \in UNION {Group(f, g) : g \in groups} |->
            [f[x] EXCEPT !.pos = Cardinality(before(x))]]

(* Rows the create statement inserts: MAX(position) + 1 in its group.      *)
Created(a, e) ==
    LET g == Group(ent, req[a].parent) IN
    {[x \in {e} |-> [status |-> "live", parent |-> req[a].parent, ver |-> a,
                     pos |-> IF g = {} THEN 0 ELSE Max({ent[y].pos : y \in g}) + 1]]}

Overlay(f, g) == [x \in DOMAIN f \union DOMAIN g |-> IF x \in DOMAIN g THEN g[x] ELSE f[x]]

Moves(a) == req[a].parent # Keep \/ req[a].pos # Keep
RequestedPosition(a) == IF req[a].pos = Keep THEN target[a].pos ELSE req[a].pos

(* The update, and the re-pack when it moves the entity.                   *)
Updated(a) ==
    LET e == req[a].id
        row == [x \in {e} |-> [ent[e] EXCEPT !.parent = NewParent(a), !.ver = a]]
    IN IF Moves(a)
       THEN Overlay(row, Repack(Overlay(ent, row), CommandGroups(a), e, RequestedPosition(a)))
       ELSE row

(* The soft delete and the re-pack of the siblings it leaves.              *)
Deleted(a) ==
    LET row == [x \in {req[a].id} |-> [ent[x] EXCEPT !.status = "deleted", !.ver = a]]
    IN Overlay(row, Repack(Overlay(ent, row), {target[a].parent}, Top, 0))

(* The rows the mutation writes, no set when its WHERE finds nothing.      *)
Mutation(a) ==
    IF ~ClaimOpen(a) THEN {}
    ELSE CASE req[a].op = "create" /\ ParentAllowed(a, req[a].parent) ->
                UNION {Created(a, e) : e \in {x \in Ids : ent[x].status = "absent" /\
                            \A b \in Attempts : x \notin DOMAIN draft[b]}}
           [] req[a].op = "update" /\ TargetUnchanged(a) /\ ParentAllowed(a, NewParent(a)) ->
                {Updated(a)}
           [] req[a].op = "delete" /\ TargetUnchanged(a) -> {Deleted(a)}
           [] OTHER -> {}

Locked(a) == pc[a] = "locking" /\ want[a] = {}

Mutate(a) ==
    /\ Locked(a)
    /\ \E rows \in Mutation(a) : draft' = [draft EXCEPT ![a] = rows]
    /\ pc' = [pc EXCEPT ![a] = "written"]
    /\ UNCHANGED <<ent, claims, spine, req, target, mine, want, held, answer>>

(* Event, audit, outbox and response are written for the mutated row, the  *)
(* assertion finds them complete, and the transaction commits.             *)
Commit(a) ==
    /\ pc[a] = "written"
    /\ ent' = Overlay(ent, draft[a])
    /\ spine' = spine \union {<<req[a], a>>}
    /\ claims' = [claims EXCEPT ![KeyOf(req[a])] = IF mine[a] THEN <<req[a], a>> ELSE @]
    /\ EndTx(a)
    /\ pc' = [pc EXCEPT ![a] = "committed"]
    /\ UNCHANGED <<req, target, answer>>

(* Nothing was written and the replay row has no response:                 *)
(* xlooop_assert_authority_complete raises, all is rolled back, 409.       *)
AssertFails(a) ==
    /\ Locked(a)
    /\ Mutation(a) = {}
    /\ mine[a]
    /\ EndTx(a)
    /\ Answer(a, Refused)
    /\ UNCHANGED <<ent, claims, spine, req, target>>

(* The key was completed by an earlier transaction: the statements find    *)
(* nothing to do and readReplay returns the stored row.                    *)
ReplayRead(a) ==
    /\ Locked(a)
    /\ Mutation(a) = {}
    /\ ~mine[a]
    /\ EndTx(a)
    /\ pc' = [pc EXCEPT ![a] = "committed"]
    /\ UNCHANGED <<ent, claims, spine, req, target, answer>>

(* The stored response goes back, unless it answers another request.       *)
AnyDigest(a) == TRUE
DigestMatches(a) == claims[KeyOf(req[a])][1] = req[a]

Respond(a) ==
    /\ pc[a] = "committed"
    /\ Answer(a, IF DigestMatches(a) THEN claims[KeyOf(req[a])] ELSE Refused)
    /\ UNCHANGED <<ent, claims, spine, req, target, txVars>>

(* The call dies: an open transaction is rolled back, a committed one      *)
(* stays, and the caller learns nothing.                                   *)
Dies(a) ==
    /\ pc[a] \notin {"idle", "done"}
    /\ EndTx(a)
    /\ pc' = [pc EXCEPT ![a] = "done"]
    /\ UNCHANGED <<ent, claims, spine, req, target, answer>>

-----------------------------------------------------------------------------
Step(a) ==
    \/ ReadTarget(a) \/ RequestCreate(a) \/ TargetNotFound(a)
    \/ Claim(a) \/ LockStatement(a) \/ AcquireLock(a)
    \/ Mutate(a) \/ Commit(a) \/ AssertFails(a) \/ ReplayRead(a) \/ Respond(a)

Next == \E a \in Attempts : Step(a) \/ Dies(a)

Spec == Init /\ [][Next]_vars

(* A call that has started goes on as long as nothing blocks it.           *)
FairSpec == Spec /\ \A a \in Attempts : WF_vars(pc[a] # "idle" /\ Step(a))

-----------------------------------------------------------------------------
(* Properties.                                                             *)

(* Every variable has its type.                                            *)
TypeOK ==
    /\ ent \in [Ids -> Entities]
    /\ claims \in [Keys -> {NoResult} \union (Requests \X Attempts)]
    /\ spine \subseteq Requests \X Attempts
    /\ pc \in [Attempts -> {"idle", "begin", "claimed", "locking", "written",
                            "committed", "done"}]
    /\ req \in [Attempts -> Requests]
    /\ target \in [Attempts -> Entities]
    /\ mine \in [Attempts -> BOOLEAN]
    /\ want \in [Attempts -> SUBSET Groups]
    /\ held \in [Attempts -> SUBSET Groups]
    /\ \A a \in Attempts : /\ DOMAIN draft[a] \subseteq Ids
                           /\ \A e \in DOMAIN draft[a] : draft[a][e] \in Entities
    /\ answer \in [Attempts -> {NoAnswer, Refused} \union (Requests \X Attempts)]

(* Siblings are numbered 0, 1, 2, ... without gap or duplicate, whatever   *)
(* creates, moves and deletes ran at the same time: the re-pack of a group *)
(* and the sibling locks it needs.                                         *)
SiblingsPacked == Packed(ent)

(* An update or delete is applied to the revision of the entity its route  *)
(* read, never over one committed in between.                              *)
NoLostUpdate ==
    [][\A a \in Attempts :
        pc[a] = "written" /\ pc'[a] = "committed" /\ req[a].op # "create"
            => ent[req[a].id].ver = target[a].ver /\ ent[req[a].id].status = "live"]_vars

(* Calls that will find nothing to patch or delete.                        *)
TargetAbsent == {a \in Attempts : pc[a] = "idle" /\ req[a].op # "create"
                                  /\ req[a].id \notin Live(ent)}

(* One performed command per key, and no success without one.  A call of a *)
(* performed request is told its receipt, if it is answered, also when the *)
(* two overlapped: with one exception, a PATCH or DELETE that starts when  *)
(* its entity is no longer live gets the route's 404, so that the exact    *)
(* retry of a DELETE is refused.  The plan commands implement              *)
(* StrictCommand.                                                          *)
Strict == INSTANCE StrictCommand WITH
    outcome <- claims, effects <- spine, early <- {}, stray <- TargetAbsent
ImplementsStrictCommand == Strict!Spec

(* A call that has started is answered: the waits for a key and for the    *)
(* sibling locks never form a circle.                                      *)
EveryAttemptAnswers == \A a \in Attempts : pc[a] # "idle" ~> pc[a] = "done"

(* No live entity is below itself: the descendants a move looks through    *)
(* keep a plan entity from becoming its own ancestor.                      *)
HierarchyIsForest == \A e \in Live(ent) : e \notin Below(ent, e)
=============================================================================
