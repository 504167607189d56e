----------------------------- MODULE Membership -----------------------------
(***************************************************************************)
(* Who belongs to a workspace, with which role, and what follows from it:  *)
(*                                                                         *)
(*   routes/members.ts                       PATCH role, DELETE member     *)
(*   dal/workspace-member-store.ts           setWorkspaceMemberRoleRow     *)
(*   dal/workspace-member-removal-store.ts   removeWorkspaceMemberRow      *)
(*   dal/invite-membership-store.ts          a session materializes the    *)
(*                                           membership of an invitee      *)
(*   dal/member-authority-provisioning.ts    entitlement and mode          *)
(*   dal/user-store.ts                       setUserStatusRow              *)
(*   routes/session-mode.ts                  a user sets its own mode      *)
(*                                                                         *)
(* A member command is one SQL statement.  Under READ COMMITTED it reads   *)
(* the snapshot of its start, and a row it locks as the last commit left   *)
(* it, after waiting for the row's lock; between its locks other commands  *)
(* run.  Only the workspace's owner_user_id may command, so a command's    *)
(* actor is always Owner.                                                  *)
(***************************************************************************)
EXTENDS Naturals, FiniteSets

CONSTANTS
    Users,
    Owner,      \* workspaces.owner_user_id
    Roles0,     \* Roles0[u]: the role of a first member, "none" for others
    Requests,   \* [op, user, role, key]
    Attempts,   \* calls of PATCH and DELETE
    Switchers,  \* users who call PATCH /session/mode
    Sessions,   \* sessions of invitees: calls of the materialization
    Invited     \* Invited[s] = [user, role]: what the session's claims say

Roles == {"owner", "operator", "viewer", "client"}

ASSUME OwnerAssumption == Owner \in Users /\ Switchers \subseteq Users
ASSUME RolesAssumption ==
    /\ Roles0 \in [Users -> Roles \union {"none"}]
    /\ \E u \in Users : Roles0[u] = "owner"
ASSUME RequestsAssumption ==
    \A q \in Requests : /\ DOMAIN q = {"op", "user", "role", "key"}
                        /\ q.op \in {"role", "remove"} /\ q.user \in Users
                        /\ q.op = "role" => q.role \in Roles
(* Owner and client are never materialized.                                *)
ASSUME InvitedAssumption ==
    Invited \in [Sessions -> [user : Users, role : {"operator", "viewer"}]]

VARIABLES
    member,     \* member[u]: the workspace_members row
    grant,      \* grant[u]: the customer_entitlements row
    mode,       \* mode[u]: user_session_preferences.operating_mode
    user,       \* user[u]: users.status
    claims,     \* claims[k]: the replay row of key k
    spine,      \* event, audit and outbox row of each command
    pc,         \* where an attempt is
    req,        \* its request
    snap,       \* the members in its statement's snapshot
    held,       \* rows it has locked
    want,       \* owner rows it has yet to lock
    answer,     \* what it was told
    jpc,        \* where a materialization is
    late        \* users whose entitlement was last written by a
                \* materialization that found the member row there

stmtVars == <<snap, held, want>>
memberVars == <<member, grant, mode>>
joinVars == <<jpc, late>>
vars == <<memberVars, user, claims, spine, pc, req, stmtVars, answer, joinVars>>

(* The route is the same for every member: the key is the owner's own.     *)
KeyOf(q) == <<q.op, q.key>>
Keys == {KeyOf(q) : q \in Requests}
Key(a) == KeyOf(req[a])

NoResult == <<>>
NoAnswer == <<>>
Refused == <<"refused">>

Members == [status : {"none", "active", "removed"}, role : Roles \union {"none"}]
Grants == {"none", "full", "watch", "denied", "revoked"}
(* "watch" stands for watch and test: neither lets its user write.         *)
Modes == {"none", "watch", "operator"}

OperatorGrade(role) == role \in {"owner", "operator"}

(* roleMirrorEntitlement.                                                  *)
Mirror(role) == CASE OperatorGrade(role) -> "full"
                  [] role = "client" -> "denied"
                  [] role = "viewer" -> "watch"

Row(role) == [status |-> IF role = "none" THEN "none" ELSE "active", role |-> role]

Active(m, u) == m[u].status = "active"
IsOwner(m, u) == Active(m, u) /\ m[u].role = "owner"
OwnersIn(m) == {u \in Users : IsOwner(m, u)}

Init ==
    /\ member = [u \in Users |-> Row(Roles0[u])]
    /\ grant = [u \in Users |-> IF Roles0[u] = "none" THEN "none" ELSE Mirror(Roles0[u])]
    /\ mode = [u \in Users |-> IF Roles0[u] = "none" THEN "none"
                               ELSE IF OperatorGrade(Roles0[u]) THEN "operator" ELSE "watch"]
    /\ user = [u \in Users |-> IF Roles0[u] = "none" THEN "pending" ELSE "approved"]
    /\ claims = [k \in Keys |-> NoResult]
    /\ spine = {}
    /\ pc = [a \in Attempts |-> "idle"]
    /\ req \in [Attempts -> Requests]
    /\ snap = [a \in Attempts |-> member]
    /\ held = [a \in Attempts |-> {}]
    /\ want = [a \in Attempts |-> {}]
    /\ answer = [a \in Attempts |-> NoAnswer]
    /\ jpc = [s \in Sessions |-> "idle"]
    /\ late = {}

-----------------------------------------------------------------------------
(* setWorkspaceMemberRoleRow and removeWorkspaceMemberRow.                 *)

Goto(a, label) == pc' = [pc EXCEPT ![a] = label] /\ UNCHANGED answer
Answer(a, r) ==
    /\ pc' = [pc EXCEPT ![a] = "done"]
    /\ answer' = [answer EXCEPT ![a] = r]

(* The statement is over: its locks go.                                    *)
EndStatement(a) ==
    /\ snap' = [snap EXCEPT ![a] = member']
    /\ held' = [held EXCEPT ![a] = {}]
    /\ want' = [want EXCEPT ![a] = {}]

Target(a) == req[a].user

(* CANNOT_REMOVE_SELF.                                                     *)
RemovesSelf(a) ==
    /\ pc[a] = "idle"
    /\ req[a].op = "remove" /\ Target(a) = Owner
    /\ Answer(a, Refused)
    /\ UNCHANGED <<memberVars, user, claims, spine, req, stmtVars, joinVars>>

(* The snapshot is taken; an existing replay row leaves nothing to do.     *)
StartStatement(a) ==
    /\ pc[a] = "idle"
    /\ ~(req[a].op = "remove" /\ Target(a) = Owner)
    /\ snap' = [snap EXCEPT ![a] = member]
    /\ Goto(a, IF claims[Key(a)] = NoResult THEN "target" ELSE "replay")
    /\ UNCHANGED <<memberVars, user, claims, spine, req, held, want, joinVars>>

Unlocked(a, u) == \A b \in Attempts \ {a} : u \notin held[b]

(* The guard needs the owners when an owner is to lose the role.           *)
LosesOwner(a) ==
    /\ IsOwner(member, Target(a))
    /\ req[a].op = "remove" \/ req[a].role # "owner"

(* target_snapshot ... FOR UPDATE.                                         *)
LockTarget(a) ==
    /\ pc[a] = "target"
    /\ Active(snap[a], Target(a))
    /\ Unlocked(a, Target(a))
    /\ Active(member, Target(a))
    /\ held' = [held EXCEPT ![a] = {Target(a)}]
    /\ want' = [want EXCEPT ![a] = IF LosesOwner(a) THEN OwnersIn(snap[a]) \ {Target(a)} ELSE {}]
    /\ Goto(a, "owners")
    /\ UNCHANGED <<memberVars, user, claims, spine, req, snap, joinVars>>

RefuseGone(a) == Answer(a, Refused)
(* A removal that finds the member gone looks for its own replay first.    *)
TargetGone(a) == IF req[a].op = "remove" THEN Goto(a, "find") ELSE Answer(a, Refused)

(* The target is no member in the snapshot or, after the wait, no longer.  *)
TargetMissing(a) ==
    /\ pc[a] = "target"
    /\ \/ ~Active(snap[a], Target(a))
       \/ Unlocked(a, Target(a)) /\ ~Active(member, Target(a))
    /\ TargetGone(a)
    /\ UNCHANGED <<memberVars, user, claims, spine, req, stmtVars, joinVars>>

(* owner_snapshot ... FOR UPDATE, row by row in the order of the scan.     *)
LockOwner(a) ==
    /\ pc[a] = "owners"
    /\ \E u \in want[a] :
        /\ Unlocked(a, u)
        /\ held' = [held EXCEPT ![a] = @ \union {u}]
        /\ want' = [want EXCEPT ![a] = @ \ {u}]
    /\ UNCHANGED <<memberVars, user, claims, spine, pc, req, snap, answer, joinVars>>

SnapshotOwners(a) == OwnersIn(snap[a])
(* The owners of the snapshot that, once locked, still are owners.         *)
OwnersCounted(a) == {u \in OwnersIn(snap[a]) : IsOwner(member, u)}

LastOwner(a) == LosesOwner(a) /\ Cardinality(OwnersCounted(a)) <= 1

Locked(a) == pc[a] = "owners" /\ want[a] = {}

RefuseLastOwner(a) ==
    /\ Locked(a)
    /\ LastOwner(a)
    /\ Answer(a, Refused)
    /\ UNCHANGED <<memberVars, user, claims, spine, req, joinVars>>
    /\ EndStatement(a)

(* Another command has stored the key since the snapshot: the unique index *)
(* rolls the statement back.                                               *)
KeyConflict(a) ==
    /\ Locked(a)
    /\ ~LastOwner(a)
    /\ claims[Key(a)] # NoResult
    /\ Goto(a, "replay")
    /\ UNCHANGED <<memberVars, user, claims, spine, req, joinVars>>
    /\ EndStatement(a)

MemberAfter(a) ==
    IF req[a].op = "remove" THEN [member[Target(a)] EXCEPT !.status = "removed"]
                            ELSE Row(req[a].role)
FullOnly(a) ==
    IF req[a].op = "role" /\ OperatorGrade(req[a].role) THEN "full" ELSE grant[Target(a)]
(* The entitlement is re-mirrored both ways, and revoked with the removal. *)
GrantAfter(a) == IF req[a].op = "remove" THEN "revoked" ELSE Mirror(req[a].role)

ModeAfter(a) ==
    IF req[a].op = "role" /\ OperatorGrade(req[a].role)
    THEN IF mode[Target(a)] = "none" THEN "operator" ELSE mode[Target(a)]
    ELSE "watch"

(* Member, entitlement, preference, event, audit, outbox and replay row.   *)
Commit(a) ==
    /\ Locked(a)
    /\ ~LastOwner(a)
    /\ claims[Key(a)] = NoResult
    /\ member' = [member EXCEPT ![Target(a)] = MemberAfter(a)]
    /\ grant' = [grant EXCEPT ![Target(a)] = GrantAfter(a)]
    /\ mode' = [mode EXCEPT ![Target(a)] = ModeAfter(a)]
    /\ claims' = [claims EXCEPT ![Key(a)] = <<req[a], a>>]
    /\ spine' = spine \union {<<req[a], a>>}
    /\ Answer(a, <<req[a], a>>)
    /\ late' = late \ {Target(a)}
    /\ UNCHANGED <<user, req, jpc>>
    /\ EndStatement(a)

AnyDigest(a) == TRUE
DigestMatches(a) == claims[Key(a)][1] = req[a]

(* findStrictMemberMutationReplay, in both places it is called from.       *)
Replay(a) ==
    /\ pc[a] \in {"replay", "find"}
    /\ Answer(a, IF claims[Key(a)] # NoResult /\ DigestMatches(a)
                 THEN claims[Key(a)] ELSE Refused)
    /\ UNCHANGED <<memberVars, user, claims, spine, req, stmtVars, joinVars>>

(* The statement is a deadlock's victim, or the call is lost on its way:   *)
(* the caller learns nothing of the command.                               *)
Fails(a) ==
    /\ pc[a] \in {"target", "owners", "replay", "find"}
    /\ Goto(a, "done")
    /\ UNCHANGED <<memberVars, user, claims, spine, req, joinVars>>
    /\ EndStatement(a)

-----------------------------------------------------------------------------
(* materializeInvitedMembershipRow: guards read one by one, then a         *)
(* transaction.                                                            *)

Invitee(s) == Invited[s].user

JoinGuardMember(s) ==
    /\ jpc[s] = "idle"
    /\ jpc' = [jpc EXCEPT ![s] = IF member[Invitee(s)].status = "none" THEN "user" ELSE "done"]
    /\ UNCHANGED <<memberVars, user, claims, spine, pc, req, stmtVars, answer, late>>

JoinGuardUser(s) ==
    /\ jpc[s] = "user"
    /\ jpc' = [jpc EXCEPT ![s] = IF user[Invitee(s)] = "banned" THEN "done" ELSE "commit"]
    /\ UNCHANGED <<memberVars, user, claims, spine, pc, req, stmtVars, answer, late>>

JoinOverwrites(s) == Row(Invited[s].role)
(* ON CONFLICT DO NOTHING.                                                 *)
JoinedMember(s) ==
    IF member[Invitee(s)].status = "none" THEN Row(Invited[s].role) ELSE member[Invitee(s)]

JoinedMode(s) ==
    IF ~OperatorGrade(Invited[s].role) THEN "watch"
    ELSE IF mode[Invitee(s)] = "none" THEN "operator" ELSE mode[Invitee(s)]

(* The users upsert keeps a ban; the entitlement upsert does not ask       *)
(* whether the member row was inserted.                                    *)
JoinCommit(s) ==
    /\ jpc[s] = "commit"
    /\ user' = [user EXCEPT ![Invitee(s)] = IF @ = "banned" THEN @ ELSE "approved"]
    /\ member' = [member EXCEPT ![Invitee(s)] = JoinedMember(s)]
    /\ grant' = [grant EXCEPT ![Invitee(s)] = Mirror(Invited[s].role)]
    /\ mode' = [mode EXCEPT ![Invitee(s)] = JoinedMode(s)]
    /\ late' = late \union {u \in {Invitee(s)} : member[u].status # "none"}
    /\ jpc' = [jpc EXCEPT ![s] = "done"]
    /\ UNCHANGED <<claims, spine, pc, req, stmtVars, answer>>

(* setUserStatusRow: an operator bans or approves.                         *)
SetUserStatus(u, status) ==
    /\ user[u] # status
    /\ user' = [user EXCEPT ![u] = status]
    /\ UNCHANGED <<memberVars, claims, spine, pc, req, stmtVars, answer, joinVars>>

(* setOperatingModeRow: the workspace is the one the caller's token names; *)
(* neither its role nor its member row is asked for.                       *)
SetOperatingMode(u, m) ==
    /\ mode[u] # m
    /\ mode' = [mode EXCEPT ![u] = m]
    /\ UNCHANGED <<member, grant, user, claims, spine, pc, req, stmtVars, answer, joinVars>>

-----------------------------------------------------------------------------
Step(a) ==
    \/ RemovesSelf(a) \/ StartStatement(a) \/ LockTarget(a) \/ TargetMissing(a)
    \/ LockOwner(a) \/ RefuseLastOwner(a) \/ KeyConflict(a) \/ Commit(a)
    \/ Replay(a) \/ Fails(a)

Next ==
    \/ \E a \in Attempts : Step(a)
    \/ \E s \in Sessions : JoinGuardMember(s) \/ JoinGuardUser(s) \/ JoinCommit(s)
    \/ \E s \in Sessions, status \in {"approved", "banned"} : SetUserStatus(Invitee(s), status)
    \/ \E u \in Switchers, m \in {"watch", "operator"} : SetOperatingMode(u, m)

Spec == Init /\ [][Next]_vars

-----------------------------------------------------------------------------
(* Properties.                                                             *)

Results == Requests \X Attempts

(* Every variable has its type.                                            *)
TypeOK ==
    /\ member \in [Users -> Members]
    /\ grant \in [Users -> Grants]
    /\ mode \in [Users -> Modes]
    /\ user \in [Users -> {"pending", "approved", "banned"}]
    /\ claims \in [Keys -> Results \union {NoResult}]
    /\ spine \subseteq Results
    /\ pc \in [Attempts -> {"idle", "target", "owners", "replay", "find", "done"}]
    /\ req \in [Attempts -> Requests]
    /\ snap \in [Attempts -> [Users -> Members]]
    /\ held \in [Attempts -> SUBSET Users]
    /\ want \in [Attempts -> SUBSET Users]
    /\ answer \in [Attempts -> Results \union {NoAnswer, Refused}]
    /\ jpc \in [Sessions -> {"idle", "user", "commit", "done"}]
    /\ late \subseteq Users

(* The workspace keeps an active owner, whatever demotions and removals of *)
(* owners overlap: the last-owner guard counts rows it has locked.         *)
WorkspaceHasOwner == OwnersIn(member) # {}

(* getAppEntitlementRow and canActOnSpine: what a write asks for.          *)
MayWrite(u) == Active(member, u) /\ grant[u] = "full" /\ mode[u] = "operator"

(* Everybody may enter operator mode, yet only an active member with an    *)
(* operator-grade role may write: the entitlement is the mirror of the     *)
(* membership through overlapping commands and sessions.  It is out of     *)
(* step only while a materialization that had seen no member row was the   *)
(* last to write it; it then mirrors the role of that invitation, which a  *)
(* demotion since does not take away, until the next command on the user.  *)
AuthorityFollowsMembership ==
    \A u \in Users :
        /\ MayWrite(u) => OperatorGrade(member[u].role) \/ u \in late
        /\ u \in late => \E s \in Sessions :
                            Invitee(s) = u /\ grant[u] = Mirror(Invited[s].role)
        /\ u \notin late =>
            grant[u] = CASE member[u].status = "none" -> "none"
                         [] member[u].status = "removed" -> "revoked"
                         [] OTHER -> Mirror(member[u].role)

(* A materialization changes no member row that exists when it commits (no *)
(* removed member comes back, no role changes) and lifts no ban, whatever  *)
(* happened since its guards read.                                         *)
JoinOnlyAdds ==
    [][\A s \in Sessions : jpc[s] = "commit" /\ jpc'[s] = "done" =>
        \A u \in Users :
            /\ member[u].status # "none" => member'[u] = member[u]
            /\ user[u] = "banned" => user'[u] = "banned"]_vars

(* Role changes whose statement began before any command had the key.      *)
ChangingRole == {a \in Attempts : pc[a] \in {"target", "owners"} /\ req[a].op = "role"}

(* A role change or removal is performed once per key, and a key is not    *)
(* good for a second request.  An exact retry is told the first receipt,   *)
(* if it is answered: a removal also when the two overlapped and it finds  *)
(* the member gone; a role change only when it started after the first one *)
(* committed, for an overlapping one is refused if its member has been     *)
(* removed meanwhile.  The member commands implement StrictCommand.        *)
Strict == INSTANCE StrictCommand WITH
    outcome <- claims, effects <- spine, early <- ChangingRole, stray <- {}
ImplementsStrictCommand == Strict!Spec
=============================================================================
