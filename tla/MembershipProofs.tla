-------------------------- MODULE MembershipProofs --------------------------
(***************************************************************************)
(* Theorems about Membership, for every set of users, requests, attempts   *)
(* and sessions: type correctness, the owner a workspace keeps, what a     *)
(* materialization leaves alone, the entitlements' agreement with the      *)
(* memberships, and the refinement of StrictCommand.                       *)
(***************************************************************************)
EXTENDS Membership, FiniteSetTheorems, TLAPS

(* The key of an attempt's request is one of the keys, its target a user.  *)
LEMMA RequestOf ==
    ASSUME req \in [Attempts -> Requests], NEW a \in Attempts
    PROVE  /\ Key(a) \in Keys /\ Target(a) \in Users
           /\ req[a].op \in {"role", "remove"}
           /\ req[a].op = "role" => req[a].role \in Roles
  BY RequestsAssumption DEF Key, Keys, KeyOf, Target

(* An invitee is a user, invited as operator or viewer.                    *)
LEMMA InviteeOf ==
    ASSUME NEW s \in Sessions
    PROVE  Invitee(s) \in Users /\ Invited[s].role \in {"operator", "viewer"}
  BY InvitedAssumption DEF Invitee

(* The member row that a role makes.                                       *)
LEMMA RowType ==
    ASSUME NEW role \in Roles
    PROVE  Row(role) \in Members /\ Row(role).status = "active" /\ Row(role).role = role
  BY DEF Row, Members, Roles

(* The entitlement that mirrors a role.                                    *)
LEMMA MirrorType ==
    ASSUME NEW role \in Roles
    PROVE  Mirror(role) \in {"full", "watch", "denied"}
  BY DEF Mirror, OperatorGrade, Roles

-----------------------------------------------------------------------------
(* Every step keeps the types. *)
LEMMA TypeStep == TypeOK /\ [Next]_vars => TypeOK'
  <1> SUFFICES ASSUME TypeOK, [Next]_vars PROVE TypeOK'
    OBVIOUS
  <1> USE DEF TypeOK, memberVars, stmtVars, joinVars, Goto, Answer
  <1>1. CASE UNCHANGED vars
    BY <1>1 DEF vars
  <1>2. ASSUME NEW a \in Attempts, Step(a) PROVE TypeOK'
    <2>0. /\ Key(a) \in Keys /\ Target(a) \in Users
          /\ <<req[a], a>> \in Results
          /\ claims[Key(a)] \in Results \union {NoResult}
      BY RequestOf DEF Results
    <2>1. CASE RemovesSelf(a)
      BY <2>1 DEF RemovesSelf
    <2>2. CASE StartStatement(a)
      BY <2>2 DEF StartStatement
    <2>3. CASE LockTarget(a)
      BY <2>0, <2>3 DEF LockTarget, OwnersIn
    <2>4. CASE TargetMissing(a)
      BY <2>4 DEF TargetMissing, TargetGone
    <2>5. CASE LockOwner(a)
      BY <2>5 DEF LockOwner
    <2>6. CASE RefuseLastOwner(a)
      BY <2>6 DEF RefuseLastOwner, EndStatement
    <2>7. CASE KeyConflict(a)
      BY <2>7 DEF KeyConflict, EndStatement
    <2>8. CASE Commit(a)
      <3>0. member[Target(a)] \in Members
        BY <2>0
      <3>1. MemberAfter(a) \in Members
        <4>1. [member[Target(a)] EXCEPT !.status = "removed"] \in Members
          BY <3>0 DEF Members
        <4>2. QED
          BY <4>1, RequestOf, RowType DEF MemberAfter
      <3>2. GrantAfter(a) \in Grants
        BY <2>0, RequestOf, MirrorType DEF GrantAfter, Grants
      <3>3. ModeAfter(a) \in Modes
        BY <2>0 DEF ModeAfter, Modes
      <3>4. QED
        BY <2>0, <2>8, <3>1, <3>2, <3>3 DEF Commit, EndStatement
    <2>9. CASE Replay(a)
      BY <2>0, <2>9 DEF Replay
    <2>10. CASE Fails(a)
      BY <2>10 DEF Fails, EndStatement
    <2>11. QED
      BY <1>2, <2>1, <2>2, <2>3, <2>4, <2>5, <2>6, <2>7, <2>8, <2>9, <2>10 DEF Step
  <1>3. ASSUME NEW s \in Sessions, JoinGuardMember(s) \/ JoinGuardUser(s) PROVE TypeOK'
    BY <1>3 DEF JoinGuardMember, JoinGuardUser
  <1>4. ASSUME NEW s \in Sessions, JoinCommit(s) PROVE TypeOK'
    <2>0. Invitee(s) \in Users /\ Invited[s].role \in Roles
      BY InviteeOf DEF Roles
    <2>1. JoinedMember(s) \in Members
      BY <2>0, RowType DEF JoinedMember
    <2>2. Mirror(Invited[s].role) \in Grants
      BY <2>0, MirrorType DEF Grants
    <2>3. JoinedMode(s) \in Modes
      BY <2>0 DEF JoinedMode, Modes
    <2>4. QED
      BY <1>4, <2>0, <2>1, <2>2, <2>3 DEF JoinCommit
  <1>5. ASSUME NEW s \in Sessions, NEW status \in {"approved", "banned"},
               SetUserStatus(Invitee(s), status)
        PROVE  TypeOK'
    BY <1>5, InviteeOf DEF SetUserStatus
  <1>6. ASSUME NEW u \in Switchers, NEW m \in {"watch", "operator"}, SetOperatingMode(u, m)
        PROVE  TypeOK'
    BY <1>6, OwnerAssumption DEF SetOperatingMode, Modes
  <1>7. QED
    BY <1>1, <1>2, <1>3, <1>4, <1>5, <1>6 DEF Next

(* Type correctness of memberships, entitlements and member commands.      *)
THEOREM TypeCorrect == Spec => []TypeOK
  <1>1. Init => TypeOK
    <2> SUFFICES ASSUME Init PROVE TypeOK
      OBVIOUS
    <2>1. ASSUME NEW u \in Users
          PROVE  /\ Row(Roles0[u]) \in Members
                 /\ Roles0[u] # "none" => Mirror(Roles0[u]) \in Grants
      BY RolesAssumption, MirrorType DEF Row, Members, Grants
    <2>2. member \in [Users -> Members] /\ grant \in [Users -> Grants] /\ mode \in [Users -> Modes]
      BY <2>1 DEF Init, Modes, Grants
    <2>3. QED
      BY <2>2 DEF Init, TypeOK
  <1>2. QED
    BY <1>1, TypeStep, PTL DEF Spec

-----------------------------------------------------------------------------
(* Which steps write a member row, and what they leave of the others.      *)
LEMMA MemberWritten ==
    ASSUME TypeOK, [Next]_vars, member' # member
    PROVE  \/ \E a \in Attempts : Commit(a)
           \/ \E s \in Sessions : JoinCommit(s)
  BY DEF Next, vars, memberVars, Step, RemovesSelf, StartStatement, LockTarget, TargetMissing,
         LockOwner, RefuseLastOwner, KeyConflict, Replay, Fails, JoinGuardMember, JoinGuardUser,
         SetUserStatus, SetOperatingMode

(* More than one owner counted: one of them is not the target.             *)
LEMMA AnotherOwner ==
    ASSUME NEW a \in Attempts, ~(Cardinality(OwnersCounted(a)) <= 1)
    PROVE  \E u \in Users : u # Target(a) /\ IsOwner(member, u)
  <1> SUFFICES ASSUME \A u \in Users : IsOwner(member, u) => u = Target(a)
               PROVE  Cardinality(OwnersCounted(a)) <= 1
    OBVIOUS
  <1>1. OwnersCounted(a) \subseteq {Target(a)}
    BY DEF OwnersCounted, OwnersIn
  <1>2. OwnersCounted(a) = {} \/ OwnersCounted(a) = {Target(a)}
    BY <1>1
  <1>3. Cardinality(OwnersCounted(a)) = 0 \/ Cardinality(OwnersCounted(a)) = 1
    BY <1>2, FS_EmptySet, FS_Singleton
  <1>4. QED
    BY <1>3

(* Every step leaves an owner: a command that takes the role from one      *)
(* counted another that is an owner when it commits.                       *)
LEMMA OwnerStep == TypeOK /\ WorkspaceHasOwner /\ [Next]_vars => WorkspaceHasOwner'
  <1> SUFFICES ASSUME TypeOK, WorkspaceHasOwner, [Next]_vars PROVE WorkspaceHasOwner'
    OBVIOUS
  <1>0. PICK o \in Users : IsOwner(member, o)
    BY DEF WorkspaceHasOwner, OwnersIn
  <1>1. CASE member' = member
    BY <1>1 DEF WorkspaceHasOwner, OwnersIn, IsOwner, Active
  <1>2. ASSUME NEW a \in Attempts, Commit(a) PROVE WorkspaceHasOwner'
    <2>0. Target(a) \in Users /\ req[a].op \in {"role", "remove"}
      BY RequestOf DEF TypeOK
    <2>1. /\ ~LastOwner(a)
          /\ member'[Target(a)] = MemberAfter(a)
          /\ \A u \in Users : u # Target(a) => member'[u] = member[u]
      BY <1>2, <2>0 DEF Commit, TypeOK
    <2>2. CASE LosesOwner(a)
      BY <2>1, <2>2, AnotherOwner DEF LastOwner, WorkspaceHasOwner, OwnersIn, IsOwner, Active
    <2>3. CASE ~LosesOwner(a) /\ o # Target(a)
      BY <1>0, <2>1, <2>3 DEF WorkspaceHasOwner, OwnersIn, IsOwner, Active
    <2>4. CASE ~LosesOwner(a) /\ o = Target(a)
      <3>1. req[a].op = "role" /\ req[a].role = "owner"
        BY <1>0, <2>0, <2>4 DEF LosesOwner
      <3>2. member'[o].status = "active" /\ member'[o].role = "owner"
        BY <2>1, <2>4, <3>1, RowType DEF MemberAfter, Roles
      <3>3. QED
        BY <3>2 DEF WorkspaceHasOwner, OwnersIn, IsOwner, Active
    <2>5. QED
      BY <2>2, <2>3, <2>4
  <1>3. ASSUME NEW s \in Sessions, JoinCommit(s) PROVE WorkspaceHasOwner'
    <2>1. member'[o] = member[o]
      BY <1>0, <1>3, InviteeOf DEF JoinCommit, JoinedMember, IsOwner, Active, TypeOK
    <2>2. QED
      BY <1>0, <2>1 DEF WorkspaceHasOwner, OwnersIn, IsOwner, Active
  <1>4. QED
    BY <1>1, <1>2, <1>3, MemberWritten

(* However role changes and removals of owners overlap, the workspace      *)
(* keeps an active owner (last_owner guard of setWorkspaceMemberRoleRow    *)
(* and removeWorkspaceMemberRow).                                          *)
THEOREM WorkspaceKeepsOwner == Spec => []WorkspaceHasOwner
  <1>1. Init => WorkspaceHasOwner
    <2> SUFFICES ASSUME Init PROVE WorkspaceHasOwner
      OBVIOUS
    <2>1. PICK u \in Users : Roles0[u] = "owner"
      BY RolesAssumption
    <2>2. member[u].status = "active" /\ member[u].role = "owner"
      BY <2>1, RowType DEF Init, Roles
    <2>3. QED
      BY <2>2 DEF WorkspaceHasOwner, OwnersIn, IsOwner, Active
  <1>2. QED
    BY <1>1, TypeCorrect, OwnerStep, PTL DEF Spec

-----------------------------------------------------------------------------
(* A materialization neither brings a removed member back, nor changes a   *)
(* role, nor lifts a ban, whatever happened since its guards read          *)
(* (materializeInvitedMembershipRow).                                      *)
THEOREM MaterializationOnlyAdds == Spec => JoinOnlyAdds
  <1> DEFINE OnlyAdds ==
        \A s \in Sessions : jpc[s] = "commit" /\ jpc'[s] = "done" =>
            \A u \in Users : /\ member[u].status # "none" => member'[u] = member[u]
                             /\ user[u] = "banned" => user'[u] = "banned"
  <1>1. ASSUME TypeOK, [Next]_vars, NEW s \in Sessions, jpc[s] = "commit", jpc'[s] = "done",
               NEW u \in Users
        PROVE  /\ member[u].status # "none" => member'[u] = member[u]
               /\ user[u] = "banned" => user'[u] = "banned"
    <2>1. jpc' # jpc
      BY <1>1
    <2>2. PICK t \in Sessions : JoinGuardMember(t) \/ JoinGuardUser(t) \/ JoinCommit(t)
      BY <1>1, <2>1 DEF Next, vars, joinVars, Step, RemovesSelf, StartStatement, LockTarget,
         TargetMissing, LockOwner, RefuseLastOwner, KeyConflict, Commit, Replay, Fails,
         SetUserStatus, SetOperatingMode
    <2>3. CASE JoinCommit(t)
      BY <2>3, <1>1, InviteeOf DEF JoinCommit, JoinedMember, TypeOK
    <2>4. CASE JoinGuardMember(t) \/ JoinGuardUser(t)
      BY <2>4 DEF JoinGuardMember, JoinGuardUser, memberVars
    <2>5. QED
      BY <2>2, <2>3, <2>4
  <1>2. TypeOK /\ [Next]_vars => [OnlyAdds]_vars
    BY <1>1
  <1>3. QED
    BY <1>2, TypeCorrect, PTL DEF Spec, JoinOnlyAdds

-----------------------------------------------------------------------------
(* What AuthorityFollowsMembership says of the entitlement of one user,    *)
(* and that an active member has a role.                                   *)
UserFollows(u) ==
    /\ member[u].status = "active" => member[u].role \in Roles
    /\ u \in late => \E s \in Sessions : Invitee(s) = u /\ grant[u] = Mirror(Invited[s].role)
    /\ u \notin late => /\ member[u].status = "none" => grant[u] = "none"
                        /\ member[u].status = "removed" => grant[u] = "revoked"
                        /\ member[u].status = "active" => grant[u] = Mirror(member[u].role)

(* Only an operator-grade role has a full entitlement for its mirror.      *)
LEMMA FullIsOperatorGrade ==
    ASSUME NEW role \in Roles, Mirror(role) = "full"
    PROVE  OperatorGrade(role)
  BY DEF Mirror, OperatorGrade, Roles

(* The entitlements' agreement is what the property asks for.              *)
LEMMA AuthorityByUser ==
    ASSUME TypeOK, \A u \in Users : UserFollows(u)
    PROVE  AuthorityFollowsMembership
  <1> SUFFICES ASSUME NEW u \in Users
               PROVE  /\ MayWrite(u) => OperatorGrade(member[u].role) \/ u \in late
                      /\ u \in late => \E s \in Sessions :
                            Invitee(s) = u /\ grant[u] = Mirror(Invited[s].role)
                      /\ u \notin late =>
                            grant[u] = CASE member[u].status = "none" -> "none"
                                         [] member[u].status = "removed" -> "revoked"
                                         [] OTHER -> Mirror(member[u].role)
    BY DEF AuthorityFollowsMembership
  <1>1. member[u].status \in {"none", "active", "removed"}
    BY DEF TypeOK, Members
  <1>2. ASSUME MayWrite(u), u \notin late PROVE OperatorGrade(member[u].role)
    <2>1. grant[u] = "full" /\ member[u].status = "active"
      BY <1>2 DEF MayWrite, Active
    <2>2. Mirror(member[u].role) = "full"
      BY <1>2, <2>1 DEF UserFollows
    <2>3. member[u].role \in Roles
      BY <2>1 DEF UserFollows
    <2>4. QED
      BY <2>2, <2>3, FullIsOperatorGrade
  <1>3. QED
    BY <1>1, <1>2 DEF UserFollows

(* Every step keeps each user's entitlement in step: a command writes      *)
(* member and entitlement in one statement, and so does a materialization  *)
(* that creates the row.                                                   *)
LEMMA AuthorityStep ==
    ASSUME TypeOK, \A u \in Users : UserFollows(u), [Next]_vars
    PROVE  \A u \in Users : UserFollows(u)'
  <1>1. CASE UNCHANGED <<member, grant, late>>
    BY <1>1 DEF UserFollows
  <1>2. ASSUME NEW a \in Attempts, Commit(a), NEW u \in Users PROVE UserFollows(u)'
    <2>0. /\ Target(a) \in Users /\ req[a].op \in {"role", "remove"}
          /\ req[a].op = "role" => req[a].role \in Roles
      BY RequestOf DEF TypeOK
    <2>1. /\ member'[u] = IF u = Target(a) THEN MemberAfter(a) ELSE member[u]
          /\ grant'[u] = IF u = Target(a) THEN GrantAfter(a) ELSE grant[u]
          /\ late' = late \ {Target(a)}
      BY <1>2, <2>0 DEF Commit, TypeOK
    <2>2. CASE u # Target(a)
      BY <2>1, <2>2 DEF UserFollows
    <2>3. CASE u = Target(a) /\ req[a].op = "remove"
      <3>1. member[u] \in Members
        BY DEF TypeOK
      <3>2. member'[u].status = "removed" /\ grant'[u] = "revoked" /\ u \notin late'
        BY <2>1, <2>3, <3>1 DEF MemberAfter, GrantAfter, Members
      <3>3. QED
        BY <3>2 DEF UserFollows
    <2>4. CASE u = Target(a) /\ req[a].op = "role"
      <3>1. /\ member'[u].status = "active" /\ member'[u].role = req[a].role
            /\ grant'[u] = Mirror(req[a].role) /\ u \notin late'
        BY <2>0, <2>1, <2>4, RowType DEF MemberAfter, GrantAfter
      <3>2. QED
        BY <2>0, <2>4, <3>1 DEF UserFollows
    <2>5. QED
      BY <2>0, <2>2, <2>3, <2>4
  <1>3. ASSUME NEW s \in Sessions, JoinCommit(s), NEW u \in Users PROVE UserFollows(u)'
    <2>0. Invitee(s) \in Users /\ Invited[s].role \in Roles
      BY InviteeOf DEF Roles
    <2>1. CASE u # Invitee(s)
      BY <1>3, <2>0, <2>1 DEF JoinCommit, UserFollows, TypeOK
    <2>2. CASE u = Invitee(s) /\ member[u].status = "none"
      <3>1. /\ member'[u].status = "active" /\ member'[u].role = Invited[s].role
            /\ grant'[u] = Mirror(Invited[s].role)
        BY <1>3, <2>0, <2>2, RowType DEF JoinCommit, JoinedMember, TypeOK
      <3>2. QED
        BY <2>0, <2>2, <3>1 DEF UserFollows
    <2>3. CASE u = Invitee(s) /\ member[u].status # "none"
      <3>1. grant'[u] = Mirror(Invited[s].role) /\ u \in late' /\ member'[u] = member[u]
        BY <1>3, <2>0, <2>3 DEF JoinCommit, JoinedMember, TypeOK
      <3>2. QED
        BY <2>3, <3>1 DEF UserFollows
    <2>4. QED
      BY <2>1, <2>2, <2>3
  <1>4. QED
    BY <1>1, <1>2, <1>3 DEF Next, vars, memberVars, joinVars, Step, RemovesSelf, StartStatement,
       LockTarget, TargetMissing, LockOwner, RefuseLastOwner, KeyConflict, Replay, Fails,
       JoinGuardMember, JoinGuardUser, SetUserStatus, SetOperatingMode

(* Only an active member with an operator-grade role may write, and the    *)
(* entitlement follows the membership through role changes, removals and   *)
(* materializations, whatever mode the users choose; the exception is a    *)
(* user whose entitlement was last written by a materialization behind     *)
(* another one (member-authority-provisioning.ts, invite-membership-store, *)
(* session-preferences-store, canActOnSpine).                              *)
THEOREM AuthorityIsMirrored == Spec => []AuthorityFollowsMembership
  <1> DEFINE Inv == \A u \in Users : UserFollows(u)
  <1>1. TypeOK /\ Init => Inv
    <2> SUFFICES ASSUME TypeOK, Init, NEW u \in Users PROVE UserFollows(u)
      OBVIOUS
    <2>0. Roles0[u] \in Roles \union {"none"}
      BY RolesAssumption
    <2>1. CASE Roles0[u] = "none"
      BY <2>1 DEF Init, Row, UserFollows
    <2>2. CASE Roles0[u] \in Roles
      <3>1. Roles0[u] # "none"
        BY <2>2 DEF Roles
      <3>2. QED
        BY <2>2, <3>1, RowType DEF Init, UserFollows
    <2>3. QED
      BY <2>0, <2>1, <2>2
  <1>2. TypeOK /\ Inv /\ [Next]_vars => Inv'
    BY AuthorityStep
  <1>3. TypeOK /\ Inv => AuthorityFollowsMembership
    BY AuthorityByUser
  <1> HIDE DEF Inv
  <1>4. QED
    BY <1>1, <1>2, <1>3, TypeCorrect, PTL DEF Spec

-----------------------------------------------------------------------------
(* An attempt is answered once. *)
AnsweredOnce == \A a \in Attempts : pc[a] # "done" => answer[a] = NoAnswer

(* Every step that answers an attempt ends it.                             *)
LEMMA AnswerStep == TypeOK /\ AnsweredOnce /\ [Next]_vars => AnsweredOnce'
  <1> SUFFICES ASSUME TypeOK, AnsweredOnce, [Next]_vars PROVE AnsweredOnce'
    OBVIOUS
  <1>1. ASSUME NEW a \in Attempts, Step(a) PROVE AnsweredOnce'
    <2>1. pc[a] # "done" /\ ((\E label : Goto(a, label)) \/ (\E r : Answer(a, r)) \/ LockOwner(a))
      BY <1>1 DEF Step, RemovesSelf, StartStatement, LockTarget, TargetMissing, TargetGone,
         LockOwner, RefuseLastOwner, KeyConflict, Commit, Replay, Fails, Locked
    <2>2. ASSUME NEW r, Answer(a, r) PROVE AnsweredOnce'
      BY <2>2 DEF Answer, AnsweredOnce, TypeOK
    <2>3. ASSUME NEW label, Goto(a, label) PROVE AnsweredOnce'
      BY <2>1, <2>3 DEF Goto, AnsweredOnce, TypeOK
    <2>4. CASE LockOwner(a)
      BY <2>4 DEF LockOwner, AnsweredOnce
    <2>5. QED
      BY <2>1, <2>2, <2>3, <2>4
  <1>2. CASE UNCHANGED <<pc, answer>>
    BY <1>2 DEF AnsweredOnce
  <1>3. QED
    BY <1>1, <1>2 DEF Next, vars, JoinGuardMember, JoinGuardUser, JoinCommit, SetUserStatus,
       SetOperatingMode

(* Who is at work in a statement holds its target, and no two hold a row.  *)
LocksHold ==
    /\ \A a \in Attempts : pc[a] = "owners" => Target(a) \in held[a] /\ Active(member, Target(a))
    /\ \A a, b \in Attempts : a # b => held[a] \intersect held[b] = {}

(* What a receipt says has been done: a removal of somebody else, who has  *)
(* stayed removed.                                                         *)
RemovalsStand ==
    /\ \A k \in Keys : claims[k] # NoResult =>
          /\ KeyOf(claims[k][1]) = k
          /\ claims[k][1].op = "remove" =>
                claims[k][1].user # Owner /\ member[claims[k][1].user].status = "removed"
    /\ \A a \in Attempts : pc[a] \in {"target", "owners"} /\ req[a].op = "remove"
          => Target(a) # Owner

ReceiptInv == AnsweredOnce /\ LocksHold /\ RemovalsStand

(* Row locks are exclusive, and only their holder commands the target.     *)
LEMMA LocksStep == TypeOK /\ LocksHold /\ [Next]_vars => LocksHold'
  <1> SUFFICES ASSUME TypeOK, LocksHold, [Next]_vars PROVE LocksHold'
    OBVIOUS
  <1> USE DEF LocksHold, Goto, Answer, Target
  <1>1. CASE UNCHANGED <<member, pc, req, held>>
    BY <1>1 DEF Active
  <1>2. ASSUME NEW s \in Sessions, JoinCommit(s) PROVE LocksHold'
    BY <1>2, InviteeOf DEF JoinCommit, JoinedMember, stmtVars, Active, TypeOK
  <1>3. ASSUME NEW a \in Attempts, Step(a) PROVE LocksHold'
    <2>1. CASE LockTarget(a)
      BY <2>1 DEF LockTarget, Unlocked, memberVars, Active, TypeOK
    <2>2. CASE LockOwner(a)
      BY <2>2 DEF LockOwner, Unlocked, memberVars, Active, TypeOK
    <2>3. CASE Commit(a)
      <3>0. Target(a) \in Users /\ pc[a] = "owners"
        BY <2>3, RequestOf DEF TypeOK, Commit, Locked
      <3>1. /\ held' = [held EXCEPT ![a] = {}] /\ req' = req
            /\ pc' = [pc EXCEPT ![a] = "done"]
            /\ \A u \in Users : u # Target(a) => member'[u] = member[u]
        BY <2>3, <3>0 DEF Commit, EndStatement, TypeOK
      <3>2. ASSUME NEW b \in Attempts, pc'[b] = "owners"
            PROVE  Target(b) \in held'[b] /\ Active(member', Target(b))
        <4>1. b # a /\ pc[b] = "owners" /\ held'[b] = held[b]
          BY <3>1, <3>2 DEF TypeOK
        <4>2. Target(b) \in held[b] /\ Active(member, Target(b)) /\ Target(a) \in held[a]
          BY <3>0, <4>1
        <4>3. Target(b) # Target(a) /\ Target(b) \in Users
          BY <4>1, <4>2, RequestOf DEF TypeOK
        <4>4. QED
          BY <3>1, <4>1, <4>2, <4>3 DEF Active
      <3>3. \A b, c \in Attempts : b # c => held'[b] \intersect held'[c] = {}
        BY <3>1 DEF TypeOK
      <3>4. QED
        BY <3>1, <3>2, <3>3 DEF Active
    <2>4. CASE RefuseLastOwner(a) \/ KeyConflict(a) \/ Fails(a)
      <3>1. /\ held' = [held EXCEPT ![a] = {}] /\ UNCHANGED <<member, req>>
            /\ \A b \in Attempts : pc'[b] = "owners" => b # a /\ pc[b] = "owners"
        BY <2>4 DEF RefuseLastOwner, KeyConflict, Fails, EndStatement, memberVars, TypeOK
      <3>2. QED
        BY <3>1 DEF Active, TypeOK
    <2>5. CASE RemovesSelf(a) \/ StartStatement(a) \/ TargetMissing(a) \/ Replay(a)
      BY <2>5 DEF RemovesSelf, StartStatement, TargetMissing, TargetGone, Replay, memberVars,
         stmtVars, Active, TypeOK
    <2>6. QED
      BY <1>3, <2>1, <2>2, <2>3, <2>4, <2>5 DEF Step
  <1>4. QED
    BY <1>1, <1>2, <1>3 DEF Next, vars, memberVars, stmtVars, JoinGuardMember, JoinGuardUser,
       SetUserStatus, SetOperatingMode

(* Nobody makes a removed member active again.                             *)
LEMMA RemovalsStep == TypeOK /\ LocksHold /\ RemovalsStand /\ [Next]_vars => RemovalsStand'
  <1> SUFFICES ASSUME TypeOK, LocksHold, RemovalsStand, [Next]_vars PROVE RemovalsStand'
    OBVIOUS
  <1> USE DEF Goto, Answer
  <1>1. CASE UNCHANGED <<member, claims, pc, req>>
    BY <1>1 DEF RemovalsStand, Target
  <1>0. \A k \in Keys : claims[k] # NoResult => claims[k][1].user \in Users
    BY RequestsAssumption DEF TypeOK, Results
  <1>2. ASSUME NEW s \in Sessions, JoinCommit(s) PROVE RemovalsStand'
    <2>1. \A u \in Users : member[u].status = "removed" => member'[u] = member[u]
      BY <1>2, InviteeOf DEF JoinCommit, JoinedMember, TypeOK
    <2>2. UNCHANGED <<claims, pc, req>>
      BY <1>2 DEF JoinCommit
    <2>3. QED
      BY <1>0, <2>1, <2>2 DEF RemovalsStand, Target
  <1>3. ASSUME NEW a \in Attempts, Step(a), ~Commit(a) PROVE RemovalsStand'
    <2>1. UNCHANGED <<member, claims, req>>
      BY <1>3 DEF Step, RemovesSelf, StartStatement, LockTarget, TargetMissing, LockOwner,
         RefuseLastOwner, KeyConflict, Replay, Fails, memberVars
    <2>2. \A b \in Attempts : pc'[b] \in {"target", "owners"} =>
             \/ pc[b] \in {"target", "owners"}
             \/ ~(req[b].op = "remove" /\ Target(b) = Owner)
      BY <1>3 DEF Step, RemovesSelf, StartStatement, LockTarget, TargetMissing, TargetGone,
         LockOwner, RefuseLastOwner, KeyConflict, Replay, Fails, TypeOK
    <2>3. QED
      BY <2>1, <2>2 DEF RemovalsStand, Target
  <1>4. ASSUME NEW a \in Attempts, Commit(a) PROVE RemovalsStand'
    <2>0. /\ Key(a) \in Keys /\ Target(a) \in Users /\ pc[a] = "owners"
          /\ req[a].op \in {"role", "remove"}
      BY <1>4, RequestOf DEF TypeOK, Commit, Locked
    <2>1. /\ claims' = [claims EXCEPT ![Key(a)] = <<req[a], a>>] /\ req' = req
          /\ pc' = [pc EXCEPT ![a] = "done"]
          /\ member' = [member EXCEPT ![Target(a)] = MemberAfter(a)]
      BY <1>4 DEF Commit
    <2>2. Active(member, Target(a)) /\ member[Target(a)] \in Members
      BY <2>0 DEF LocksHold, TypeOK
    <2>3. ASSUME NEW k \in Keys, claims'[k] # NoResult
          PROVE  /\ KeyOf(claims'[k][1]) = k
                 /\ claims'[k][1].op = "remove" =>
                      claims'[k][1].user # Owner /\ member'[claims'[k][1].user].status = "removed"
      <3>1. CASE k = Key(a)
        <4>1. claims'[k] = <<req[a], a>> /\ claims'[k][1] = req[a]
          BY <2>0, <2>1, <3>1 DEF TypeOK
        <4>2. ASSUME req[a].op = "remove" PROVE req[a].user # Owner
          BY <2>0, <4>2 DEF RemovalsStand, Target
        <4>3. ASSUME req[a].op = "remove" PROVE member'[Target(a)].status = "removed"
          BY <2>0, <2>1, <2>2, <4>3 DEF MemberAfter, Members, TypeOK
        <4>4. QED
          BY <3>1, <4>1, <4>2, <4>3 DEF Key, Target
      <3>2. CASE k # Key(a)
        <4>1. claims'[k] = claims[k]
          BY <2>1, <3>2 DEF TypeOK
        <4>2. ASSUME claims[k][1].op = "remove" PROVE claims[k][1].user # Target(a)
          BY <2>2, <2>3, <4>1, <4>2 DEF RemovalsStand, Active
        <4>3. QED
          BY <1>0, <2>1, <2>3, <4>1, <4>2 DEF RemovalsStand, TypeOK
      <3>3. QED
        BY <3>1, <3>2
    <2>4. \A b \in Attempts : pc'[b] \in {"target", "owners"} => pc[b] \in {"target", "owners"}
      BY <2>1 DEF TypeOK
    <2>5. QED
      BY <2>1, <2>3, <2>4 DEF RemovalsStand, Target
  <1>5. QED
    BY <1>1, <1>2, <1>3, <1>4 DEF Next, vars, memberVars, JoinGuardMember, JoinGuardUser,
       SetUserStatus, SetOperatingMode

(* A refused attempt's request has not been performed, or the attempt is a *)
(* role change that began before it was.                                   *)
LEMMA RefusedIsNotOwed ==
    ASSUME TypeOK, ReceiptInv, NEW a \in Attempts, Step(a),
           answer' = [answer EXCEPT ![a] = Refused], answer[a] # answer'[a]
    PROVE  ~Strict!Owed(a)
  <1> USE DEF Strict!Owed, Strict!Performed, Strict!NoResult, NoResult
  <1>0. Key(a) \in Keys /\ claims[Key(a)] \in Results \union {NoResult}
    BY RequestOf DEF TypeOK
  <1>1. CASE RemovesSelf(a)
    BY <1>0, <1>1 DEF RemovesSelf, ReceiptInv, RemovalsStand, Target, Key
  <1>2. CASE TargetMissing(a)
    <2>1. req[a].op # "remove"
      BY <1>2 DEF TargetMissing, TargetGone, Goto
    <2>2. a \in ChangingRole
      BY <1>2, <2>1, RequestOf DEF TargetMissing, ChangingRole, TypeOK
    <2>3. QED
      BY <2>2
  <1>3. CASE RefuseLastOwner(a)
    <2>1. pc[a] = "owners" /\ IsOwner(member, Target(a))
      BY <1>3 DEF RefuseLastOwner, Locked, LastOwner, LosesOwner
    <2>2. CASE req[a].op = "role"
      BY <2>1, <2>2 DEF ChangingRole
    <2>3. CASE req[a].op = "remove"
      BY <1>0, <2>1, <2>3 DEF IsOwner, Active, ReceiptInv, RemovalsStand, Target, Key
    <2>4. QED
      BY <2>2, <2>3, RequestOf DEF TypeOK
  <1>4. CASE Replay(a)
    <2>1. CASE claims[Key(a)] # NoResult /\ DigestMatches(a)
      <3>1. answer'[a] = claims[Key(a)] /\ answer'[a] = Refused
        BY <1>4, <2>1 DEF Replay, Answer, TypeOK
      <3>2. QED
        BY <1>0, <2>1, <3>1 DEF Results, Refused
    <2>2. CASE ~(claims[Key(a)] # NoResult /\ DigestMatches(a))
      BY <2>2 DEF DigestMatches, Key
    <2>3. QED
      BY <2>1, <2>2
  <1>5. CASE Commit(a)
    <2>1. claims[Key(a)] = NoResult
      BY <1>5 DEF Commit
    <2>2. QED
      BY <2>1 DEF Key
  <1>6. QED
    BY <1>1, <1>2, <1>3, <1>4, <1>5 DEF Step, StartStatement, LockTarget, LockOwner, KeyConflict,
       Fails, Goto

(* Only a role change whose key is free becomes one that began early.      *)
LEMMA EarlyStep ==
    ASSUME TypeOK, NEW a \in Attempts, Step(a)
    PROVE  Strict!Surroundings
  <1>1. req' = req
    BY DEF Step, RemovesSelf, StartStatement, LockTarget, TargetMissing, LockOwner,
       RefuseLastOwner, KeyConflict, Commit, Replay, Fails
  <1>2. ASSUME NEW b \in ChangingRole' \ ChangingRole PROVE claims[Key(b)] = NoResult
    <2>1. b \in Attempts /\ pc'[b] \in {"target", "owners"} /\ pc[b] \notin {"target", "owners"}
      BY <1>1, <1>2 DEF ChangingRole
    <2>2. QED
      BY <2>1 DEF Step, RemovesSelf, StartStatement, LockTarget, TargetMissing, TargetGone,
         LockOwner, RefuseLastOwner, KeyConflict, Commit, Replay, Fails, Goto, Answer, TypeOK
  <1>3. QED
    BY <1>2 DEF Strict!Surroundings, Strict!Performed, Strict!NoResult, NoResult, Key, ChangingRole

(* Every step is a step of StrictCommand, or leaves what it sees alone.    *)
LEMMA StrictStep == TypeOK /\ ReceiptInv /\ [Next]_vars => [Strict!Next]_(Strict!vars)
  <1> SUFFICES ASSUME TypeOK, ReceiptInv, [Next]_vars PROVE [Strict!Next]_(Strict!vars)
    OBVIOUS
  <1>1. CASE UNCHANGED <<req, claims, spine, answer, pc>>
    BY <1>1 DEF Strict!vars, ChangingRole
  <1>2. ASSUME NEW a \in Attempts, Commit(a) PROVE Strict!Next
    <2>0. Key(a) \in Keys
      BY RequestOf DEF TypeOK
    <2>1. /\ claims[Key(a)] = NoResult /\ pc[a] = "owners" /\ req' = req
          /\ claims' = [claims EXCEPT ![Key(a)] = <<req[a], a>>]
          /\ spine' = spine \union {<<req[a], a>>}
          /\ answer' = [answer EXCEPT ![a] = <<req[a], a>>]
      BY <1>2 DEF Commit, Locked, Answer
    <2>2. Strict!Perform(a)
      BY <2>1 DEF Strict!Perform, Strict!NoResult, NoResult, Key
    <2>3. claims'[Key(a)] = <<req[a], a>>
      BY <2>0, <2>1 DEF TypeOK
    <2>4. <<req[a], a>> # NoResult /\ <<req[a], a>>[1] = req[a]
      BY DEF NoResult
    <2>5. Strict!Report(a)
      BY <2>1, <2>3, <2>4 DEF Strict!Report, Strict!NoResult, NoResult, Strict!NoAnswer, NoAnswer,
         Key, ReceiptInv, AnsweredOnce
    <2>6. Strict!Surroundings
      BY <1>2, EarlyStep DEF Step
    <2>7. QED
      BY <2>1, <2>2, <2>5, <2>6 DEF Strict!Next, Strict!Call
  <1>3. ASSUME NEW a \in Attempts, Step(a), ~Commit(a) PROVE Strict!Next
    <2>1. UNCHANGED <<req, claims, spine>>
      BY <1>3 DEF Step, RemovesSelf, StartStatement, LockTarget, TargetMissing, LockOwner,
         RefuseLastOwner, KeyConflict, Replay, Fails
    <2>2. \/ UNCHANGED answer
          \/ /\ pc[a] # "done"
             /\ \/ answer' = [answer EXCEPT ![a] = Refused]
                \/ /\ answer' = [answer EXCEPT ![a] = claims[Key(a)]]
                   /\ claims[Key(a)] # NoResult
                   /\ claims[Key(a)][1] = req[a]
      BY <1>3 DEF Step, RemovesSelf, StartStatement, LockTarget, TargetMissing, TargetGone,
         LockOwner, RefuseLastOwner, KeyConflict, Replay, Fails, Locked, Goto, Answer,
         DigestMatches
    <2>3. Strict!Surroundings
      BY <1>3, EarlyStep
    <2>4. CASE UNCHANGED answer
      BY <2>1, <2>3, <2>4 DEF Strict!Next, Strict!Call
    <2>5. CASE pc[a] # "done" /\ answer' = [answer EXCEPT ![a] = Refused]
      <3>1. answer[a] = NoAnswer /\ answer'[a] = Refused /\ NoAnswer # Refused
        BY <2>5 DEF ReceiptInv, AnsweredOnce, NoAnswer, Refused, TypeOK
      <3>2. ~Strict!Owed(a)
        BY <1>3, <2>5, <3>1, RefusedIsNotOwed
      <3>3. Strict!Refuse(a)
        BY <2>5, <3>1, <3>2 DEF Strict!Refuse, Strict!NoAnswer, NoAnswer, Strict!Refused, Refused
      <3>4. QED
        BY <2>1, <2>3, <3>3 DEF Strict!Next, Strict!Call
    <2>6. CASE /\ pc[a] # "done"
               /\ answer' = [answer EXCEPT ![a] = claims[Key(a)]]
               /\ claims[Key(a)] # NoResult
               /\ claims[Key(a)][1] = req[a]
      <3>1. Strict!Report(a)
        BY <2>1, <2>6 DEF ReceiptInv, AnsweredOnce, Strict!Report, Strict!NoAnswer, NoAnswer,
           Strict!NoResult, NoResult, Key
      <3>2. QED
        BY <2>1, <2>3, <3>1 DEF Strict!Next, Strict!Call
    <2>7. QED
      BY <2>2, <2>4, <2>5, <2>6
  <1>4. QED
    BY <1>1, <1>2, <1>3 DEF Next, vars, JoinGuardMember, JoinGuardUser, JoinCommit, SetUserStatus,
       SetOperatingMode

(* The role change and the removal of a member implement StrictCommand:    *)
(* one receipt per key, told to the attempts of its request alone.         *)
THEOREM MemberCommandsAreStrict == Spec => ImplementsStrictCommand
  <1>1. Init => ReceiptInv /\ Strict!Init
    BY DEF Init, ReceiptInv, AnsweredOnce, LocksHold, RemovalsStand, ChangingRole, Strict!Init,
       Strict!Keys, Keys, Strict!NoResult, NoResult, Strict!NoAnswer, NoAnswer
  <1>2. TypeOK /\ ReceiptInv /\ [Next]_vars => ReceiptInv'
    BY AnswerStep, LocksStep, RemovalsStep DEF ReceiptInv
  <1>3. QED
    BY <1>1, <1>2, TypeCorrect, StrictStep, PTL
       DEF Spec, ImplementsStrictCommand, Strict!Spec

-----------------------------------------------------------------------------
(* Every step of a strict command lets the outcomes stand: a key with an   *)
(* outcome keeps it, and only an outcome is reported.                      *)
LEMMA OutcomeStep == Strict!OutcomesStand /\ [Strict!Next]_(Strict!vars) => Strict!OutcomesStand'
  <1> SUFFICES ASSUME Strict!OutcomesStand, [Strict!Next]_(Strict!vars) PROVE Strict!OutcomesStand'
    OBVIOUS
  <1> USE DEF Strict!OutcomesStand, Strict!Keys, Strict!NoResult, Strict!NoAnswer, Strict!Succeeded
  <1>1. CASE UNCHANGED Strict!vars
    BY <1>1 DEF Strict!vars
  <1>2. ASSUME NEW a \in Attempts, UNCHANGED <<req, claims, spine>>,
               Strict!Report(a) \/ Strict!Refuse(a) \/ UNCHANGED answer
        PROVE  Strict!OutcomesStand'
    BY <1>2 DEF Strict!Report, Strict!Refuse
  <1>3. ASSUME NEW a \in Attempts, UNCHANGED req, Strict!Perform(a),
               Strict!Report(a) \/ UNCHANGED answer
        PROVE  Strict!OutcomesStand'
    <2>1. \A k \in Keys : claims'[k] = IF k = KeyOf(req[a]) THEN <<req[a], a>> ELSE claims[k]
      BY <1>3 DEF Strict!Perform, Keys
    <2>2. \A e \in spine : KeyOf(e[1]) \in Keys /\ KeyOf(e[1]) # KeyOf(req[a])
      BY <1>3 DEF Strict!Perform, Keys
    <2>3. \A e \in spine' : claims'[KeyOf(e[1])] = e
      BY <1>3, <2>1, <2>2 DEF Strict!Perform, Keys
    <2>4. \A b \in Attempts : Strict!Succeeded(b) => KeyOf(req[b]) # KeyOf(req[a])
      BY <1>3 DEF Strict!Perform
    <2>5. QED
      BY <1>3, <2>1, <2>2, <2>3, <2>4 DEF Strict!Perform, Strict!Report, Keys
  <1>4. QED
    BY <1>1, <1>2, <1>3 DEF Strict!Next, Strict!Call

(* The member commands, seen by their callers: a key changes the           *)
(* membership once at most, a success is told of the caller's own request, *)
(* and retries are told the same.                                          *)
THEOREM MemberKeysHaveOneOutcome == Spec => []Strict!OneOutcomePerKey
  <1>1. Strict!Init => Strict!OutcomesStand
    BY DEF Strict!Init, Strict!OutcomesStand, Strict!Succeeded
  <1>2. Strict!OutcomesStand => Strict!OneOutcomePerKey
    BY DEF Strict!OutcomesStand, Strict!OneOutcomePerKey, Strict!Succeeded, Strict!NoResult,
       Strict!NoAnswer, Strict!Keys
  <1>3. QED
    BY <1>1, <1>2, OutcomeStep, MemberCommandsAreStrict, PTL DEF ImplementsStrictCommand, Strict!Spec
=============================================================================
