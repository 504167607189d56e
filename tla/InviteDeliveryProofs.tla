------------------------ MODULE InviteDeliveryProofs ------------------------
(***************************************************************************)
(* Theorems about InviteDelivery, for every set of requests and attempts:  *)
(* type correctness, the invitation a receipt names, the single sending of *)
(* a command by the attempts that keep to their lease, and the refinement  *)
(* of StrictCommand.                                                       *)
(***************************************************************************)
EXTENDS InviteDelivery, FiniteSetTheorems, TLAPS

(* The key of an attempt's request is one of the keys. *)
LEMMA KeyIn ==
    ASSUME req \in [Attempts -> Requests], NEW a \in Attempts
    PROVE  Key(a) \in Keys
  BY DEF Key, Keys, KeyOf

-----------------------------------------------------------------------------
(* A taken key carries a command id, and the attempts at work on the key   *)
(* deliver that command.                                                   *)
CommandKnown ==
    /\ \A k \in Keys : row[k] # NoRow => row[k].cmd \in Attempts /\ row[k].lease \in Attempts
    /\ \A a \in Attempts : pc[a] \notin {"idle", "done"} => row[Key(a)].cmd \in Attempts
    /\ \A a \in Attempts : Working(a) => cmd[a] = row[Key(a)].cmd

TypeInv == TypeOK /\ CommandKnown

(* A row that a statement writes keeps its type, and its command id.       *)
LEMMA RowWritten ==
    ASSUME NEW a \in Attempts, TypeOK, CommandKnown,
           Insert(a) \/ Reclaim(a) \/ Finalize(a) \/ (RecordFailure(a) /\ row' # row)
    PROVE  \E r \in Rows : /\ row' = [row EXCEPT ![Key(a)] = r]
                           /\ r.cmd \in Attempts /\ r.lease \in Attempts
                           /\ row[Key(a)].cmd \in Attempts => r.cmd = row[Key(a)].cmd
  <1> DEFINE old == row[Key(a)]
  <1>0. old \in Rows /\ req[a] \in Requests /\ Key(a) \in Keys
    BY KeyIn DEF TypeOK
  <1>1. CASE Insert(a)
    <2> DEFINE r == [NoRow EXCEPT !.digest = req[a], !.cmd = a, !.lease = a, !.active = TRUE]
    <2>1. r \in Rows /\ r.cmd = a /\ r.lease = a
      BY <1>0 DEF Rows, NoRow
    <2>2. row' = [row EXCEPT ![Key(a)] = r] /\ old.cmd = None
      BY <1>1 DEF Insert, NoRow
    <2>3. old.cmd \notin Attempts
      BY <2>2, NoneAssumption
    <2> HIDE DEF r
    <2>4. QED
      BY <2>1, <2>2, <2>3
  <1>2. CASE Reclaim(a)
    <2> DEFINE r == [old EXCEPT !.lease = a, !.active = TRUE]
    <2>1. r \in Rows /\ r.cmd = old.cmd /\ r.lease = a
      BY <1>0 DEF Rows
    <2>2. row' = [row EXCEPT ![Key(a)] = r] /\ old.cmd \in Attempts
      BY <1>2 DEF Reclaim, CommandKnown
    <2>3. QED
      BY <2>1, <2>2
  <1>3. CASE Finalize(a)
    <2> DEFINE r == [old EXCEPT !.result = <<req[a], a>>, !.inv = inv[a], !.active = FALSE]
    <2>1. r \in Rows /\ r.cmd = old.cmd /\ r.lease = old.lease
      BY <1>0 DEF Rows, Results, TypeOK
    <2>2. row' = [row EXCEPT ![Key(a)] = r] /\ old.cmd \in Attempts
      BY <1>3 DEF Finalize, CommandKnown
    <2>3. old.lease \in Attempts
      BY <1>0, <2>2, NoneAssumption DEF NoRow, CommandKnown
    <2>4. QED
      BY <2>1, <2>2, <2>3
  <1>4. CASE RecordFailure(a) /\ row' # row
    <2> DEFINE r == [old EXCEPT !.active = FALSE]
    <2>1. r \in Rows /\ r.cmd = old.cmd /\ r.lease = old.lease
      BY <1>0 DEF Rows
    <2>2. row' = [row EXCEPT ![Key(a)] = r] /\ old.cmd \in Attempts
      BY <1>4 DEF RecordFailure, CommandKnown
    <2>3. old.lease \in Attempts
      BY <1>0, <2>2, NoneAssumption DEF NoRow, CommandKnown
    <2>4. QED
      BY <2>1, <2>2, <2>3
  <1>5. QED
    BY <1>1, <1>2, <1>3, <1>4

(* What a step leaves of the rows: types, and every command id.            *)
LEMMA RowStep ==
    ASSUME TypeInv, [Next]_vars
    PROVE  /\ row' \in [Keys -> Rows]
           /\ \A k \in Keys : row[k].cmd \in Attempts => row'[k].cmd = row[k].cmd
           /\ \A k \in Keys : row'[k] # NoRow => row'[k].cmd \in Attempts /\ row'[k].lease \in Attempts
  <1> USE DEF TypeInv, TypeOK, CommandKnown
  <1>1. CASE row' = row
    BY <1>1
  <1>2. ASSUME NEW k \in Keys, NEW r \in Rows, row' = [row EXCEPT ![k] = r],
               r.cmd \in Attempts, r.lease \in Attempts, row[k].cmd \in Attempts => r.cmd = row[k].cmd
        PROVE  /\ row' \in [Keys -> Rows]
               /\ \A j \in Keys : row[j].cmd \in Attempts => row'[j].cmd = row[j].cmd
               /\ \A j \in Keys : row'[j] # NoRow => row'[j].cmd \in Attempts /\ row'[j].lease \in Attempts
    BY <1>2
  <1>3. ASSUME NEW a \in Attempts, Step(a) \/ Dies(a), row' # row
        PROVE  Insert(a) \/ Reclaim(a) \/ Finalize(a) \/ (RecordFailure(a) /\ row' # row)
    BY <1>3 DEF Step, Dies, InsertConflicts, ReadExisting, ReclaimLost, Find, Create,
                CreateUnheard, CallFails, FinalizeMisses, Reread
  <1>4. ASSUME NEW k \in Keys, Expire(k)
        PROVE  /\ [row[k] EXCEPT !.active = FALSE] \in Rows
               /\ [row[k] EXCEPT !.active = FALSE].cmd = row[k].cmd
               /\ [row[k] EXCEPT !.active = FALSE].lease = row[k].lease
               /\ row[k].cmd \in Attempts /\ row[k].lease \in Attempts
    <2>1. row[k] # NoRow
      BY <1>4 DEF Expire, NoRow
    <2>2. row[k] \in Rows
      OBVIOUS
    <2>3. QED
      BY <2>1, <2>2 DEF Rows
  <1>5. CASE \E k \in Keys : Expire(k)
    <2> PICK k \in Keys : Expire(k)
      BY <1>5
    <2> DEFINE r == [row[k] EXCEPT !.active = FALSE]
    <2>1. r \in Rows /\ r.cmd \in Attempts /\ r.lease \in Attempts /\ r.cmd = row[k].cmd
      BY <1>4
    <2>2. row' = [row EXCEPT ![k] = r]
      BY DEF Expire
    <2> HIDE DEF r
    <2>3. QED
      BY <2>1, <2>2, <1>2
  <1>6. CASE \E a \in Attempts : (Step(a) \/ Dies(a)) /\ row' # row
    <2> PICK a \in Attempts : (Step(a) \/ Dies(a)) /\ row' # row
      BY <1>6
    <2>1. PICK r \in Rows : /\ row' = [row EXCEPT ![Key(a)] = r]
                            /\ r.cmd \in Attempts /\ r.lease \in Attempts
                            /\ row[Key(a)].cmd \in Attempts => r.cmd = row[Key(a)].cmd
      BY <1>3, RowWritten
    <2>2. QED
      BY <2>1, <1>2, KeyIn
  <1>7. QED
    BY <1>1, <1>5, <1>6 DEF Next, vars

(* Every step keeps the types of everything but the rows.                  *)
LEMMA TypeStep == TypeInv /\ [Next]_vars => TypeOK'
  <1> SUFFICES ASSUME TypeInv, [Next]_vars PROVE TypeOK'
    OBVIOUS
  <1> row' \in [Keys -> Rows]
    BY RowStep
  <1> USE DEF TypeInv, TypeOK, Goto, Answer
  <1>1. CASE UNCHANGED vars
    BY <1>1 DEF vars
  <1>2. ASSUME NEW a \in Attempts, Step(a) \/ Dies(a) PROVE TypeOK'
    <2>0. /\ row[Key(a)] \in Rows
          /\ row[Key(a)].cmd \in Attempts \union {None}
          /\ row[Key(a)].result \in Results \union {NoResult}
          /\ <<req[a], a>> \in Results
          /\ Working(a) => <<cmd[a], a>> \in Commands
      BY KeyIn DEF Rows, CommandKnown, Commands, Results, Working
    <2>1. CASE Insert(a)
      BY <2>1 DEF Insert
    <2>2. CASE InsertConflicts(a)
      BY <2>2 DEF InsertConflicts
    <2>3. CASE ReadExisting(a)
      BY <2>0, <2>3 DEF ReadExisting, Completed
    <2>4. CASE Reclaim(a)
      BY <2>0, <2>4 DEF Reclaim, AfterReclaim
    <2>5. CASE ReclaimLost(a)
      BY <2>5 DEF ReclaimLost
    <2>6. CASE Find(a)
      BY <2>6 DEF Find, Invitations
    <2>7. CASE Create(a)
      BY <2>0, <2>7 DEF Create, Working
    <2>8. CASE CreateUnheard(a)
      BY <2>0, <2>8 DEF CreateUnheard, Working
    <2>9. CASE CallFails(a)
      BY <2>9 DEF CallFails
    <2>10. CASE Finalize(a)
      BY <2>0, <2>10 DEF Finalize
    <2>11. CASE FinalizeMisses(a)
      BY <2>11 DEF FinalizeMisses
    <2>12. CASE Reread(a)
      BY <2>0, <2>12 DEF Reread, Completed
    <2>13. CASE RecordFailure(a)
      BY <2>13 DEF RecordFailure
    <2>14. CASE Dies(a)
      BY <2>14 DEF Dies
    <2>15. QED
      BY <1>2, <2>1, <2>2, <2>3, <2>4, <2>5, <2>6, <2>7, <2>8, <2>9, <2>10, <2>11, <2>12,
         <2>13, <2>14 DEF Step
  <1>3. ASSUME NEW k \in Keys, Expire(k) PROVE TypeOK'
    <2>1. row[k].lease \in Attempts
      BY <1>3 DEF Expire, NoRow, CommandKnown
    <2>2. QED
      BY <1>3, <2>1 DEF Expire
  <1>4. QED
    BY <1>1, <1>2, <1>3 DEF Next

(* A step of an attempt leaves the others where they are, and none goes    *)
(* back to where it has not asked for its key yet.                         *)
LEMMA OthersStay ==
    ASSUME TypeOK, NEW a \in Attempts, Step(a) \/ Dies(a)
    PROVE  /\ req' = req
           /\ pc'[a] # "idle"
           /\ \A b \in Attempts : b # a => pc'[b] = pc[b] /\ cmd'[b] = cmd[b] /\ inv'[b] = inv[b]
  BY DEF TypeOK, Step, Dies, Insert, InsertConflicts, ReadExisting, Reclaim, ReclaimLost, Find,
         Create, CreateUnheard, CallFails, Finalize, FinalizeMisses, Reread, RecordFailure,
         Goto, Answer, AfterReclaim

(* Every step keeps CommandKnown: reclaiming a key keeps its command id.   *)
LEMMA KnownStep == TypeInv /\ [Next]_vars => CommandKnown'
  <1> SUFFICES ASSUME TypeInv, [Next]_vars PROVE CommandKnown'
    OBVIOUS
  <1>0. /\ \A k \in Keys : row[k].cmd \in Attempts => row'[k].cmd = row[k].cmd
        /\ \A k \in Keys : row'[k] # NoRow => row'[k].cmd \in Attempts /\ row'[k].lease \in Attempts
    BY RowStep
  <1> USE DEF TypeInv, CommandKnown
  <1>1. CASE UNCHANGED vars
    BY <1>1 DEF vars, Working, Key
  <1>2. ASSUME NEW a \in Attempts, Step(a) \/ Dies(a) PROVE CommandKnown'
    <2>0. Key(a) \in Keys /\ TypeOK
      BY KeyIn DEF TypeOK
    <2>1. CASE Insert(a)
      <3>1. row'[Key(a)].cmd = a /\ cmd'[a] = a
        BY <2>0, <2>1 DEF Insert, NoRow, TypeOK
      <3>2. QED
        BY <1>0, <1>2, <2>0, <3>1, OthersStay, KeyIn DEF TypeOK, Working, Key
    <2>2. CASE InsertConflicts(a)
      <3>1. row'[Key(a)] # NoRow /\ pc'[a] = "existing"
        BY <2>2, <2>0 DEF InsertConflicts, Goto, TypeOK
      <3>2. QED
        BY <1>0, <1>2, <2>0, <3>1, OthersStay, KeyIn DEF TypeOK, Working, Key
    <2>3. CASE Reclaim(a)
      <3>1. cmd'[a] = row[Key(a)].cmd /\ pc[a] = "reclaim"
        BY <2>3, <2>0 DEF Reclaim, TypeOK
      <3>2. QED
        BY <1>0, <1>2, <2>0, <3>1, OthersStay, KeyIn DEF TypeOK, Working, Key
    <2>4. ASSUME ~Insert(a), ~InsertConflicts(a), ~Reclaim(a)
          PROVE  cmd' = cmd /\ pc[a] \notin {"idle"} /\ (Working(a)' => Working(a))
      BY <1>2, <2>0, <2>4 DEF TypeOK, Step, Dies, ReadExisting, ReclaimLost, Find, Create,
         CreateUnheard, CallFails, Finalize, FinalizeMisses, Reread, RecordFailure,
         Goto, Answer, Working
    <2>5. ASSUME ~Insert(a), ~InsertConflicts(a), ~Reclaim(a)
          PROVE  pc'[a] # "done" => pc[a] # "done"
      BY <1>2, <2>0, <2>5 DEF TypeOK, Step, Dies, ReadExisting, ReclaimLost, Find, Create,
         CreateUnheard, CallFails, Finalize, FinalizeMisses, Reread, RecordFailure,
         Goto, Answer
    <2>6. CASE ~Insert(a) /\ ~InsertConflicts(a) /\ ~Reclaim(a)
      BY <1>0, <1>2, <2>0, <2>4, <2>5, <2>6, OthersStay, KeyIn DEF TypeOK, Working, Key
    <2>7. QED
      BY <2>1, <2>2, <2>3, <2>6
  <1>3. ASSUME NEW k \in Keys, Expire(k) PROVE CommandKnown'
    BY <1>0, <1>3, KeyIn DEF TypeOK, Expire, Working, Key
  <1>4. QED
    BY <1>1, <1>2, <1>3 DEF Next

(* The types, and the one command id of each key, are kept by reserve,     *)
(* reclaim, finalize and the failure record of customer-invite-store.ts.   *)
THEOREM TypeInvariant == Spec => []TypeInv
  <1>1. Init => TypeInv
    BY DEF Init, TypeInv, TypeOK, CommandKnown, Working, Rows, NoRow
  <1>2. TypeInv /\ [Next]_vars => TypeInv'
    BY TypeStep, KnownStep DEF TypeInv
  <1>3. QED
    BY <1>1, <1>2, PTL DEF Spec

(* Type correctness of the delivery: command row, provider and attempts.   *)
THEOREM TypeCorrect == Spec => []TypeOK
  BY TypeInvariant, PTL DEF TypeInv

-----------------------------------------------------------------------------
(* An attempt that is about to finalize holds an invitation the provider   *)
(* has sent for its command.                                               *)
ReceiptInv ==
    /\ \A a \in Attempts : pc[a] = "finalize" => inv[a] \in sent /\ inv[a][1] = cmd[a]
    /\ ReceiptNamesInvitation

(* Every step keeps ReceiptInv: what was sent stays sent, a key keeps its  *)
(* command, and finalize writes under the command it delivered.            *)
LEMMA ReceiptStep == TypeInv /\ ReceiptInv /\ [Next]_vars => ReceiptInv'
  <1> SUFFICES ASSUME TypeInv, ReceiptInv, [Next]_vars PROVE ReceiptInv'
    OBVIOUS
  <1> USE DEF TypeInv, ReceiptInv, ReceiptNamesInvitation
  <1>0. TypeOK /\ CommandKnown
    OBVIOUS
  <1>1. CASE UNCHANGED vars
    BY <1>1 DEF vars, Completed
  <1>2. ASSUME NEW a \in Attempts, Step(a) \/ Dies(a) PROVE ReceiptInv'
    <2>0. Key(a) \in Keys
      BY KeyIn DEF TypeOK
    <2>1. ASSUME pc'[a] = "finalize"
          PROVE  inv'[a] \in sent' /\ inv'[a][1] = cmd'[a]
      BY <1>2, <2>1 DEF TypeOK, Step, Dies, Insert, InsertConflicts, ReadExisting, Reclaim,
         ReclaimLost, Find, Create, CreateUnheard, CallFails, Finalize, FinalizeMisses, Reread,
         RecordFailure, Goto, Answer, AfterReclaim, Invitations, Working
    <2>2. sent \subseteq sent'
      BY <1>2 DEF Step, Dies, Insert, InsertConflicts, ReadExisting, Reclaim,
         ReclaimLost, Find, Create, CreateUnheard, CallFails, Finalize, FinalizeMisses, Reread,
         RecordFailure
    <2>3. \A b \in Attempts : pc'[b] = "finalize" => inv'[b] \in sent' /\ inv'[b][1] = cmd'[b]
      BY <1>2, <2>1, <2>2, OthersStay
    <2>4. ASSUME NEW k \in Keys, Completed(k)', ~(Finalize(a) /\ k = Key(a))
          PROVE  Completed(k) /\ row'[k].inv = row[k].inv /\ row'[k].cmd = row[k].cmd
      <3>1. row[k] \in Rows
        BY DEF TypeOK
      <3>2. CASE Insert(a)
        BY <2>0, <2>4, <3>2 DEF Insert, Completed, NoRow, TypeOK
      <3>3. CASE Reclaim(a)
        BY <2>0, <2>4, <3>1, <3>3 DEF Reclaim, Completed, TypeOK, Rows
      <3>4. CASE Finalize(a)
        BY <2>0, <2>4, <3>1, <3>4 DEF Finalize, Completed, TypeOK, Rows
      <3>5. CASE RecordFailure(a)
        BY <2>0, <2>4, <3>1, <3>5 DEF RecordFailure, Completed, TypeOK, Rows
      <3>6. CASE row' = row
        BY <2>4, <3>6 DEF Completed
      <3>7. QED
        BY <1>2, <3>2, <3>3, <3>4, <3>5, <3>6 DEF Step, Dies, InsertConflicts, ReadExisting,
           ReclaimLost, Find, Create, CreateUnheard, CallFails, FinalizeMisses, Reread
    <2>5. ASSUME Finalize(a)
          PROVE  /\ row'[Key(a)].inv = inv[a] /\ row'[Key(a)].cmd = cmd[a]
                 /\ pc[a] = "finalize"
      <3>1. row[Key(a)] \in Rows
        BY <2>0 DEF TypeOK
      <3>2. QED
        BY <2>0, <2>5, <3>1 DEF Finalize, TargetCommand, SameCommand, TypeOK, Rows
    <2>6. QED
      BY <2>2, <2>3, <2>4, <2>5
  <1>3. ASSUME NEW k \in Keys, Expire(k) PROVE ReceiptInv'
    <2>1. row[k] \in Rows
      BY DEF TypeOK
    <2>2. \A j \in Keys : /\ row'[j].result = row[j].result
                          /\ row'[j].inv = row[j].inv /\ row'[j].cmd = row[j].cmd
      BY <1>3, <2>1 DEF Expire, TypeOK, Rows
    <2>3. QED
      BY <1>3, <2>2 DEF Expire, Completed
  <1>4. QED
    BY <1>1, <1>2, <1>3 DEF Next

(* The receipt of every completed invite command names an invitation that  *)
(* the provider sent for that command (finalizeCustomerInviteRow).         *)
THEOREM ReceiptsNameInvitations == Spec => []ReceiptNamesInvitation
  <1>1. Init => ReceiptInv
    BY DEF Init, ReceiptInv, ReceiptNamesInvitation, Completed, NoRow
  <1>2. QED
    BY <1>1, TypeInvariant, ReceiptStep, PTL DEF Spec, ReceiptInv

-----------------------------------------------------------------------------
(* A key is sent once by the attempts that keep to their lease: the one    *)
(* that may send next holds the active lease of the key, and no other of   *)
(* them has sent its command.                                              *)
FreshCommands ==
    /\ \A k \in Keys : row[k].cmd \in Attempts =>
            pc[row[k].cmd] # "idle" /\ Key(row[k].cmd) = k
    /\ \A i \in sent : pc[i[1]] # "idle"

HoldsLease(a) == row[Key(a)].lease = a /\ row[Key(a)].active

SendInv ==
    /\ FreshCommands
    /\ \A a \in Attempts \ overrun : pc[a] \in {"find", "create"} => HoldsLease(a)
    /\ \A a \in Attempts \ overrun : pc[a] = "create" =>
            \A i \in sent : i[1] = cmd[a] => i[2] \in overrun
    /\ \A i, j \in sent : i[1] = j[1] /\ i[2] \notin overrun /\ j[2] \notin overrun => i = j

(* The attempts that deliver the same command have the same key.           *)
LEMMA SameCommandSameKey ==
    ASSUME TypeInv, FreshCommands, NEW a \in Attempts, NEW b \in Attempts,
           Working(a), Working(b), cmd[a] = cmd[b]
    PROVE  Key(a) = Key(b)
  <1>1. Key(a) \in Keys /\ Key(b) \in Keys
    BY KeyIn DEF TypeInv, TypeOK
  <1>2. row[Key(a)].cmd = cmd[a] /\ row[Key(b)].cmd = cmd[b] /\ cmd[a] \in Attempts
    BY DEF TypeInv, CommandKnown, Working
  <1>3. QED
    BY <1>1, <1>2 DEF FreshCommands

(* An attempt that keeps to its lease keeps it through the steps of others. *)
LEMMA LeaseKept ==
    ASSUME TypeInv, NEW a \in Attempts, Step(a) \/ Dies(a), NEW b \in Attempts \ {a},
           HoldsLease(b)
    PROVE  row'[Key(b)] = row[Key(b)]
  <1>0. TypeOK /\ Key(a) \in Keys /\ Key(b) \in Keys
    BY KeyIn DEF TypeInv, TypeOK
  <1>1. CASE Insert(a)
    BY <1>0, <1>1, NoneAssumption DEF Insert, HoldsLease, NoRow, TypeOK
  <1>2. CASE Reclaim(a)
    BY <1>0, <1>2 DEF Reclaim, LeaseFree, HoldsLease, TypeOK
  <1>3. CASE Finalize(a)
    BY <1>0, <1>3 DEF Finalize, TargetCommand, HoldsLease, TypeOK
  <1>4. CASE RecordFailure(a)
    BY <1>0, <1>4 DEF RecordFailure, TargetCommand, HoldsLease, TypeOK
  <1>5. CASE row' = row
    BY <1>5
  <1>6. QED
    BY <1>1, <1>2, <1>3, <1>4, <1>5 DEF Step, Dies, InsertConflicts, ReadExisting,
       ReclaimLost, Find, Create, CreateUnheard, CallFails, FinalizeMisses, Reread

(* Every step keeps the commands of the keys apart.                        *)
LEMMA FreshStep == TypeInv /\ FreshCommands /\ [Next]_vars => FreshCommands'
  <1> SUFFICES ASSUME TypeInv, FreshCommands, [Next]_vars PROVE FreshCommands'
    OBVIOUS
  <1>0. TypeOK /\ CommandKnown
    BY DEF TypeInv
  <1>1. CASE UNCHANGED vars
    BY <1>1 DEF vars, FreshCommands, Key
  <1>2. ASSUME NEW a \in Attempts, Step(a) \/ Dies(a) PROVE FreshCommands'
    <2>0. Key(a) \in Keys /\ req' = req
      BY <1>0, <1>2, KeyIn, OthersStay DEF TypeOK
    <2>1. \A b \in Attempts : pc[b] # "idle" => pc'[b] # "idle"
      BY <1>0, <1>2, OthersStay
    <2>2. \A k \in Keys : row[k].cmd \in Attempts => row'[k].cmd = row[k].cmd
      BY RowStep
    <2>3. \A k \in Keys : row'[k].cmd \in Attempts =>
              \/ row[k].cmd \in Attempts
              \/ k = Key(a) /\ row'[k].cmd = a
      <3>1. CASE Insert(a)
        BY <1>0, <2>0, <3>1 DEF Insert, NoRow, TypeOK
      <3>2. ASSUME ~Insert(a), NEW k \in Keys, row'[k].cmd \in Attempts, row[k].cmd \notin Attempts
            PROVE  FALSE
        <4>1. row' # row
          BY <3>2
        <4>2. Reclaim(a) \/ Finalize(a) \/ RecordFailure(a)
          BY <1>2, <3>2, <4>1 DEF Step, Dies, InsertConflicts, ReadExisting, ReclaimLost, Find,
             Create, CreateUnheard, CallFails, FinalizeMisses, Reread
        <4>3. row[Key(a)].cmd \in Attempts
          BY <1>0, <4>2 DEF CommandKnown, Reclaim, Finalize, RecordFailure
        <4>4. k # Key(a) => row'[k] = row[k]
          BY <1>0, <2>0, <4>2 DEF Reclaim, Finalize, RecordFailure, TypeOK
        <4>5. QED
          BY <3>2, <4>3, <4>4
      <3>3. QED
        BY <3>1, <3>2
    <2>4. \A i \in sent' : i \in sent \/ (i[1] = row[Key(a)].cmd /\ row[Key(a)].cmd \in Attempts)
      BY <1>0, <1>2 DEF CommandKnown, Step, Dies, Insert, InsertConflicts, ReadExisting, Reclaim,
         ReclaimLost, Find, Create, CreateUnheard, CallFails, Finalize, FinalizeMisses, Reread,
         RecordFailure, Working
    <2>5. \A i \in sent : i[1] \in Attempts
      BY <1>0 DEF TypeOK, Commands
    <2>6. pc'[a] # "idle"
      BY <1>0, <1>2, OthersStay
    <2>7. QED
      BY <2>0, <2>1, <2>2, <2>3, <2>4, <2>5, <2>6 DEF FreshCommands, Key
  <1>3. ASSUME NEW k \in Keys, Expire(k) PROVE FreshCommands'
    <2>1. row[k] \in Rows
      BY <1>0 DEF TypeOK
    <2>2. \A j \in Keys : row'[j].cmd = row[j].cmd
      BY <1>0, <1>3, <2>1 DEF Expire, TypeOK, Rows
    <2>3. QED
      BY <1>3, <2>2 DEF Expire, FreshCommands, Key
  <1>4. QED
    BY <1>1, <1>2, <1>3 DEF Next

(* Every step keeps SendInv: a reclaimed command is looked for before it   *)
(* is sent, and an attempt whose lease ends at work is past it from then.  *)
LEMMA SendStep == TypeInv /\ SendInv /\ [Next]_vars => SendInv'
  <1> SUFFICES ASSUME TypeInv, SendInv, [Next]_vars PROVE SendInv'
    OBVIOUS
  <1>0. TypeOK /\ CommandKnown /\ FreshCommands /\ FreshCommands'
    BY FreshStep DEF TypeInv, SendInv
  <1>1. CASE UNCHANGED vars
    BY <1>0, <1>1 DEF vars, SendInv, HoldsLease, Key
  <1>2. ASSUME NEW a \in Attempts, Step(a) \/ Dies(a) PROVE SendInv'
    <2>0. /\ Key(a) \in Keys /\ req' = req /\ overrun' = overrun
          /\ row[Key(a)] \in Rows
      BY <1>0, <1>2, KeyIn, OthersStay DEF TypeOK, Step, Dies, Insert, InsertConflicts,
         ReadExisting, Reclaim, ReclaimLost, Find, Create, CreateUnheard, CallFails, Finalize,
         FinalizeMisses, Reread, RecordFailure
    <2>1. \A b \in Attempts : b # a => pc'[b] = pc[b] /\ cmd'[b] = cmd[b]
      BY <1>0, <1>2, OthersStay
    <2>2. ASSUME a \notin overrun, pc'[a] \in {"find", "create"} PROVE HoldsLease(a)'
      <3>1. CASE Insert(a)
        BY <1>0, <2>0, <3>1 DEF Insert, NoRow, HoldsLease, Key, TypeOK
      <3>2. CASE Reclaim(a)
        BY <1>0, <2>0, <3>2 DEF Reclaim, HoldsLease, Key, TypeOK, Rows
      <3>3. CASE Find(a)
        BY <1>0, <2>0, <2>2, <3>3 DEF Find, SendInv, HoldsLease, Key, TypeOK
      <3>4. QED
        BY <1>0, <1>2, <2>2, <3>1, <3>2, <3>3 DEF Step, Dies, InsertConflicts, ReadExisting,
           ReclaimLost, Create, CreateUnheard, CallFails, Finalize, FinalizeMisses, Reread,
           RecordFailure, Goto, Answer, TypeOK
    <2>3. \A b \in Attempts \ overrun' : pc'[b] \in {"find", "create"} => HoldsLease(b)'
      BY <1>2, <2>0, <2>1, <2>2, LeaseKept DEF SendInv, HoldsLease, Key
    <2>4. ASSUME a \notin overrun, pc'[a] = "create"
          PROVE  /\ sent' = sent
                 /\ \A i \in sent : i[1] = cmd'[a] => i[2] \in overrun
      <3>1. CASE Insert(a)
        BY <1>0, <3>1 DEF Insert, FreshCommands, TypeOK
      <3>2. CASE Find(a)
        BY <1>0, <2>4, <3>2 DEF Find, Invitations, Goto, TypeOK
      <3>3. QED
        BY <1>0, <1>2, <2>4, <3>1, <3>2 DEF Step, Dies, InsertConflicts, ReadExisting, Reclaim,
           ReclaimLost, Create, CreateUnheard, CallFails, Finalize, FinalizeMisses, Reread,
           RecordFailure, Goto, Answer, AfterReclaim, TypeOK
    <2>5. sent' # sent => /\ pc[a] = "create"
                          /\ sent' = sent \union {<<cmd[a], a>>}
      BY <1>2 DEF Step, Dies, Insert, InsertConflicts, ReadExisting, Reclaim, ReclaimLost, Find,
         Create, CreateUnheard, CallFails, Finalize, FinalizeMisses, Reread, RecordFailure
    <2>6. ASSUME NEW b \in Attempts \ overrun, pc'[b] = "create", b # a,
                 sent' # sent, cmd[a] = cmd[b]
          PROVE  a \in overrun
      <3>1. Working(a) /\ Working(b) /\ pc[a] = "create" /\ pc[b] = "create"
        BY <2>1, <2>5, <2>6 DEF Working
      <3>2. Key(a) = Key(b)
        BY <1>0, <2>6, <3>1, SameCommandSameKey DEF TypeInv
      <3>3. QED
        BY <2>6, <3>1, <3>2 DEF SendInv, HoldsLease
    <2>7. \A b \in Attempts \ overrun' : pc'[b] = "create" =>
              \A i \in sent' : i[1] = cmd'[b] => i[2] \in overrun'
      BY <2>0, <2>1, <2>4, <2>5, <2>6 DEF SendInv
    <2>8. \A i, j \in sent' : i[1] = j[1] /\ i[2] \notin overrun' /\ j[2] \notin overrun' => i = j
      BY <2>0, <2>5 DEF SendInv
    <2>9. QED
      BY <1>0, <2>3, <2>7, <2>8 DEF SendInv
  <1>3. ASSUME NEW k \in Keys, Expire(k) PROVE SendInv'
    <2>1. ASSUME NEW a \in Attempts \ overrun', pc[a] \in {"find", "create"} PROVE Key(a) # k
      BY <1>0, <1>3, <2>1 DEF Expire, SendInv, HoldsLease, Working
    <2>2. \A a \in Attempts : Key(a) # k => row'[Key(a)] = row[Key(a)]
      BY <1>0, <1>3, KeyIn DEF Expire, TypeOK
    <2>3. QED
      BY <1>0, <1>3, <2>1, <2>2 DEF Expire, SendInv, HoldsLease, Key
  <1>4. QED
    BY <1>1, <1>2, <1>3 DEF Next

(* The attempts of a key that keep to their 120-second lease send its      *)
(* command at most once between them, through crashes, unheard answers,    *)
(* failed deliveries and retries (reserveCustomerInviteRow's reclaim and   *)
(* findTeamInvitationByCommandId).                                         *)
THEOREM CommandsSentOnce == Spec => []SentOncePerCommand
  <1>1. Init => SendInv
    BY NoneAssumption DEF Init, SendInv, FreshCommands, NoRow
  <1>2. SendInv => SentOncePerCommand
    <2> SUFFICES ASSUME SendInv, NEW k \in Keys
                 PROVE  Cardinality({i \in sent : i[1] = row[k].cmd /\ i[2] \notin overrun}) <= 1
      BY DEF SentOncePerCommand
    <2> DEFINE S == {i \in sent : i[1] = row[k].cmd /\ i[2] \notin overrun}
    <2>1. CASE S = {}
      BY <2>1, FS_EmptySet
    <2>2. ASSUME NEW i \in S PROVE S = {i}
      BY <2>2 DEF SendInv
    <2>3. ASSUME NEW i \in S PROVE Cardinality(S) = 1
      BY <2>2, <2>3, FS_Singleton
    <2>4. QED
      BY <2>1, <2>3
  <1>3. QED
    BY <1>1, <1>2, TypeInvariant, SendStep, PTL DEF Spec

-----------------------------------------------------------------------------
(* An attempt is answered once, and the outcome of a key is that of the    *)
(* request its digest stands for.                                          *)
AnswerInv ==
    /\ \A a \in Attempts : pc[a] # "done" => answer[a] = NoAnswer
    /\ \A k \in Keys : Completed(k) => row[k].result[1] = row[k].digest

(* Every step keeps AnswerInv: a row's digest is written when its key is   *)
(* taken, and finalize writes the result of the request with that digest.  *)
LEMMA AnswerStep == TypeInv /\ AnswerInv /\ [Next]_vars => AnswerInv'
  <1> SUFFICES ASSUME TypeInv, AnswerInv, [Next]_vars PROVE AnswerInv'
    OBVIOUS
  <1>0. TypeOK
    BY DEF TypeInv
  <1>1. CASE UNCHANGED vars
    BY <1>1 DEF vars, AnswerInv, Completed
  <1>2. ASSUME NEW a \in Attempts, Step(a) \/ Dies(a) PROVE AnswerInv'
    <2>0. Key(a) \in Keys /\ row[Key(a)] \in Rows
      BY <1>0, KeyIn DEF TypeOK
    <2>1. \A b \in Attempts : pc'[b] # "done" => answer'[b] = NoAnswer
      BY <1>0, <1>2 DEF AnswerInv, TypeOK, Step, Dies, Insert, InsertConflicts, ReadExisting,
         Reclaim, ReclaimLost, Find, Create, CreateUnheard, CallFails, Finalize, FinalizeMisses,
         Reread, RecordFailure, Goto, Answer
    <2>2. ASSUME NEW k \in Keys, k # Key(a) PROVE row'[k] = row[k]
      BY <1>0, <1>2, <2>0, <2>2 DEF TypeOK, Step, Dies, Insert, InsertConflicts, ReadExisting,
         Reclaim, ReclaimLost, Find, Create, CreateUnheard, CallFails, Finalize, FinalizeMisses,
         Reread, RecordFailure
    <2>3. row'[Key(a)].result # NoResult => row'[Key(a)].result[1] = row'[Key(a)].digest
      <3>1. CASE Insert(a)
        BY <1>0, <2>0, <3>1 DEF Insert, Completed, NoRow, TypeOK
      <3>2. CASE Reclaim(a)
        BY <1>0, <2>0, <3>2 DEF Reclaim, LeaseFree, Completed, TypeOK, Rows
      <3>3. CASE Finalize(a)
        BY <1>0, <2>0, <3>3 DEF Finalize, TargetCommand, SameCommand, Completed, TypeOK, Rows
      <3>4. CASE RecordFailure(a)
        BY <1>0, <2>0, <3>4 DEF AnswerInv, RecordFailure, TargetCommand, Completed, TypeOK, Rows
      <3>5. CASE row' = row
        BY <2>0, <3>5 DEF AnswerInv, Completed, Key
      <3>6. QED
        BY <1>2, <3>1, <3>2, <3>3, <3>4, <3>5 DEF Step, Dies, InsertConflicts, ReadExisting,
           ReclaimLost, Find, Create, CreateUnheard, CallFails, FinalizeMisses, Reread
    <2>4. QED
      BY <2>1, <2>2, <2>3 DEF AnswerInv, Completed
  <1>3. ASSUME NEW k \in Keys, Expire(k) PROVE AnswerInv'
    <2>1. row[k] \in Rows
      BY <1>0 DEF TypeOK
    <2>2. \A j \in Keys : row'[j].result = row[j].result /\ row'[j].digest = row[j].digest
      BY <1>0, <1>3, <2>1 DEF Expire, TypeOK, Rows
    <2>3. QED
      BY <1>3, <2>2 DEF Expire, AnswerInv, Completed
  <1>4. QED
    BY <1>1, <1>2, <1>3 DEF Next

(* The outcomes StrictCommand sees. *)
Outcome == [k \in Keys |-> row[k].result]

(* What a performed request is, by the names of this module.               *)
LEMMA PerformedMeans ==
    ASSUME NEW a \in Attempts, Key(a) \in Keys
    PROVE  Strict!Performed(a) <=> Completed(Key(a)) /\ row[Key(a)].result[1] = req[a]
  BY DEF Strict!Performed, Strict!NoResult, NoResult, Completed, Key

(* Nobody takes up a delivery that is done.                                *)
LEMMA DeliveryStep ==
    ASSUME TypeOK, AnswerInv, NEW a \in Attempts, Step(a) \/ Dies(a)
    PROVE  Strict!Surroundings
  <1>0. Key(a) \in Keys
    BY KeyIn DEF TypeOK
  <1>1. \A b \in Attempts : b # a => pc'[b] = pc[b]
    BY DEF TypeOK, Step, Dies, Insert, InsertConflicts, ReadExisting,
       Reclaim, ReclaimLost, Find, Create, CreateUnheard, CallFails, Finalize, FinalizeMisses,
       Reread, RecordFailure, Goto, Answer
  <1>2. ASSUME a \in Delivering', a \notin Delivering PROVE ~Strict!Performed(a)
    <2>1. \/ Insert(a)
          \/ ReadExisting(a) /\ pc'[a] = "reclaim"
          \/ Reread(a) /\ pc'[a] = "catch"
      BY <1>2 DEF Delivering, TypeOK, Step, Dies, Insert, InsertConflicts, ReadExisting,
         Reclaim, ReclaimLost, Find, Create, CreateUnheard, CallFails, Finalize, FinalizeMisses,
         Reread, RecordFailure, Goto, Answer
    <2>2. CASE Insert(a)
      BY <1>0, <2>2, PerformedMeans DEF Insert, NoRow, Completed
    <2>3. CASE ReadExisting(a) /\ pc'[a] = "reclaim"
      BY <1>0, <2>3, PerformedMeans DEF ReadExisting, Goto, Answer, TypeOK
    <2>4. CASE Reread(a) /\ pc'[a] = "catch"
      <3>1. ~(DigestMatches(a) /\ Completed(Key(a)))
        BY <2>4 DEF Reread, Goto, Answer, TypeOK
      <3>2. QED
        BY <1>0, <3>1, PerformedMeans DEF AnswerInv, DigestMatches
    <2>5. QED
      BY <2>1, <2>2, <2>3, <2>4
  <1>3. \A b \in Delivering' \ Delivering : b \in Attempts /\ ~Strict!Performed(b)
    BY <1>1, <1>2 DEF Delivering
  <1>4. QED
    BY <1>3 DEF Strict!Surroundings

(* Who is refused asks for something else, or found the command            *)
(* undelivered and is at work on it, or finds it in delivery.              *)
LEMMA RefusedIsNotOwed ==
    ASSUME TypeOK, AnswerInv, NEW a \in Attempts, Step(a) \/ Dies(a),
           answer' # answer, answer'[a] = Refused
    PROVE  ~Strict!Owed(a)
  <1>0. Key(a) \in Keys
    BY KeyIn DEF TypeOK
  <1>1. \/ ReadExisting(a) \/ ReclaimLost(a) \/ Finalize(a) \/ Reread(a) \/ RecordFailure(a)
    BY DEF Step, Dies, Insert, InsertConflicts, Reclaim, Find, Create, CreateUnheard, CallFails,
       FinalizeMisses
  <1>2. CASE ReclaimLost(a) \/ RecordFailure(a) \/ Finalize(a)
    BY <1>2 DEF ReclaimLost, RecordFailure, Finalize, Delivering, Strict!Owed
  <1>3. CASE ReadExisting(a) /\ ~(DigestMatches(a) /\ Completed(Key(a)))
    BY <1>0, <1>3, PerformedMeans DEF AnswerInv, DigestMatches, Strict!Owed
  <1>4. CASE (ReadExisting(a) \/ Reread(a)) /\ DigestMatches(a) /\ Completed(Key(a))
    <2>1. answer' = [answer EXCEPT ![a] = row[Key(a)].result]
      BY <1>4 DEF ReadExisting, Reread, Answer
    <2>2. row[Key(a)].result \in Results
      BY <1>0, <1>4 DEF Completed, TypeOK, Rows
    <2>3. Refused \notin Results
      BY DEF Refused, Results
    <2>4. QED
      BY <2>1, <2>2, <2>3 DEF TypeOK
  <1>5. CASE Reread(a) /\ ~(DigestMatches(a) /\ Completed(Key(a)))
    BY <1>5 DEF Reread
  <1>6. QED
    BY <1>1, <1>2, <1>3, <1>4, <1>5

(* An answer refuses what is not owed, or reports the outcome of the       *)
(* attempt's own request.                                                  *)
LEMMA AnswerIsStrict ==
    ASSUME TypeOK, AnswerInv, NEW a \in Attempts, req' = req, pc[a] # "done",
           \/ answer' = [answer EXCEPT ![a] = Refused] /\ ~Strict!Owed(a)
           \/ /\ answer' = [answer EXCEPT ![a] = Outcome'[Key(a)]]
              /\ Outcome'[Key(a)] # NoResult
              /\ Outcome'[Key(a)][1] = req[a]
    PROVE  Strict!Report(a) \/ Strict!Refuse(a)
  <1>1. answer[a] = NoAnswer
    BY DEF AnswerInv
  <1>2. QED
    BY <1>1 DEF Strict!Report, Strict!Refuse, Strict!NoAnswer, NoAnswer, Strict!NoResult,
       NoResult, Strict!Refused, Refused, Outcome, Key

(* Every step is a step of StrictCommand; a lease that ends is none.       *)
LEMMA StrictStep == TypeInv /\ AnswerInv /\ [Next]_vars => [Strict!Next]_(Strict!vars)
  <1> SUFFICES ASSUME TypeInv, AnswerInv, [Next]_vars PROVE [Strict!Next]_(Strict!vars)
    OBVIOUS
  <1>0. TypeOK
    BY DEF TypeInv
  <1>1. ASSUME Outcome' = Outcome, req' = req, spine' = spine, answer' = answer, pc' = pc
        PROVE  UNCHANGED Strict!vars
    BY <1>1 DEF Strict!vars, Outcome, Delivering
  <1>2. CASE UNCHANGED vars
    BY <1>1, <1>2 DEF vars, Outcome
  <1>3. ASSUME NEW a \in Attempts, Step(a) \/ Dies(a) PROVE Strict!Next
    <2>s. Strict!Surroundings
      BY <1>0, <1>3, DeliveryStep
    <2>0. /\ Key(a) \in Keys /\ req' = req /\ row[Key(a)] \in Rows
          /\ row' \in [Keys -> Rows]
      BY <1>0, <1>3, KeyIn, OthersStay, RowStep DEF TypeOK
    <2>1. ASSUME ~Finalize(a) PROVE Outcome' = Outcome /\ spine' = spine
      <3>1. CASE Insert(a)
        BY <1>0, <2>0, <3>1 DEF Insert, Outcome, NoRow, TypeOK
      <3>2. CASE Reclaim(a)
        BY <1>0, <2>0, <3>2 DEF Reclaim, Outcome, TypeOK, Rows
      <3>3. CASE RecordFailure(a)
        BY <1>0, <2>0, <3>3 DEF RecordFailure, Outcome, TypeOK, Rows
      <3>4. CASE row' = row /\ spine' = spine
        BY <3>4 DEF Outcome
      <3>5. QED
        BY <1>3, <2>1, <3>1, <3>2, <3>3, <3>4 DEF Step, Dies, InsertConflicts, ReadExisting,
           ReclaimLost, Find, Create, CreateUnheard, CallFails, FinalizeMisses, Reread
    <2>2. ASSUME ~Finalize(a), answer' # answer
          PROVE  /\ pc[a] # "done"
                 /\ \/ answer' = [answer EXCEPT ![a] = Refused]
                    \/ /\ answer' = [answer EXCEPT ![a] = Outcome[Key(a)]]
                       /\ Outcome[Key(a)] # NoResult
                       /\ Outcome[Key(a)][1] = req[a]
      BY <1>0, <1>3, <2>0, <2>2 DEF AnswerInv, Step, Dies, Insert, InsertConflicts, ReadExisting,
         Reclaim, ReclaimLost, Find, Create, CreateUnheard, CallFails, FinalizeMisses, Reread,
         RecordFailure, Goto, Answer, Completed, DigestMatches, Outcome
    <2>3. ASSUME ~Finalize(a), answer' # answer PROVE Strict!Next
      <3>0. answer' = [answer EXCEPT ![a] = Refused] => ~Strict!Owed(a)
        BY <1>0, <1>3, <2>3, RefusedIsNotOwed DEF TypeOK
      <3>1. Strict!Report(a) \/ Strict!Refuse(a)
        BY <1>0, <2>0, <2>1, <2>2, <2>3, <3>0, AnswerIsStrict
      <3>2. UNCHANGED <<Outcome, spine>>
        BY <2>1, <2>3
      <3>3. QED
        BY <2>0, <2>s, <3>1, <3>2 DEF Strict!Next, Strict!Call, Outcome
    <2>4. CASE Finalize(a)
      <3>1. /\ row[Key(a)].result = NoResult
            /\ row'[Key(a)].result = <<req[a], a>>
            /\ \A k \in Keys : k # Key(a) => row'[k] = row[k]
            /\ spine' = spine \union {<<req[a], a>>}
            /\ answer' = [answer EXCEPT ![a] = <<req[a], a>>]
            /\ pc[a] = "finalize"
        BY <1>0, <2>0, <2>4 DEF Finalize, TargetCommand, Completed, Answer, TypeOK, Rows
      <3>2. Outcome' = [Outcome EXCEPT ![Key(a)] = <<req[a], a>>]
        BY <2>0, <3>1 DEF Outcome
      <3>3. Strict!Perform(a)
        BY <2>0, <3>1, <3>2 DEF Strict!Perform, Strict!NoResult, NoResult, Outcome, Key
      <3>4. Outcome'[Key(a)] = <<req[a], a>>
        BY <2>0, <3>1 DEF Outcome
      <3>5. <<req[a], a>> # NoResult /\ <<req[a], a>>[1] = req[a]
        BY DEF NoResult
      <3>6. Strict!Report(a)
        BY <2>0, <3>1, <3>4, <3>5 DEF Strict!Report, Strict!NoResult, NoResult, Strict!NoAnswer,
           NoAnswer, Outcome, Key, AnswerInv
      <3>7. QED
        BY <2>0, <2>s, <3>3, <3>6 DEF Strict!Next, Strict!Call
    <2>5. CASE ~Finalize(a) /\ answer' = answer
      <3>1. UNCHANGED <<Outcome, spine>>
        BY <2>1, <2>5
      <3>2. QED
        BY <2>0, <2>s, <2>5, <3>1 DEF Strict!Next, Strict!Call, Outcome
    <2>6. QED
      BY <2>3, <2>4, <2>5
  <1>4. ASSUME NEW k \in Keys, Expire(k) PROVE UNCHANGED Strict!vars
    <2>1. row[k] \in Rows
      BY <1>0 DEF TypeOK
    <2>2. Outcome' = Outcome
      BY <1>0, <1>4, <2>1 DEF Expire, Outcome, TypeOK, Rows
    <2>3. QED
      BY <1>1, <1>4, <2>2 DEF Expire
  <1>5. QED
    BY <1>2, <1>3, <1>4 DEF Next

(* Reserve, reclaim, finalize and re-read implement StrictCommand: one     *)
(* envelope per key, reported to the attempts of its request alone, and    *)
(* refused to none of them that reads the row after the delivery.          *)
THEOREM DeliveryImplementsStrictCommand == Spec => ImplementsStrictCommand
  <1>1. Init => AnswerInv /\ Strict!Init
    BY DEF Init, AnswerInv, Completed, NoRow, Strict!Init, Strict!Keys, Keys, Strict!NoResult,
       NoResult, Strict!NoAnswer, NoAnswer, Delivering
  <1>2. QED
    BY <1>1, TypeInvariant, AnswerStep, StrictStep, PTL
       DEF Spec, ImplementsStrictCommand, Strict!Spec

-----------------------------------------------------------------------------
(* OutcomesStand, with the outcomes by their name.                         *)
Standing ==
    /\ req \in [Attempts -> Requests] /\ DOMAIN Outcome = Keys /\ DOMAIN answer = Attempts
    /\ spine \subseteq Requests \X Attempts
    /\ \A e \in spine : Outcome[KeyOf(e[1])] = e
    /\ \A k \in Keys : Outcome[k] # NoResult => Outcome[k] \in spine
    /\ \A a \in Attempts :
          Strict!Succeeded(a) => Outcome[KeyOf(req[a])] = answer[a] /\ answer[a][1] = req[a]

(* They say the same.                                                      *)
LEMMA StandingMeans == Standing <=> Strict!OutcomesStand
  BY DEF Standing, Strict!OutcomesStand, Outcome, Keys, Strict!Keys, NoResult, Strict!NoResult

(* Every step of a strict command lets the outcomes stand: a key with an   *)
(* outcome keeps it, and only an outcome is reported.                      *)
LEMMA OutcomeStep == Standing /\ [Strict!Next]_(Strict!vars) => Standing'
  <1> SUFFICES ASSUME Standing, [Strict!Next]_(Strict!vars) PROVE Standing'
    OBVIOUS
  <1>0. Keys' = Keys /\ \A b \in Attempts : KeyOf(req[b]) \in Keys
    BY DEF Standing, Keys
  <1> USE <1>0 DEF Standing, NoResult, Strict!NoAnswer, Strict!Succeeded
  <1>1. CASE UNCHANGED Strict!vars
    <2>1. UNCHANGED <<req, Outcome, spine, answer>>
      BY <1>1 DEF Strict!vars, Outcome
    <2>2. QED
      BY <2>1
  <1>2. ASSUME NEW a \in Attempts, UNCHANGED <<req, Outcome, spine>>,
               Strict!Report(a) \/ Strict!Refuse(a) \/ UNCHANGED answer
        PROVE  Standing'
    <2>1. CASE Strict!Refuse(a)
      BY <1>2, <2>1 DEF Strict!Refuse
    <2>2. CASE Strict!Report(a)
      <3>1. /\ Outcome[KeyOf(req[a])][1] = req[a]
            /\ answer' = [answer EXCEPT ![a] = Outcome[KeyOf(req[a])]]
        BY <1>2, <2>2 DEF Strict!Report, Outcome
      <3>2. QED
        BY <1>2, <3>1
    <2>3. CASE UNCHANGED answer
      BY <1>2, <2>3
    <2>4. QED
      BY <1>2, <2>1, <2>2, <2>3
  <1>3. ASSUME NEW a \in Attempts, UNCHANGED req, Strict!Perform(a),
               Strict!Report(a) \/ UNCHANGED answer
        PROVE  Standing'
    <2>1. /\ Outcome[KeyOf(req[a])] = NoResult
          /\ Outcome' = [Outcome EXCEPT ![KeyOf(req[a])] = <<req[a], a>>]
          /\ spine' = spine \union {<<req[a], a>>}
      BY <1>3 DEF Strict!Perform, Strict!NoResult, Outcome
    <2>2. /\ answer' = answer
          \/ /\ Outcome'[KeyOf(req[a])][1] = req[a]
             /\ answer' = [answer EXCEPT ![a] = Outcome'[KeyOf(req[a])]]
      BY <1>3 DEF Strict!Report, Outcome
    <2>3. \A e \in spine : KeyOf(e[1]) \in Keys /\ KeyOf(e[1]) # KeyOf(req[a])
      BY <2>1 DEF Keys
    <2>4. \A b \in Attempts : Strict!Succeeded(b) => KeyOf(req[b]) # KeyOf(req[a])
      BY <2>1
    <2>5. QED
      BY <1>3, <2>1, <2>2, <2>3, <2>4
  <1>4. QED
    <2>1. ASSUME UNCHANGED [k \in Keys |-> row[k].result] PROVE UNCHANGED Outcome
      BY <2>1 DEF Outcome
    <2>2. QED
      BY <1>1, <1>2, <1>3, <2>1 DEF Strict!Next, Strict!Call

(* Invitations, seen by their callers: a key has one delivery envelope at  *)
(* most, a success is told of the caller's own request, and whoever shares *)
(* the key is told the same, however leases run out.                       *)
THEOREM InviteKeysHaveOneOutcome == Spec => []Strict!OneOutcomePerKey
  <1>1. Strict!Init => Standing
    BY StandingMeans DEF Strict!Init, Strict!OutcomesStand, Strict!Succeeded
  <1>2. Standing => Strict!OneOutcomePerKey
    <2> SUFFICES ASSUME Standing PROVE Strict!OneOutcomePerKey
      OBVIOUS
    <2>1. ASSUME NEW a \in Attempts, Strict!Succeeded(a)
          PROVE  /\ answer[a] = Outcome[KeyOf(req[a])] /\ answer[a] \in spine
                 /\ answer[a][1] = req[a]
      BY <2>1 DEF Standing, Strict!Succeeded, NoResult, Strict!NoAnswer, Keys
    <2>2. \A e, f \in spine : KeyOf(e[1]) = KeyOf(f[1]) => e = f
      BY DEF Standing
    <2>3. QED
      BY <2>1, <2>2 DEF Strict!OneOutcomePerKey
  <1>3. QED
    BY <1>1, <1>2, OutcomeStep, DeliveryImplementsStrictCommand, PTL
       DEF ImplementsStrictCommand, Strict!Spec
=============================================================================
