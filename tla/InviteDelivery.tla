--------------------------- MODULE InviteDelivery ---------------------------
(***************************************************************************)
(* Delivery of a workspace invitation through an external provider:        *)
(*                                                                         *)
(*   routes/customer-invites.ts     handleCustomerInvite, from its         *)
(*                                  reservation to its answer              *)
(*   dal/customer-invite-store.ts   reserve, finalize and failure record   *)
(*   services/clerk-org.ts          create and find at the provider        *)
(*                                                                         *)
(* The command row of a key carries a command id, fixed by the attempt     *)
(* that inserted it, and the lease of the attempt that is delivering it.   *)
(* A lease lasts 120 seconds, whatever its holder does: Expire may come    *)
(* while the holder is still talking to the provider.                      *)
(***************************************************************************)
EXTENDS Naturals, FiniteSets

CONSTANTS
    Requests,   \* [email, key]: the body and the Idempotency-Key
    Attempts    \* the calls; each draws its own lease token and command id

VARIABLES
    row,        \* row[k]: the idempotency_keys row of k
    sent,       \* <<c, a>>: attempt a had the provider send command c
    spine,      \* delivery event, audit and outbox row of each command
    failures,   \* attempts with a failed event and audit entry
    overrun,    \* attempts that were still at work when their lease ended
    pc,         \* where an attempt is
    req,        \* its request
    cmd,        \* the command id it delivers
    inv,        \* the invitation it finalizes with
    answer      \* what it was told

vars == <<row, sent, spine, failures, overrun, pc, req, cmd, inv, answer>>

KeyOf(q) == q.key
Keys == {KeyOf(q) : q \in Requests}
Key(a) == KeyOf(req[a])

None == <<>>
ASSUME NoneAssumption == None \notin Attempts

NoResult == <<>>
NoAnswer == <<>>
Refused == <<"refused">>

NoRow == [digest |-> None, cmd |-> None, lease |-> None, active |-> FALSE,
          result |-> NoResult, inv |-> None]

Completed(k) == row[k].result # NoResult

Init ==
    /\ row = [k \in Keys |-> NoRow]
    /\ sent = {}
    /\ spine = {}
    /\ failures = {}
    /\ overrun = {}
    /\ pc = [a \in Attempts |-> "idle"]
    /\ req \in [Attempts -> Requests]
    /\ cmd = [a \in Attempts |-> None]
    /\ inv = [a \in Attempts |-> None]
    /\ answer = [a \in Attempts |-> NoAnswer]

Goto(a, label) == pc' = [pc EXCEPT ![a] = label]
Answer(a, r) == Goto(a, "done") /\ answer' = [answer EXCEPT ![a] = r]

-----------------------------------------------------------------------------
(* reserveCustomerInviteRow.                                               *)

(* The INSERT takes a new key: delivery starts with the provider's create. *)
Insert(a) ==
    /\ pc[a] = "idle"
    /\ row[Key(a)] = NoRow
    /\ row' = [row EXCEPT ![Key(a)] =
                [NoRow EXCEPT !.digest = req[a], !.cmd = a, !.lease = a, !.active = TRUE]]
    /\ cmd' = [cmd EXCEPT ![a] = a]
    /\ Goto(a, "create")
    /\ UNCHANGED <<sent, spine, failures, overrun, req, inv, answer>>

InsertConflicts(a) ==
    /\ pc[a] = "idle"
    /\ row[Key(a)] # NoRow
    /\ Goto(a, "existing")
    /\ UNCHANGED <<row, sent, spine, failures, overrun, req, cmd, inv, answer>>

AnyDigest(a) == TRUE
DigestMatches(a) == row[Key(a)].digest = req[a]

(* The row is another request's, delivered, in delivery, or free.          *)
ReadExisting(a) ==
    /\ pc[a] = "existing"
    /\ \/ ~DigestMatches(a) /\ Answer(a, Refused)
       \/ DigestMatches(a) /\ Completed(Key(a)) /\ Answer(a, row[Key(a)].result)
       \/ /\ DigestMatches(a) /\ ~Completed(Key(a)) /\ row[Key(a)].active
          /\ Answer(a, Refused)
       \/ /\ DigestMatches(a) /\ ~Completed(Key(a)) /\ ~row[Key(a)].active
          /\ Goto(a, "reclaim")
          /\ UNCHANGED answer
    /\ UNCHANGED <<row, sent, spine, failures, overrun, req, cmd, inv>>

(* The UPDATE looks again: no response, and the lease has ended.           *)
LeaseFree(a) == ~Completed(Key(a)) /\ ~row[Key(a)].active

StraightToCreate == "create"
(* A reclaimed command may have reached the provider: look there first.    *)
AfterReclaim == "find"

(* The new lease keeps the command id.                                     *)
Reclaim(a) ==
    /\ pc[a] = "reclaim"
    /\ LeaseFree(a)
    /\ row' = [row EXCEPT ![Key(a)] = [@ EXCEPT !.lease = a, !.active = TRUE]]
    /\ cmd' = [cmd EXCEPT ![a] = row[Key(a)].cmd]
    /\ Goto(a, AfterReclaim)
    /\ UNCHANGED <<sent, spine, failures, overrun, req, inv, answer>>

ReclaimLost(a) ==
    /\ pc[a] = "reclaim"
    /\ ~LeaseFree(a)
    /\ Answer(a, Refused)
    /\ UNCHANGED <<row, sent, spine, failures, overrun, req, cmd, inv>>

-----------------------------------------------------------------------------
(* The provider.                                                           *)

AnyInvitation(a) == sent
(* The invitations whose metadata hold the command id.                     *)
Invitations(a) == {i \in sent : i[1] = cmd[a]}

Find(a) ==
    /\ pc[a] = "find"
    /\ \/ \E i \in Invitations(a) : inv' = [inv EXCEPT ![a] = i] /\ Goto(a, "finalize")
       \/ Invitations(a) = {} /\ Goto(a, "create") /\ UNCHANGED inv
    /\ UNCHANGED <<row, sent, spine, failures, overrun, req, cmd, answer>>

Create(a) ==
    /\ pc[a] = "create"
    /\ sent' = sent \union {<<cmd[a], a>>}
    /\ inv' = [inv EXCEPT ![a] = <<cmd[a], a>>]
    /\ Goto(a, "finalize")
    /\ UNCHANGED <<row, spine, failures, overrun, req, cmd, answer>>

(* The provider has sent the invitation and its answer does not arrive.    *)
CreateUnheard(a) ==
    /\ pc[a] = "create"
    /\ sent' = sent \union {<<cmd[a], a>>}
    /\ Goto(a, "catch")
    /\ UNCHANGED <<row, spine, failures, overrun, req, cmd, inv, answer>>

(* A lookup or create that is refused, or a finalize that does not run.    *)
CallFails(a) ==
    /\ pc[a] \in {"find", "create", "finalize"}
    /\ Goto(a, "catch")
    /\ UNCHANGED <<row, sent, spine, failures, overrun, req, cmd, inv, answer>>

-----------------------------------------------------------------------------
(* finalizeCustomerInviteRow and recordCustomerInviteDeliveryFailureRow.   *)

SameCommand(a) ==
    /\ row[Key(a)].digest = req[a]
    /\ row[Key(a)].cmd = cmd[a]
(* Both statements: this command, no response yet, and this lease, whether *)
(* or not its time is over.                                                *)
TargetCommand(a) ==
    /\ SameCommand(a)
    /\ ~Completed(Key(a))
    /\ row[Key(a)].lease = a

(* Event, audit, outbox and response in one statement.                     *)
Finalize(a) ==
    /\ pc[a] = "finalize"
    /\ TargetCommand(a)
    /\ row' = [row EXCEPT ![Key(a)] =
                [@ EXCEPT !.result = <<req[a], a>>, !.inv = inv[a], !.active = FALSE]]
    /\ spine' = spine \union {<<req[a], a>>}
    /\ Answer(a, <<req[a], a>>)
    /\ UNCHANGED <<sent, failures, overrun, req, cmd, inv>>

FinalizeMisses(a) ==
    /\ pc[a] = "finalize"
    /\ ~TargetCommand(a)
    /\ Goto(a, "reread")
    /\ UNCHANGED <<row, sent, spine, failures, overrun, req, cmd, inv, answer>>

(* The receipt of the attempt that took over, or INVITE_ATOMICITY_FAILED.  *)
Reread(a) ==
    /\ pc[a] = "reread"
    /\ \/ DigestMatches(a) /\ Completed(Key(a)) /\ Answer(a, row[Key(a)].result)
       \/ ~(DigestMatches(a) /\ Completed(Key(a))) /\ Goto(a, "catch") /\ UNCHANGED answer
    /\ UNCHANGED <<row, sent, spine, failures, overrun, req, cmd, inv>>

(* The catch block ends the lease at once, if it is still this attempt's;  *)
(* the record itself may fail.  The caller gets the error.                 *)
RecordFailure(a) ==
    /\ pc[a] = "catch"
    /\ \/ /\ TargetCommand(a)
          /\ row' = [row EXCEPT ![Key(a)] = [@ EXCEPT !.active = FALSE]]
          /\ failures' = failures \union {a}
       \/ UNCHANGED <<row, failures>>
    /\ Answer(a, Refused)
    /\ UNCHANGED <<sent, spine, overrun, req, cmd, inv>>

-----------------------------------------------------------------------------
Working(a) == pc[a] \in {"find", "create", "finalize", "reread", "catch"}

(* 120 seconds are over.                                                   *)
Expire(k) ==
    /\ row[k].active
    /\ row' = [row EXCEPT ![k] = [@ EXCEPT !.active = FALSE]]
    /\ overrun' = overrun \union {a \in {row[k].lease} : Working(a)}
    /\ UNCHANGED <<sent, spine, failures, pc, req, cmd, inv, answer>>

(* The worker is gone; the caller learns nothing.                          *)
Dies(a) ==
    /\ pc[a] \notin {"idle", "done"}
    /\ Goto(a, "done")
    /\ UNCHANGED <<row, sent, spine, failures, overrun, req, cmd, inv, answer>>

Step(a) ==
    \/ Insert(a) \/ InsertConflicts(a) \/ ReadExisting(a) \/ Reclaim(a) \/ ReclaimLost(a)
    \/ Find(a) \/ Create(a) \/ CreateUnheard(a) \/ CallFails(a)
    \/ Finalize(a) \/ FinalizeMisses(a) \/ Reread(a) \/ RecordFailure(a)

Next == (\E a \in Attempts : Step(a) \/ Dies(a)) \/ (\E k \in Keys : Expire(k))

Spec == Init /\ [][Next]_vars

-----------------------------------------------------------------------------
(* Properties.                                                             *)

Results == Requests \X Attempts
Commands == Attempts \X Attempts
Rows == [digest : Requests \union {None}, cmd : Attempts \union {None},
         lease : Attempts \union {None}, active : BOOLEAN,
         result : Results \union {NoResult}, inv : Commands \union {None}]

(* Every variable has its type.                                            *)
TypeOK ==
    /\ row \in [Keys -> Rows]
    /\ sent \subseteq Commands
    /\ spine \subseteq Results
    /\ failures \subseteq Attempts
    /\ overrun \subseteq Attempts
    /\ pc \in [Attempts -> {"idle", "existing", "reclaim", "find", "create", "finalize",
                            "reread", "catch", "done"}]
    /\ req \in [Attempts -> Requests]
    /\ cmd \in [Attempts -> Attempts \union {None}]
    /\ inv \in [Attempts -> Commands \union {None}]
    /\ answer \in [Attempts -> Results \union {NoAnswer, Refused}]

(* The receipt of a key names an invitation the provider has sent for that *)
(* key's command, whichever attempt sent it and whichever finalized.       *)
ReceiptNamesInvitation ==
    \A k \in Keys : Completed(k) =>
        row[k].inv \in sent /\ row[k].inv[1] = row[k].cmd

(* The attempts that kept to their lease send a command at most once       *)
(* between them: crashes, lost answers, failed deliveries and retries do   *)
(* not send it again, because a reclaimed command asks the provider first, *)
(* and an attempt past its lease does not end the lease of its successor.  *)
SentOncePerCommand ==
    \A k \in Keys : row[k] # NoRow =>
        Cardinality({i \in sent : i[1] = row[k].cmd /\ i[2] \notin overrun}) <= 1

(* Attempts that found the command undelivered and are at work on it.      *)
Delivering == {a \in Attempts : pc[a] \in {"reclaim", "find", "create", "finalize", "catch"}}

(* One delivery envelope per key, fixed by the attempt that finalized it   *)
(* and given to no other request.  An attempt that reads the row after the *)
(* delivery, at its start or because its own finalize found the command    *)
(* taken over, is told that envelope, if it is answered; one that is at    *)
(* work on the delivery while another completes it may be refused, and so  *)
(* is any that finds the delivery in progress.  Reserve, reclaim, finalize *)
(* and re-read implement StrictCommand.                                    *)
Strict == INSTANCE StrictCommand WITH
    outcome <- [k \in Keys |-> row[k].result], effects <- spine,
    early <- Delivering, stray <- {}
ImplementsStrictCommand == Strict!Spec
=============================================================================
