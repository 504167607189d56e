--------------------------- MODULE StrictCommand ---------------------------
(***************************************************************************)
(* What an authority-strict command promises its callers, whatever it      *)
(* changes.  The first attempt to go through with a key performs its       *)
(* request and fixes the outcome of the key for good; no other answer      *)
(* reports success; and an attempt whose request has been performed is not *)
(* refused any more: if it is answered at all, it is told that outcome.    *)
(*                                                                         *)
(* Two kinds of attempt are outside the last promise, and an implementing  *)
(* module says which of its calls they are: one that was under way before  *)
(* its request was performed, and one whose target cannot be found.  An    *)
(* attempt that dies is told nothing: its answer stays NoAnswer.           *)
(*                                                                         *)
(* PlanCommand, InviteDelivery and Membership implement this               *)
(* specification.                                                          *)
(***************************************************************************)
CONSTANTS
    Requests,   \* what a caller may ask for, its key included
    Attempts,   \* the calls: first tries and retries alike
    KeyOf(_)    \* the (workspace, actor, route, Idempotency-Key) of a request

VARIABLES
    req,        \* req[a]: what the attempt asks for
    outcome,    \* outcome[k]: the request performed under k and its attempt
    effects,    \* the requests performed, each with its attempt
    answer,     \* answer[a]: what the attempt was told
    early,      \* attempts under way since before their request was performed
    stray       \* attempts whose target is not to be found

vars == <<req, outcome, effects, answer, early, stray>>

Keys == {KeyOf(q) : q \in Requests}
NoResult == <<>>
Refused == <<"refused">>
NoAnswer == <<>>

Init ==
    /\ req \in [Attempts -> Requests]
    /\ outcome = [k \in Keys |-> NoResult]
    /\ effects = {}
    /\ answer = [a \in Attempts |-> NoAnswer]
    /\ early = {}
    /\ stray \subseteq Attempts

(* The outcome of a's key is that of a's request.                          *)
Performed(a) ==
    /\ outcome[KeyOf(req[a])] # NoResult
    /\ outcome[KeyOf(req[a])][1] = req[a]

(* The command takes effect, and its key has an outcome, in one step.      *)
Perform(a) ==
    /\ outcome[KeyOf(req[a])] = NoResult
    /\ outcome' = [outcome EXCEPT ![KeyOf(req[a])] = <<req[a], a>>]
    /\ effects' = effects \union {<<req[a], a>>}

(* The attempt is told the outcome of its key, when that is its request's. *)
Report(a) ==
    /\ answer[a] = NoAnswer
    /\ outcome'[KeyOf(req[a])] # NoResult
    /\ outcome'[KeyOf(req[a])][1] = req[a]
    /\ answer' = [answer EXCEPT ![a] = outcome'[KeyOf(req[a])]]

(* The attempt may not be refused.                                         *)
Owed(a) == Performed(a) /\ a \notin early /\ a \notin stray

Refuse(a) ==
    /\ answer[a] = NoAnswer
    /\ ~Owed(a)
    /\ answer' = [answer EXCEPT ![a] = Refused]

(* Nobody gets under way early once the request has been performed; what   *)
(* can be found changes with the rest of the system.                       *)
Surroundings ==
    /\ \A a \in early' \ early : a \in Attempts /\ ~Performed(a)
    /\ stray' \subseteq Attempts

Call(a) ==
    \/ Perform(a) /\ (Report(a) \/ UNCHANGED answer)
    \/ (Report(a) \/ Refuse(a)) /\ UNCHANGED <<outcome, effects>>
    \/ UNCHANGED <<outcome, effects, answer>>

Next == \E a \in Attempts : UNCHANGED req /\ Surroundings /\ Call(a)

Spec == Init /\ [][Next]_vars

-----------------------------------------------------------------------------
Succeeded(a) == answer[a] \notin {NoAnswer, Refused}

(* What a caller may rely on.  A key takes effect once at most; who is     *)
(* told of a success is told of an effect of the very request it made; so  *)
(* two attempts with one key that are both told of a success are told the  *)
(* same, and asked for the same.                                           *)
OneOutcomePerKey ==
    /\ \A e, f \in effects : KeyOf(e[1]) = KeyOf(f[1]) => e = f
    /\ \A a \in Attempts : Succeeded(a) => answer[a] \in effects /\ answer[a][1] = req[a]
    /\ \A a, b \in Attempts :
          Succeeded(a) /\ Succeeded(b) /\ KeyOf(req[a]) = KeyOf(req[b])
            => answer[a] = answer[b] /\ req[a] = req[b]

(* Why they may: the outcome of a key is the one effect it had, and what   *)
(* was reported is the outcome still.                                      *)
OutcomesStand ==
    /\ req \in [Attempts -> Requests] /\ DOMAIN outcome = Keys /\ DOMAIN answer = Attempts
    /\ effects \subseteq Requests \X Attempts
    /\ \A e \in effects : outcome[KeyOf(e[1])] = e
    /\ \A k \in Keys : outcome[k] # NoResult => outcome[k] \in effects
    /\ \A a \in Attempts :
          Succeeded(a) => outcome[KeyOf(req[a])] = answer[a] /\ answer[a][1] = req[a]
=============================================================================
