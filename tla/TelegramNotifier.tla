-------------------------- MODULE TelegramNotifier --------------------------
(***************************************************************************)
(* The durable notifier of internal/telegram: one notification, named by   *)
(* its idempotency key, goes to a list of recipients that is frozen when   *)
(* the key is first seen.  Telegram itself cannot tell a repeated message  *)
(* from a new one, so every send is fenced by a row of the database that   *)
(* one caller alone may move from "prepared" to "sending".  Callers run    *)
(* concurrently, any answer and any write may fail, and the process may    *)
(* die between two steps.                                                  *)
(*                                                                         *)
(*   operation [message, deliveries]: message stands for the execution and *)
(*             the digest of the text, deliveries for the rows, from       *)
(*             recipients to their states                                  *)
(*   call      [pc, key, message, frozen, chosen, created, claimed, tries, *)
(*             sentAny, result]; frozen are the rows as this call loaded   *)
(*             them, chosen the recipients it selected                     *)
(***************************************************************************)
EXTENDS Naturals, Sequences, FiniteSetsExt, Functions

CONSTANTS
    Callers, Keys, Messages,
    Recipients,     \* numbers, the order in which Telegram user ids sort
    MaxClaims,      \* maxClaimAttempts
    MaxCalls,       \* calls of Notify, over all callers
    MaxChanges,     \* changes of bindings and roles
    MaxCrashes

ASSUME RecipientsAssumption == Recipients \subseteq Nat

VARIABLES
    eligible,       \* recipients bound to an enabled user who may acknowledge
    ops,            \* Keys -> operation, or None
    accepted,       \* Keys -> Recipients -> the messages Telegram took, in order
    calls,          \* Callers -> call
    made, changes, crashes

vars == <<eligible, ops, accepted, calls, made, changes, crashes>>

None == [none |-> TRUE]
NoCall == [pc |-> "idle", key |-> None, message |-> None, frozen |-> <<>>, chosen |-> {},
           created |-> FALSE, claimed |-> FALSE, tries |-> 0, sentAny |-> FALSE,
           result |-> "none"]
Rows(k) == ops[k].deliveries

Init ==
    /\ eligible = Recipients
    /\ ops = [k \in Keys |-> None]
    /\ accepted = [k \in Keys |-> [r \in Recipients |-> <<>>]]
    /\ calls = [c \in Callers |-> NoCall]
    /\ made = 0 /\ changes = 0 /\ crashes = 0

-----------------------------------------------------------------------------

Goes(c, pc) == calls' = [calls EXCEPT ![c].pc = pc]
Ended(call, result) ==
    [NoCall EXCEPT !.pc = "done", !.key = call.key, !.message = call.message, !.result = result]
Returns(c, result) == calls' = [calls EXCEPT ![c] = Ended(@, result)]
At(c, pc) == calls[c].pc = pc
world == <<eligible, made, changes, crashes>>

Notify(c, k, m) ==
    /\ At(c, "idle") /\ made < MaxCalls
    /\ made' = made + 1
    /\ calls' = [calls EXCEPT ![c] = [NoCall EXCEPT !.pc = "load", !.key = k, !.message = m]]
    /\ UNCHANGED <<eligible, ops, accepted, changes, crashes>>

(* What a call concludes from the rows it loaded: it has no right to go on   *)
(* where another one is, or was, sending.                                    *)
InDoubt(rows) == \E r \in DOMAIN rows : rows[r] \in {"sending", "ambiguous"}
AllApplied(rows) == \A r \in DOMAIN rows : rows[r] = "applied"
SameKeyIsEnough(op, message) == TRUE        \* a slip: the digest not compared
Matches(op, message) == op.message = message
Judged(call, op) ==
    CASE ~Matches(op, call.message) -> Ended(call, "conflict")
      [] Matches(op, call.message) /\ InDoubt(op.deliveries) -> Ended(call, "ambiguous")
      [] Matches(op, call.message) /\ AllApplied(op.deliveries) -> Ended(call, "already")
      [] OTHER -> [call EXCEPT !.frozen = op.deliveries, !.chosen = {}, !.created = FALSE,
                               !.pc = "claim"]

Load(c) ==
    LET k == calls[c].key IN
    /\ At(c, "load")
    /\ IF ops[k] = None THEN Goes(c, "select")
       ELSE calls' = [calls EXCEPT ![c] = Judged(@, ops[k])]
    /\ UNCHANGED <<world, ops, accepted>>

SelectRecipients(c) ==
    /\ At(c, "select")
    /\ IF eligible = {} THEN Returns(c, "error")
       ELSE calls' = [calls EXCEPT ![c].chosen = eligible, ![c].pc = "freeze"]
    /\ UNCHANGED <<world, ops, accepted>>

(* The first to insert the key decides who gets the message.                 *)
Freeze(c) ==
    LET k == calls[c].key IN
    /\ At(c, "freeze")
    /\ ops' = IF ops[k] # None THEN ops
              ELSE [ops EXCEPT ![k] = [message |-> calls[c].message,
                                       deliveries |-> [r \in calls[c].chosen |-> "prepared"]]]
    /\ calls' = [calls EXCEPT ![c].created = (ops[k] = None), ![c].pc = "frozen"]
    /\ UNCHANGED <<world, accepted>>

LoadFrozen(c) ==
    LET op == ops[calls[c].key] IN
    /\ At(c, "frozen")
    /\ IF ~calls[c].created /\ DOMAIN op.deliveries # calls[c].chosen THEN Returns(c, "conflict")
       ELSE calls' = [calls EXCEPT ![c] = Judged(@, op)]
    /\ UNCHANGED <<world, ops, accepted>>

(* The loop goes through the rows that were prepared when they were loaded.  *)
Open(call) == {r \in DOMAIN call.frozen : call.frozen[r] = "prepared"}
Current(call) == Min(Open(call))
Row(c, r, state) == ops' = [ops EXCEPT ![calls[c].key].deliveries[r] = state]
Advanced(call) ==
    LET next == [call EXCEPT !.frozen[Current(call)] = "applied", !.tries = 0,
                             !.claimed = FALSE]
    IN  [next EXCEPT !.pc = IF Open(next) = {} THEN "final" ELSE "claim"]

ByWhatWasLoaded(c, r) == TRUE               \* a slip: no compare-and-swap
MayClaim(c, r) == Rows(calls[c].key)[r] = "prepared"
ClaimPrepared(c) ==
    LET r == Current(calls[c]) IN
    /\ At(c, "claim")
    /\ IF MayClaim(c, r) THEN Row(c, r, "sending") ELSE UNCHANGED ops
    /\ calls' = [calls EXCEPT ![c].claimed = MayClaim(c, r), ![c].tries = @ + 1,
                              ![c].pc = "look"]
    /\ UNCHANGED <<world, accepted>>

(* The row is read after the claim; who did not get it sees how far the      *)
(* other one came, and tries again if that one gave the row back.            *)
WaitForTheOther(call, state) ==             \* a slip: a send in doubt is waited for
    CASE call.claimed -> [call EXCEPT !.pc = "send"]
      [] ~call.claimed /\ state = "applied" -> Advanced(call)
      [] OTHER -> [call EXCEPT !.pc = "look"]
Looked(call, state) ==
    CASE call.claimed -> [call EXCEPT !.pc = "send"]
      [] ~call.claimed /\ state = "applied" -> Advanced(call)
      [] ~call.claimed /\ state \in {"sending", "ambiguous"} ->
           Ended(call, "ambiguous")
      [] ~call.claimed /\ state = "prepared" /\ call.tries < MaxClaims ->
           [call EXCEPT !.pc = "claim"]
      [] OTHER -> Ended(call, "error")
LoadDelivery(c) ==
    /\ At(c, "look")
    /\ calls' = [calls EXCEPT ![c] = Looked(@, Rows(@.key)[Current(@)])]
    /\ UNCHANGED <<world, ops, accepted>>

(* Telegram takes the message or not, and the answer says so, says nothing   *)
(* or says that it was refused.                                              *)
SendMessage(c) ==
    LET k == calls[c].key  r == Current(calls[c]) IN
    /\ At(c, "send")
    /\ \E took \in BOOLEAN, answer \in {"id", "refused", "lost"} :
         /\ answer = "id" => took
         /\ answer = "refused" => ~took
         /\ accepted' = IF took THEN [accepted EXCEPT ![k][r] = Append(@, calls[c].message)]
                        ELSE accepted
         /\ Goes(c, CASE answer = "id" -> "apply" [] answer = "refused" -> "release"
                      [] answer = "lost" -> "mark")
    /\ UNCHANGED <<world, ops>>

(* A transition of the row, which a failing write may or may not have made.  *)
Transition(c, to) ==
    LET r == Current(calls[c]) IN
    Row(c, r, IF Rows(calls[c].key)[r] = "sending" THEN to ELSE Rows(calls[c].key)[r])

MarkApplied(c) ==
    /\ At(c, "apply")
    /\ \/ /\ Transition(c, "applied")
          /\ calls' = [calls EXCEPT ![c] = Advanced([@ EXCEPT !.sentAny = TRUE])]
       \/ /\ Transition(c, "applied") \/ UNCHANGED ops
          /\ Goes(c, "mark")
    /\ UNCHANGED <<world, accepted>>

MarkAmbiguous(c) ==
    /\ At(c, "mark")
    /\ Transition(c, "ambiguous") \/ UNCHANGED ops
    /\ Returns(c, "ambiguous")
    /\ UNCHANGED <<world, accepted>>

ReleasePrepared(c) ==
    /\ At(c, "release")
    /\ \/ Transition(c, "prepared") /\ Returns(c, "error")
       \/ (Transition(c, "prepared") \/ UNCHANGED ops) /\ Returns(c, "ambiguous")
    /\ UNCHANGED <<world, accepted>>

(* The rows once more, and the answer from them.                             *)
Summarized(call, rows) ==
    IF InDoubt(rows) THEN "ambiguous"
    ELSE IF AllApplied(rows) THEN (IF call.sentAny THEN "applied" ELSE "already")
    ELSE "error"
LoadFinal(c) ==
    /\ At(c, "final")
    /\ Returns(c, Summarized(calls[c], Rows(calls[c].key)))
    /\ UNCHANGED <<world, ops, accepted>>

(* A read or the insertion that fails ends the call; the claim may have been *)
(* made.                                                                     *)
StoreFails(c) ==
    /\ calls[c].pc \in {"load", "select", "freeze", "frozen", "claim", "look", "final"}
    /\ \/ UNCHANGED ops
       \/ /\ At(c, "claim") /\ MayClaim(c, Current(calls[c]))
          /\ Row(c, Current(calls[c]), "sending")
    /\ Returns(c, "error")
    /\ UNCHANGED <<world, accepted>>

Return(c) ==
    /\ At(c, "done")
    /\ calls' = [calls EXCEPT ![c] = NoCall]
    /\ UNCHANGED <<world, ops, accepted>>

Crash ==
    /\ crashes < MaxCrashes
    /\ calls' = [c \in Callers |-> NoCall]
    /\ crashes' = crashes + 1
    /\ UNCHANGED <<eligible, ops, accepted, made, changes>>

(* A pairing is made or revoked, a user disabled or given another role.      *)
Rebind ==
    /\ changes < MaxChanges
    /\ changes' = changes + 1
    /\ \E r \in Recipients :
         eligible' = IF r \in eligible THEN eligible \ {r} ELSE eligible \cup {r}
    /\ UNCHANGED <<ops, accepted, calls, made, crashes>>

Work(c) ==
    \/ Load(c) \/ SelectRecipients(c) \/ Freeze(c) \/ LoadFrozen(c)
    \/ ClaimPrepared(c) \/ LoadDelivery(c) \/ SendMessage(c)
    \/ MarkApplied(c) \/ MarkAmbiguous(c) \/ ReleasePrepared(c) \/ LoadFinal(c)
    \/ Return(c)

Next ==
    \/ \E c \in Callers : Work(c) \/ StoreFails(c) \/ \E k \in Keys, m \in Messages : Notify(c, k, m)
    \/ Crash \/ Rebind

(* A caller that runs goes on running; that a read fails is never owed.      *)
Fairness == \A c \in Callers : WF_vars(Work(c))
Spec == Init /\ [][Next]_vars /\ Fairness
-----------------------------------------------------------------------------
(* Properties *)

(* No recipient gets the message of a key twice, whatever was refused, lost, *)
(* not written or cut off by a crash, and however many calls work on the key *)
(* (notifier.go: "never repaired by blind resend").                          *)
NoBlindResend == \A k \in Keys, r \in Recipients : Len(accepted[k][r]) <= 1

(* A call that returns "applied" or "already applied" tells the truth: every *)
(* recipient of the frozen list has got this very message, and nobody else   *)
(* has got any (notifier.go:summarizeFrozenNotification).                    *)
SuccessIsTrue ==
    \A c \in Callers : calls[c].result \in {"applied", "already"} =>
        LET k == calls[c].key IN
        \A r \in Recipients :
            accepted[k][r] = IF r \in DOMAIN Rows(k) THEN <<calls[c].message>> ELSE <<>>

(* Every call comes to an end, also one that lost its claim to another       *)
(* (notifier.go:claimPrepared).                                              *)
CallsEnd == \A c \in Callers : (calls[c].pc # "idle") ~> (calls[c].pc = "idle")
=============================================================================
