-------------------------- MODULE TelegramService --------------------------
(***************************************************************************)
(* The Telegram bot of internal/telegram.  An account of Telegram is bound *)
(* to a user by a pairing code.  When the doorbell rings, everybody bound  *)
(* gets a message, with a button if the user may unlock; the button asks   *)
(* for a confirmation, and confirming it unlocks the door.  Behind every   *)
(* button is a row of telegram_actions, an action, that is consumed once.  *)
(*                                                                         *)
(* Telegram hands out updates from an offset on and forgets those before   *)
(* it.  The service keeps the offset in memory only: a process that dies   *)
(* gets the last updates once more, and one whose handling failed is gone. *)
(*                                                                         *)
(*   action  [account, user, kind, expires, used]; its index is the token  *)
(*   code    [user, expires, used], a pairing code                         *)
(*   update  [id, account, verb, arg]; arg is a code or a token            *)
(*   unlock  [token, account, user, entitled, changed]: a call of          *)
(*           Intercom.Unlock, with what was true when it was made          *)
(***************************************************************************)
EXTENDS Naturals, Sequences, SequencesExt

CONSTANTS
    Users, Accounts,
    Admins,                     \* the users that may unlock at first
    Paired,                     \* Accounts -> Users or None: the bindings at first
    None,
    PrepareTTL, ConfirmTTL,     \* what NotifyEvent and CreateUnlockConfirmation ask for,
                                \* in ticks, rounded down
    MaxActionTTL,               \* what ActionStore.Create grants
    PairingTTL,
    Buffer,                     \* capacity of the bus subscription
    MaxClock, MaxRings, MaxCodes, MaxUpdates, MaxChanges, MaxTroubles

VARIABLES
    now,
    admins, disabled,           \* users: role and access
    bound, codes, actions,      \* the tables of PairingStore and ActionStore
    shown,                      \* tokens that have reached a chat
    bells,                      \* messages of the doorbell: [may, button]
    inbox, sent,                \* updates Telegram holds; how many there were
    offset, batch,              \* the poller: its offset, the updates it has yet to process
    pc, current, pending,       \* where processUpdate is, in which update, with which action
    rings, rung,                \* the subscription of the event worker; presses so far
    telling,                    \* bindings NotifyEvent has yet to tell
    unlocks,
    changes, troubles

users == <<admins, disabled>>
tables == <<bound, codes, actions>>
chats == <<shown, bells>>
server == <<inbox, sent>>
poller == <<offset, batch, pc, current, pending>>
worker == <<rings, rung, telling>>
bounds == <<changes, troubles>>
vars == <<now, users, tables, chats, server, poller, worker, unlocks, bounds>>

NoUpdate == [id |-> 0, account |-> None, verb |-> "none", arg |-> 0]

Init ==
    /\ now = 0 /\ admins = Admins /\ disabled = {}
    /\ bound = Paired /\ codes = <<>> /\ actions = <<>>
    /\ shown = {} /\ bells = {} /\ inbox = <<>> /\ sent = 0
    /\ offset = 0 /\ batch = <<>> /\ pc = "poll" /\ current = NoUpdate /\ pending = None
    /\ rings = 0 /\ rung = 0 /\ telling = {} /\ unlocks = <<>> /\ changes = 0 /\ troubles = 0

Tick ==
    /\ now < MaxClock /\ now' = now + 1
    /\ UNCHANGED <<users, tables, chats, server, poller, worker, unlocks, bounds>>
Trouble == troubles < MaxTroubles /\ troubles' = troubles + 1 /\ UNCHANGED changes

-----------------------------------------------------------------------------
(* The dashboard *)

PairingCreate(u) ==
    /\ Len(codes) < MaxCodes
    /\ codes' = Append(codes, [user |-> u, expires |-> now + PairingTTL, used |-> FALSE])
    /\ UNCHANGED <<now, users, bound, actions, chats, server, poller, worker, unlocks, bounds>>

(* A role or an access is changed.  Nothing calls PairingStore.Revoke.        *)
Change ==
    /\ changes < MaxChanges /\ changes' = changes + 1
    /\ \E u \in Users :
         \/ admins' = (IF u \in admins THEN admins \ {u} ELSE admins \cup {u}) /\ UNCHANGED disabled
         \/ disabled' = (IF u \in disabled THEN disabled \ {u} ELSE disabled \cup {u}) /\ UNCHANGED admins
    /\ UNCHANGED <<now, tables, chats, server, poller, worker, unlocks, troubles>>

-----------------------------------------------------------------------------
(* Telegram: a code is typed, or a button pressed by anybody who sees it.    *)

Send(a, verb, arg) ==
    /\ sent < MaxUpdates /\ sent' = sent + 1
    /\ inbox' = Append(inbox, [id |-> sent + 1, account |-> a, verb |-> verb, arg |-> arg])
    /\ UNCHANGED <<now, users, tables, chats, poller, worker, unlocks, bounds>>
Verbs(t) == IF actions[t].kind = "prepare" THEN {"prepare"} ELSE {"confirm", "cancel"}
TypeCode(a) == \E k \in DOMAIN codes : Send(a, "start", k)
PressButton(a) == \E t \in shown : \E v \in Verbs(t) : Send(a, v, t)

-----------------------------------------------------------------------------
(* ActionStore: Create, and Consume in one transaction.                      *)

Action(a, u, kind, ttl) ==
    [account |-> a, user |-> u, kind |-> kind, expires |-> now + ttl, used |-> FALSE]
Granted(ttl) == ttl <= MaxActionTTL
UnexpiredIsEnough(a, t) == actions[t].account = a /\ now <= actions[t].expires   \* a slip
Consumable(a, t) ==
    actions[t].account = a /\ ~actions[t].used /\ now <= actions[t].expires
Consumed(t) == actions' = [actions EXCEPT ![t].used = TRUE]

-----------------------------------------------------------------------------
(* The doorbell *)

Ring ==
    /\ rung < MaxRings /\ rung' = rung + 1
    /\ rings' = IF rings < Buffer THEN rings + 1 ELSE rings
    /\ UNCHANGED <<now, users, tables, chats, server, poller, telling, unlocks, bounds>>

NotifyEvent ==
    /\ rings > 0 /\ telling = {}
    /\ rings' = rings - 1
    /\ telling' = {<<a, bound[a]>> : a \in {b \in Accounts : bound[b] # None}}
    /\ UNCHANGED <<now, users, tables, chats, server, poller, rung, unlocks, bounds>>

(* The bindings were listed before; the user is read when its turn comes.    *)
Tell(a, u) ==
    LET button == u \in admins /\ Granted(PrepareTTL) IN
    /\ <<a, u>> \in telling
    /\ telling' = telling \ {<<a, u>>}
    /\ \/ /\ u \in disabled
          /\ UNCHANGED <<actions, chats, bounds>>
       \/ /\ u \notin disabled
          /\ actions' = IF button THEN Append(actions, Action(a, u, "prepare", PrepareTTL)) ELSE actions
          /\ \/ /\ shown' = IF button THEN shown \cup {Len(actions')} ELSE shown
                /\ bells' = bells \cup {[may |-> u \in admins, button |-> button]}
                /\ UNCHANGED bounds
             \/ Trouble /\ UNCHANGED chats
    /\ UNCHANGED <<now, users, bound, codes, server, poller, rings, rung, unlocks>>

-----------------------------------------------------------------------------
(* poll *)

(* Ids go up, so what is before the offset is at the head of the queue.  An  *)
(* answer that does not come may have moved the offset at the server.        *)
Before == {i \in DOMAIN inbox : inbox[i].id < offset}
Held == SubSeq(inbox, 1 + Cardinality(Before), Len(inbox))
GetUpdates ==
    /\ pc = "poll" /\ batch = <<>> /\ inbox # <<>>
    /\ \/ inbox' = Held /\ batch' = Held /\ UNCHANGED bounds
       \/ inbox' \in {inbox, Held} /\ Trouble /\ UNCHANGED batch
    /\ UNCHANGED <<now, users, tables, chats, sent, offset, pc, current, pending, worker, unlocks>>

After(u) == u.id + 1
Take ==
    /\ pc = "poll" /\ batch # <<>>
    /\ current' = Head(batch) /\ batch' = Tail(batch)
    /\ offset' = IF current'.id >= offset THEN After(current') ELSE offset
    /\ pc' = current'.verb
    /\ UNCHANGED <<now, users, tables, chats, server, pending, worker, unlocks, bounds>>

Finish == pc' = "poll" /\ current' = NoUpdate /\ pending' = None /\ UNCHANGED <<offset, batch>>
Goes(next) == pc' = next /\ UNCHANGED <<offset, batch, current>>

PairingConsume ==
    LET k == current.arg IN
    /\ pc = "start"
    /\ \/ /\ ~codes[k].used /\ now <= codes[k].expires
          /\ codes' = [codes EXCEPT ![k].used = TRUE]
          /\ bound' = [bound EXCEPT ![current.account] = codes[k].user]
          /\ changes' = IF bound' = bound THEN changes ELSE changes + 1
       \/ (codes[k].used \/ now > codes[k].expires) /\ UNCHANGED <<codes, bound, changes>>
    /\ Finish
    /\ UNCHANGED <<now, users, actions, chats, server, worker, unlocks, troubles>>

(* A transaction that fails, or whose commit is not answered, ends the       *)
(* handling; the update does not come again.                                 *)
Consume ==
    LET a == current.account  t == current.arg IN
    /\ pc \in {"prepare", "cancel", "confirm"}
    /\ \/ /\ ~Consumable(a, t)
          /\ Finish /\ UNCHANGED <<actions, bounds>>
       \/ /\ Consumable(a, t) /\ Consumed(t)
          /\ IF pc = "cancel" THEN Finish
             ELSE Goes(IF pc = "prepare" THEN "ask" ELSE "check") /\ pending' = [token |-> t, from |-> changes]
          /\ UNCHANGED bounds
       \/ /\ Consumable(a, t)
          /\ UNCHANGED actions \/ Consumed(t)
          /\ Finish /\ Trouble
    /\ UNCHANGED <<now, users, bound, codes, chats, server, worker, unlocks>>

CreateUnlockConfirmation ==
    LET a == current.account  u == bound[a] IN
    /\ pc = "ask"
    /\ \/ /\ u = None \/ u \notin admins \/ ~Granted(ConfirmTTL)
          /\ UNCHANGED <<actions, shown, bounds>>
       \/ /\ u # None /\ u \in admins /\ Granted(ConfirmTTL)
          /\ actions' = Append(actions, Action(a, u, "unlock", ConfirmTTL))
          /\ \/ shown' = shown \cup {Len(actions')} /\ UNCHANGED bounds
             \/ Trouble /\ UNCHANGED shown
    /\ Finish
    /\ UNCHANGED <<now, users, bound, codes, bells, server, worker, unlocks>>

(* The right is that of the user bound now, who must be the one who asked.   *)
MayUnlock(a, t) == bound[a] = actions[t].user /\ bound[a] \in admins
Check ==
    /\ pc = "check"
    /\ IF MayUnlock(current.account, pending.token)
       THEN Goes("unlock") /\ UNCHANGED pending ELSE Finish
    /\ UNCHANGED <<now, users, tables, chats, server, worker, unlocks, bounds>>

Unlock ==
    LET a == current.account  t == pending.token IN
    /\ pc = "unlock"
    /\ unlocks' = Append(unlocks, [token |-> t, account |-> a, user |-> actions[t].user,
                                   entitled |-> bound[a] = actions[t].user /\ bound[a] \in admins,
                                   changed |-> changes # pending.from])
    /\ Finish
    /\ UNCHANGED <<now, users, tables, chats, server, worker, bounds>>

Crash ==
    /\ Trouble
    /\ offset' = 0 /\ batch' = <<>> /\ pc' = "poll" /\ current' = NoUpdate /\ pending' = None
    /\ rings' = 0 /\ telling' = {}
    /\ UNCHANGED <<now, users, tables, chats, server, rung, unlocks>>

Next ==
    \/ Tick \/ Change \/ Ring \/ NotifyEvent \/ Crash
    \/ GetUpdates \/ Take \/ PairingConsume \/ Consume \/ CreateUnlockConfirmation \/ Check \/ Unlock
    \/ \E u \in Users : PairingCreate(u)
    \/ \E a \in Accounts : TypeCode(a) \/ PressButton(a)
    \/ \E a \in Accounts, u \in Users : Tell(a, u)

Spec == Init /\ [][Next]_vars
-----------------------------------------------------------------------------
(* Properties *)

(* An answer to the question whether to unlock unlocks at most once, also    *)
(* when Telegram delivers it again after a restart (actions.go:Consume).     *)
OneUnlockPerAnswer ==
    \A i, j \in DOMAIN unlocks : unlocks[i].token = unlocks[j].token => i = j

(* The door is unlocked for who asked and then confirmed, on one account,    *)
(* and is still bound to it with the right to unlock, unless that was        *)
(* changed while the answer was being handled (service.go:processCallback).  *)
UnlockWasConfirmed ==
    \A i \in DOMAIN unlocks :
        LET x == unlocks[i] IN
        /\ x.entitled \/ x.changed
        /\ \E p \in 1 .. x.token - 1 :
             actions[p].kind = "prepare" /\ actions[p].account = x.account /\ actions[p].used

(* A door opens once for a confirmed answer, and for nothing else.           *)
UnlockPerConfirmation == OneUnlockPerAnswer /\ UnlockWasConfirmed

(* Who may unlock can do so from the message of the doorbell.                *)
DoorbellOffersUnlock == \A b \in bells : b.may => b.button
=============================================================================
