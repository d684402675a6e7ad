------------------------------ MODULE Intercom ------------------------------
(***************************************************************************)
(* The door station of internal/intercom: a device reports presses of its  *)
(* button and states of its door over MQTT, and opens the door on a        *)
(* command that expires.  The broker keeps what the device sends for the   *)
(* session of the client and takes a message off its queue when the        *)
(* client's acknowledgement, sent after the handler, arrives; a connection *)
(* that is cut or a process that dies in between has the rest delivered    *)
(* again.  The handler works on one message at a time.                     *)
(*                                                                         *)
(*   press    [seq, at, ahead, heard]: seq is 0 for a device that does not *)
(*            number its messages, at None for one that does not date      *)
(*            them, ahead that its clock is more than five minutes fast,   *)
(*            heard that the broker had a session to keep it               *)
(*   message  a press (its index in presses), a state, an ack or a result  *)
(*   command  [status, expires]                                            *)
(***************************************************************************)
EXTENDS Naturals, FiniteSets, SequencesExt

CONSTANTS
    StateKeys,                  \* "door", "lock", "availability"
    Requests,                   \* request ids, those of calls of Unlock
    TTL,                        \* UnlockRequest.TTL, in ticks; a tick is longer than 750 ms
    MaxClock,
    MaxInputs,                  \* presses, reports and commands together
    MaxTroubles                 \* restarts, lost connections, crashes, failures and duplicates

VARIABLES
    now,
    numbered, timed,            \* the device numbers its messages; it dates its presses
    button, reports, boots,     \* its counters: of presses, of states by key, of restarts
    served,                     \* its cache of processed request ids
    opened,                     \* requests on which it has opened the door
    unheard,                    \* requests whose answers found no session
    retained,                   \* the last report of each key, which the broker keeps
    wire,                       \* commands the broker has for the device
    queue,                      \* messages the broker has for Sentinel, oldest first
    handled,                    \* how many of them went through the handler on this connection
    link, session,              \* Client.ready; the broker has the subscriptions
    ringing,                    \* the press whose event the handler is about to publish
    stored,                     \* ObservedState
    commands,                   \* the rows of intercom_commands
    unlocks,                    \* where each call of Unlock is
    presses, rung,              \* every press; those announced on the bus, in order
    taken,                      \* <<press, the time it was given>> of each time one was handled
    broken,                     \* presses and requests that met a failed write or publication,
                                \* or whose handler died
    cuts, failures, reported

device == <<numbered, timed, button, reports, boots, served, opened, unheard>>
broker == <<retained, wire, queue, handled, link, session>>
service == <<ringing, stored, commands, unlocks>>
history == <<presses, rung, taken, broken>>
bounds == <<cuts, failures, reported>>
vars == <<now, device, broker, service, history, bounds>>

None == 0
Unreported == [kind |-> "unreported"]
NoCommand == [status |-> "none", expires |-> 0]

Init ==
    /\ now = 0 /\ numbered \in BOOLEAN /\ timed \in BOOLEAN /\ button = 0 /\ boots = 0
    /\ reports = [k \in StateKeys |-> 0] /\ served = {} /\ opened = {} /\ unheard = {}
    /\ retained = [k \in StateKeys |-> Unreported] /\ wire = {} /\ queue = <<>> /\ handled = 0 /\ link = "down" /\ session = FALSE
    /\ ringing = None
    /\ stored = [lastButton |-> 0, lastAt |-> None, seq |-> [k \in StateKeys |-> 0],
                 seen |-> [k \in StateKeys |-> <<0, 0>>]]
    /\ commands = [r \in Requests |-> NoCommand]
    /\ unlocks = [r \in Requests |-> "idle"]
    /\ presses = <<>> /\ rung = <<>> /\ taken = {} /\ broken = {}
    /\ cuts = 0 /\ failures = 0 /\ reported = 0

Tick == now < MaxClock /\ now' = now + 1 /\ UNCHANGED <<device, broker, service, history, bounds>>

Inputs == Len(presses) + reported + Cardinality({r \in Requests : commands[r] # NoCommand})
Troubles == boots + cuts + failures
Fails == Troubles < MaxTroubles /\ failures' = failures + 1 /\ UNCHANGED <<cuts, reported>>
FailsFor(x) == Fails /\ broken' = broken \cup {x}
Sent(ms) == queue' = IF session THEN queue \o ms ELSE queue
Number(n) == IF numbered THEN n ELSE 0
-----------------------------------------------------------------------------
(* The device *)

Press(ahead) ==
    /\ Inputs < MaxInputs /\ (ahead => timed)
    /\ button' = button + 1
    /\ presses' = Append(presses, [seq |-> Number(button + 1), at |-> IF timed THEN now + 1 ELSE None,
                                   ahead |-> ahead, heard |-> session])
    /\ Sent(<<[kind |-> "button", press |-> Len(presses) + 1]>>)
    /\ UNCHANGED <<now, numbered, timed, reports, boots, served, opened, unheard, retained, wire, handled, link, session,
                   service, rung, taken, broken, bounds>>

(* A state is retained and numbered for its key; seen stands for its value.  *)
Report(k) ==
    LET m == [kind |-> "state", key |-> k, seq |-> Number(reports[k] + 1),
              seen |-> <<boots, reports[k] + 1>>] IN
    /\ Inputs < MaxInputs /\ reported' = reported + 1
    /\ reports' = [reports EXCEPT ![k] = @ + 1]
    /\ retained' = [retained EXCEPT ![k] = m]
    /\ Sent(<<m>>)
    /\ UNCHANGED <<now, numbered, timed, button, boots, served, opened, unheard, wire, handled, link, session,
                   service, history, cuts, failures>>

(* The counters start again, and the cache is lost.                          *)
Restart ==
    /\ Troubles < MaxTroubles
    /\ boots' = boots + 1 /\ button' = 0
    /\ reports' = [k \in StateKeys |-> 0] /\ served' = {}
    /\ UNCHANGED <<now, numbered, timed, opened, unheard, broker, service, history, bounds>>

(* It answers before it drives the relay and after; what is expired or was   *)
(* served it refuses.  A command may be delivered more than once.            *)
Execute(r) ==
    /\ r \in wire
    /\ \/ wire' = wire \ {r} /\ UNCHANGED bounds
       \/ UNCHANGED wire /\ Fails
    /\ unheard' = IF session THEN unheard ELSE unheard \cup {r}
    /\ \/ /\ r \notin served /\ now <= commands[r].expires
          /\ served' = served \cup {r}
          /\ \E works \in BOOLEAN :
               /\ opened' = IF works THEN opened \cup {r} ELSE opened
               /\ Sent(<<[kind |-> "ack", request |-> r, accepted |-> TRUE],
                         [kind |-> "result", request |-> r, success |-> works]>>)
       \/ /\ r \in served \/ now > commands[r].expires
          /\ Sent(<<[kind |-> "ack", request |-> r, accepted |-> FALSE]>>)
          /\ UNCHANGED <<served, opened>>
    /\ UNCHANGED <<now, numbered, timed, button, reports, boots, retained, handled, link, session, service,
                   history>>

-----------------------------------------------------------------------------
(* The connection *)

Connect ==
    /\ link = "down"
    /\ link' = "up" /\ handled' = 0
    /\ UNCHANGED <<now, device, retained, wire, queue, session, service, history, bounds>>

Kept == {retained[k] : k \in StateKeys} \ {Unreported}
(* Asked for once on each connection; a failure is not looked at.  What was  *)
(* retained comes in any order.                                              *)
Subscribe ==
    /\ link = "up"
    /\ link' = "subscribed"
    /\ \/ session' = TRUE /\ \E ms \in SetToSeqs(Kept) : queue' = queue \o ms
       \/ UNCHANGED <<session, queue>>
    /\ UNCHANGED <<now, device, retained, wire, handled, service, history, bounds>>

(* The handler is called to its end.                                         *)
Cut ==
    /\ link # "down" /\ ringing = None /\ Troubles < MaxTroubles
    /\ link' = "down" /\ handled' = 0 /\ cuts' = cuts + 1
    /\ UNCHANGED <<now, device, retained, wire, queue, session, service, history, failures, reported>>

-----------------------------------------------------------------------------
(* IngestMQTT *)

Delivered == link # "down" /\ ringing = None /\ handled < Len(queue)
Message == queue[handled + 1]

(* The acknowledgement of a message reaches the broker, or it and those that *)
(* follow it on this connection do not.                                      *)

Done ==
    /\ \/ handled = 0 /\ queue' = Tail(queue) /\ UNCHANGED handled
       \/ handled' = handled + 1 /\ UNCHANGED queue
    /\ UNCHANGED <<retained, wire, link, session>>

(* A press without a date is given the time at which it is handled.          *)
At(p) == IF p.at = None THEN now + 1 ELSE p.at

(* Told apart by number, or, without one, by 750 ms: less than a tick.       *)
ZeroIsANumber(p) == p.seq <= stored.lastButton      \* a slip: no number, never heard
Repeated(p) ==
    \/ p.seq > 0 /\ p.seq <= stored.lastButton
    \/ p.seq = 0 /\ At(p) = stored.lastAt

IngestButton ==
    /\ Delivered /\ Message.kind = "button"
    /\ LET p == presses[Message.press] IN
         \/ p.ahead /\ Done /\ UNCHANGED <<service, taken, broken, bounds>>
         \/ /\ ~p.ahead /\ Repeated(p) /\ taken' = taken \cup {<<Message.press, At(p)>>}
            /\ Done /\ UNCHANGED <<service, broken, bounds>>
         \/ /\ ~p.ahead /\ ~Repeated(p) /\ taken' = taken \cup {<<Message.press, At(p)>>}
            /\ stored' = [stored EXCEPT !.lastAt = At(p), !.lastButton = IF p.seq > @ THEN p.seq ELSE @]
            /\ ringing' = Message.press
            /\ UNCHANGED <<broker, commands, unlocks, broken, bounds>>
         \/ ~p.ahead /\ FailsFor(Message.press) /\ Done /\ UNCHANGED <<service, taken>>
    /\ UNCHANGED <<now, device, presses, rung>>

PublishButton ==
    /\ ringing # None
    /\ rung' = Append(rung, ringing) /\ ringing' = None
    /\ Done /\ UNCHANGED <<now, device, stored, commands, unlocks, presses, taken, broken, bounds>>

Old(m) == m.seq # 0 /\ m.seq <= stored.seq[m.key]
IngestState ==
    /\ Delivered /\ Message.kind = "state"
    /\ LET m == Message IN
         \/ Old(m) /\ UNCHANGED <<stored, bounds>>
         \/ /\ ~Old(m)
            /\ stored' = [stored EXCEPT !.seq[m.key] = IF m.seq > @ THEN m.seq ELSE @,
                                        !.seen[m.key] = m.seen]
            /\ UNCHANGED bounds
         \/ Fails /\ UNCHANGED stored
    /\ Done /\ UNCHANGED <<now, device, ringing, commands, unlocks, history>>

(* One UPDATE guarded by the status and the expiry of the row.               *)
Moves(r, from, to) ==
    commands' = IF commands[r].status \in from /\ now <= commands[r].expires
                THEN [commands EXCEPT ![r].status = to] ELSE commands
UpdateAck ==
    /\ Delivered /\ Message.kind = "ack"
    /\ \/ /\ Moves(Message.request, {"pending"}, IF Message.accepted THEN "acknowledged" ELSE "rejected")
          /\ UNCHANGED <<bounds, broken>>
       \/ FailsFor(Message.request) /\ UNCHANGED commands
    /\ Done /\ UNCHANGED <<now, device, ringing, stored, unlocks, presses, rung, taken>>

OnlyPending == {"pending"}                     \* a slip: acknowledged is final
MayComplete == {"pending", "acknowledged"}
UpdateResult ==
    /\ Delivered /\ Message.kind = "result"
    /\ \/ /\ Moves(Message.request, MayComplete, IF Message.success THEN "completed" ELSE "rejected")
          /\ UNCHANGED <<bounds, broken>>
       \/ FailsFor(Message.request) /\ UNCHANGED commands
    /\ Done /\ UNCHANGED <<now, device, ringing, stored, unlocks, presses, rung, taken>>

-----------------------------------------------------------------------------
(* Unlock *)

CreateCommand(r) ==
    /\ unlocks[r] = "idle" /\ Inputs < MaxInputs
    /\ commands' = [commands EXCEPT ![r] = [status |-> "pending", expires |-> now + TTL]]
    /\ unlocks' = [unlocks EXCEPT ![r] = "publish"]
    /\ UNCHANGED <<now, device, broker, ringing, stored, history, bounds>>

(* That the answer of the broker does not come says nothing.                 *)
PublishCommand(r) ==
    /\ unlocks[r] = "publish"
    /\ \/ /\ link # "down" /\ wire' = wire \cup {r}
          /\ unlocks' = [unlocks EXCEPT ![r] = "done"] /\ UNCHANGED <<bounds, broken>>
       \/ /\ wire' = IF link # "down" THEN wire \cup {r} ELSE wire
          /\ unlocks' = [unlocks EXCEPT ![r] = "mark"] /\ FailsFor(r)
    /\ UNCHANGED <<now, device, retained, queue, handled, link, session, ringing, stored, commands, presses, rung, taken>>

MarkPublishFailed(r) ==
    /\ unlocks[r] = "mark"
    /\ unlocks' = [unlocks EXCEPT ![r] = "failed"]
    /\ commands' = IF commands[r].status = "pending"
                   THEN [commands EXCEPT ![r].status = "publish_failed"] ELSE commands
    /\ UNCHANGED <<now, device, broker, ringing, stored, history, bounds>>

(* The process dies: the message in its handler is delivered again.          *)
Crash ==
    /\ Troubles < MaxTroubles
    /\ cuts' = cuts + 1
    /\ broken' = broken \cup ({ringing} \ {None})
    /\ link' = "down" /\ handled' = 0 /\ ringing' = None
    /\ unlocks' = [r \in Requests |-> IF unlocks[r] \in {"publish", "mark"} THEN "died" ELSE unlocks[r]]
    /\ UNCHANGED <<now, device, retained, wire, queue, session, stored, commands, presses, rung, taken, failures, reported>>

Next ==
    \/ Tick \/ Restart \/ Connect \/ Subscribe \/ Cut \/ Crash
    \/ IngestButton \/ PublishButton \/ IngestState \/ UpdateAck \/ UpdateResult
    \/ \E ahead \in BOOLEAN : Press(ahead)
    \/ \E k \in StateKeys : Report(k)
    \/ \E r \in Requests : Execute(r) \/ CreateCommand(r) \/ PublishCommand(r) \/ MarkPublishFailed(r)

Spec == Init /\ [][Next]_vars
-----------------------------------------------------------------------------
(* Properties *)

Rang(i) == \E n \in DOMAIN rung : rung[n] = i
RangTwice(i) == \E m, n \in DOMAIN rung : m # n /\ rung[m] = i /\ rung[n] = i

(* A press rings once, however often the broker delivers it; without numbers *)
(* it may ring again after a connection was lost, if another press was       *)
(* handled since or, without dates, if it is handled again in another tick   *)
(* (service.go:IngestMQTT, 750 ms, and the handling time for no date).       *)
RungTwiceHasACause ==
    \A i \in 1 .. Len(presses) : RangTwice(i) =>
        /\ ~numbered /\ cuts > 0
        /\ \E x, y \in taken : x[1] = i /\ x[2] # y[2] /\ (timed <=> y[1] # i)

(* A press that never rings was one of those the service cannot tell from a  *)
(* repetition, or met a failure: the device had counted as far before it was *)
(* restarted, or does not count and another press was given the same time,   *)
(* which is when it was pressed or, without dates, when it was handled, as   *)
(* presses kept while there was no connection are together; its clock was    *)
(* fast; the broker had no session; the write failed, or the process died    *)
(* between the write and the event.                                          *)
Coming(i) == ringing = i \/ \E n \in handled + 1 .. Len(queue) :
                 queue[n].kind = "button" /\ queue[n].press = i
SilenceHasACause ==
    \A i \in 1 .. Len(presses) :
        \/ Rang(i) \/ Coming(i)
        \/ presses[i].ahead \/ ~presses[i].heard \/ i \in broken
        \/ \E j \in (1 .. Len(presses)) \ {i} :
             IF numbered THEN j < i /\ presses[j].seq >= presses[i].seq
             ELSE \E x \in taken : x[1] = i /\ <<j, x[2]>> \in taken

(* A press rings exactly once, unless one of these causes explains it.        *)
PressRingsOnce == RungTwiceHasACause /\ SilenceHasACause

(* A door that was opened is on record as "completed", unless its answers    *)
(* are still under way, came late, met a failure or found no session; and    *)
(* what is on record as completed was opened (commands.go:UpdateResult).     *)
Answering(r) == \E n \in handled + 1 .. Len(queue) :
                    queue[n].kind = "result" /\ queue[n].request = r
OpenedIsExplained ==
    \A r \in Requests :
        /\ commands[r].status = "completed" => r \in opened
        /\ r \in opened => \/ commands[r].status = "completed" \/ Answering(r)
                           \/ now > commands[r].expires \/ r \in broken \/ r \in unheard
                           \/ boots > 0
=============================================================================
