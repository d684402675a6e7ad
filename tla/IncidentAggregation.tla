------------------------ MODULE IncidentAggregation ------------------------
(***************************************************************************)
(* internal/incidents on internal/events: the service takes events from    *)
(* its subscription of the bus, stores each, groups it into an incident    *)
(* and stores the incident; a ticker closes incidents that have had no     *)
(* event for a while.                                                      *)
(*                                                                         *)
(* The bus drops what a full subscription cannot take.  The engine lives   *)
(* in memory and starts empty; events and incidents are durable.  One      *)
(* goroutine does all of it, and nothing else calls the engine.  What an   *)
(* envelope says is its place (location, or the camera), its object (none  *)
(* for the door and its button) and its correlation id.  When an event     *)
(* occurred is in its payload: earlier than it is published, by any time.  *)
(***************************************************************************)
EXTENDS Naturals, Sequences

CONSTANTS
  Kinds,              \* [place, object, corr] of the events there are
  None,               \* no place, no object
  Window, Buffer,
  MaxEvents, MaxTime, MaxMishaps      \* bounds of the model

ASSUME WindowAssumption == Window \in Nat \ {0} /\ Buffer \in Nat \ {0}
ASSUME BoundsAssumption == MaxEvents \in Nat /\ MaxTime \in Nat \ {0}
ASSUME KindsAssumption == \A k \in Kinds : DOMAIN k = {"place", "object", "corr"}

VARIABLES
  now,
  published,       \* the events the subscription has taken, in order; an event is its index
  dropped,         \* how many it has dropped
  queue,           \* subscriber.ch
  pc, ev, todo,    \* the service: where it is, with which event, and the incidents it has to store
  engine,          \* Engine.active, by incident; closed ones included
  events, stored,  \* the stores of events and incidents
  lost, stale,     \* history: events, and incidents, of which a failed store or a crash kept something
  mishaps

vars == <<now, published, dropped, queue, pc, ev, todo, engine, events, stored, lost, stale, mishaps>>
bus == <<now, published, dropped>>
durable == <<events, stored>>
history == <<lost, stale, mishaps>>

Events == 1 .. MaxEvents
Ids == Events                \* an incident is named by the event that opened it
Absent == [open |-> FALSE, last |-> 0, place |-> None, events |-> {}]
Places == {k.place : k \in Kinds} \cup {None}
Incident == [open : BOOLEAN, last : 0 .. MaxTime, place : Places, events : SUBSET Events]
Exists(i) == engine[i] # Absent

At(e) == published[e].at
What(e) == published[e].kind

TypeOK ==
  /\ now \in 1 .. MaxTime /\ dropped \in Nat
  /\ published \in Seq([kind : Kinds, at : 0 .. MaxTime]) /\ Len(published) + dropped <= MaxEvents
  /\ queue \in Seq(Events) /\ Len(queue) <= Buffer
  /\ pc \in {"idle", "process", "put"}
  /\ ev \in Events \cup {0} /\ (ev = 0 <=> pc # "process")
  /\ todo \subseteq Ids /\ (todo = {} <=> pc # "put")
  /\ engine \in [Ids -> Incident] /\ stored \in [Ids -> Incident]
  /\ events \subseteq Events /\ lost \subseteq Events /\ stale \subseteq Ids

Init ==
  /\ now = 1 /\ published = <<>> /\ dropped = 0 /\ queue = <<>>
  /\ pc = "idle" /\ ev = 0 /\ todo = {}
  /\ engine = [i \in Ids |-> Absent] /\ stored = [i \in Ids |-> Absent]
  /\ events = {} /\ lost = {} /\ stale = {}
  /\ mishaps = 0

-----------------------------------------------------------------------------
Goto(to) == pc' = to

Publish(k, t) ==
  /\ Len(published) + dropped < MaxEvents /\ now + Window < MaxTime
  /\ IF Len(queue) < Buffer
       THEN /\ published' = Append(published, [kind |-> k, at |-> t])
            /\ queue' = Append(queue, Len(published) + 1)
            /\ UNCHANGED dropped
       ELSE dropped' = dropped + 1 /\ UNCHANGED <<published, queue>>
  /\ UNCHANGED <<now, pc, ev, todo, engine, durable, history>>

\* The service receives an event, and Ingest stores it: Events.Put.
Receive ==
  /\ pc = "idle" /\ queue # <<>>
  /\ queue' = Tail(queue)
  /\ UNCHANGED <<bus, todo, engine, stored, stale>>

StoreEvent ==
  /\ Receive /\ Goto("process") /\ ev' = Head(queue)
  /\ events' = events \cup {Head(queue)}
  /\ UNCHANGED <<lost, mishaps>>

Mishap == mishaps < MaxMishaps /\ mishaps' = mishaps + 1

\* Events.Put fails: the event is given up.
StoreEventFails ==
  /\ Receive /\ Mishap
  /\ lost' = lost \cup {Head(queue)}
  /\ UNCHANGED <<pc, ev, events>>

Objects(i) == {What(e).object : e \in engine[i].events} \ {None}
Correlations(i) == {What(e).corr : e \in engine[i].events}

\* An open incident whose LastEventAt is not too long before or after t.
Near(i, t) == engine[i].open /\ t <= engine[i].last + Window /\ engine[i].last <= t + Window

\* Fault: objects are not compared.
AtPlace(i, k) == k.place # None /\ engine[i].place = k.place

\* samePlace, and no other object: k may join i.
SameScene(i, k) ==
  /\ k.place # None /\ engine[i].place = k.place
  /\ k.object = None \/ Objects(i) = {} \/ k.object \in Objects(i)

First(S) == {i \in S : \A j \in S : i <= j}
Latest(S) == {i \in S : \A j \in S : engine[j].last <= engine[i].last}

\* The incident Process chooses for an event, as a set of one: the first with its correlation id, or
\* else of those at the same scene the first of the latest, or else a new one.
Chosen(e) ==
  LET near == {i \in Ids : Exists(i) /\ Near(i, At(e))}
      correlated == {i \in near : What(e).corr \in Correlations(i)}
      scene == {i \in near : SameScene(i, What(e))} IN
    IF correlated # {} THEN First(correlated) ELSE IF scene # {} THEN First(Latest(scene)) ELSE {e}

\* attach: LastEventAt is the latest time, the place that of the first event that has one.
Attach(x, e) ==
  [open |-> TRUE, events |-> x.events \cup {e},
   last |-> IF At(e) > x.last THEN At(e) ELSE x.last,
   place |-> IF x.place = None THEN What(e).place ELSE x.place]

\* Fault: an event without a place is skipped.
ProcessPlaced ==
  /\ pc = "process" /\ ev' = 0
  /\ IF What(ev).place = None
       THEN Goto("idle") /\ UNCHANGED <<engine, todo>>
       ELSE \E i \in Chosen(ev) :
              /\ Goto("put") /\ todo' = {i}
              /\ engine' = [engine EXCEPT ![i] = Attach(@, ev)]
  /\ UNCHANGED <<bus, queue, durable, history>>

\* Engine.Process.
Process ==
  /\ pc = "process" /\ Goto("put")
  /\ \E i \in Chosen(ev) :
       /\ engine' = [engine EXCEPT ![i] = Attach(@, ev)]
       /\ todo' = {i}
  /\ ev' = 0
  /\ UNCHANGED <<bus, queue, durable, history>>

\* The incidents to store are stored one by one, in any order; nothing has changed them meanwhile.
Proceed(i) ==
  /\ i \in todo /\ todo' = todo \ {i}
  /\ Goto(IF todo = {i} THEN "idle" ELSE "put")

Put(i) ==
  /\ Proceed(i)
  /\ stored' = [stored EXCEPT ![i] = engine[i]]
  /\ stale' = stale \ {i}
  /\ UNCHANGED <<bus, queue, ev, engine, events, lost, mishaps>>

\* Incidents.Put fails: nobody tries again.
PutFails(i) ==
  /\ Proceed(i) /\ Mishap
  /\ stale' = stale \cup {i}
  /\ lost' = lost \cup (engine[i].events \ stored[i].events)
  /\ UNCHANGED <<bus, queue, ev, engine, durable>>

\* Fault: only the incident opened last is looked at.
ExpiredCurrent(t) ==
  {i \in Ids : Exists(i) /\ (\A j \in Ids : j > i => ~Exists(j)) /\ engine[i].open /\ t > engine[i].last + Window}

Expired(t) == {i \in Ids : Exists(i) /\ engine[i].open /\ t > engine[i].last + Window}

\* closeStale, for the time t at which the ticker fired.
CloseStale(t) ==
  /\ pc = "idle" /\ Expired(t) # {} /\ Goto("put")
  /\ engine' = [i \in Ids |-> IF i \in Expired(t) THEN [engine[i] EXCEPT !.open = FALSE] ELSE engine[i]]
  /\ todo' = Expired(t)
  /\ UNCHANGED <<bus, queue, ev, durable, history>>

Tick ==
  /\ now < MaxTime /\ now' = now + 1
  /\ UNCHANGED <<published, dropped, queue, pc, ev, todo, engine, durable, history>>

\* Events the service has and has not filed, in its memory only.
InFlight ==
  {queue[k] : k \in DOMAIN queue} \cup ({ev} \ {0}) \cup UNION {engine[i].events \ stored[i].events : i \in todo}

\* The process ends, by a crash or by App.Close, and starts again.
Restart ==
  /\ Mishap
  /\ lost' = lost \cup InFlight
  /\ stale' = stale \cup {i \in Ids : Exists(i) /\ stored[i] # [engine[i] EXCEPT !.open = FALSE]}
  /\ queue' = <<>> /\ ev' = 0 /\ todo' = {} /\ Goto("idle")
  /\ engine' = [i \in Ids |-> Absent]
  /\ UNCHANGED <<bus, durable>>

Worker == StoreEvent \/ Process \/ \E i \in Ids : Put(i)

Next ==
  \/ \E k \in Kinds, t \in 0 .. now : Publish(k, t)
  \/ Worker \/ StoreEventFails \/ \E i \in Ids : PutFails(i)
  \/ \E t \in 1 .. now : CloseStale(t)
  \/ Tick \/ Restart

Spec == Init /\ [][Next]_vars

\* Time passes, the service's loop runs, and the ticker's channel is read when it fires again.
FairSpec == Spec /\ WF_vars(Tick) /\ WF_vars(Worker) /\ WF_vars(CloseStale(now))

-----------------------------------------------------------------------------
\* Events of an incident follow each other within Window, however late and in whichever order they
\* arrive: no incident bridges a longer silence (Engine.Process).
NoLongSilence ==
  \A i \in Ids : \A e \in engine[i].events :
    \/ \A f \in engine[i].events : At(f) <= At(e)
    \/ \E f \in engine[i].events : At(e) < At(f) /\ At(f) <= At(e) + Window

\* Different people at one place stay apart: all but one object of an incident came with an event
\* that shares its correlation id with another (correlation_test.go, DistinctPeopleSeparate).
PeopleApart ==
  \A i \in Ids : Objects(i) # {} =>
    \E o \in Objects(i) : \A p \in Objects(i) \ {o} :
      \E e, f \in engine[i].events : e # f /\ What(e).object = p /\ What(e).corr = What(f).corr

\* A stored incident names stored events only (Ingest stores the event first).
EventsAreStored == \A i \in Ids : stored[i].events \subseteq events

\* Between two messages the store shows what the engine has, but for incidents whose last Put failed.
StoreFollowsEngine ==
  pc = "idle" => \A i \in Ids : Exists(i) /\ i \notin stale => stored[i] = engine[i]

\* An incident that is stored as closed is final.
ClosedIsFinal ==
  [][\A i \in Ids : stored[i].events # {} /\ ~stored[i].open => stored'[i] = stored[i]]_vars

\* No event the subscription took vanishes silently: it is filed in a stored incident or on its way
\* there, unless a failed Put or a restart lost it.
NothingVanishes ==
  \A e \in DOMAIN published :
    e \in InFlight \/ e \in lost \/ \E i \in Ids : e \in stored[i].events

\* A stored open incident is closed in the end, unless a failed Put or a restart forgot it.
OpenIsClosed == \A i \in Ids : stored[i].open ~> ~stored[i].open \/ i \in stale
=============================================================================
