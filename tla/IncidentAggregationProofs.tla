--------------------- MODULE IncidentAggregationProofs ---------------------
(***************************************************************************)
(* What the incident service keeps true of its stores, for any events,     *)
(* window and buffer, any number of restarts and failed stores.            *)
(*                                                                         *)
(* The properties relate the stores to the engine at rest; the invariant   *)
(* says how they are related in between.  Events are received in the order *)
(* of their publication (InOrder), so that the event being processed is in *)
(* no incident yet and can name a new one; Timed says what LastEventAt is; *)
(* Accounted says where every event is that has been received.             *)
(***************************************************************************)
EXTENDS IncidentAggregation, SequenceTheorems, TLAPS

Received == Len(published) - Len(queue)

InOrder ==
  /\ Len(queue) <= Len(published)
  /\ \A k \in 1 .. Len(queue) : queue[k] = Received + k
  /\ ev <= Received
  /\ \A i \in Ids : \A e \in engine[i].events \cup stored[i].events :
       e <= Received /\ (pc = "process" => e < ev)

Named ==
  \A i \in Ids : /\ engine[i] = Absent \/ i \in engine[i].events
                 /\ stored[i] = Absent \/ i \in stored[i].events

Filed ==
  /\ pc = "process" => ev \in events
  /\ \A i \in Ids : engine[i].events \cup stored[i].events \subseteq events

Related ==
  /\ \A i \in todo : Exists(i)
  /\ \A i \in Ids : Exists(i) => stored[i].events \subseteq engine[i].events
  /\ \A i \in Ids : Exists(i) /\ i \notin stale /\ i \notin todo => stored[i] = engine[i]

Timed ==
  \A i \in Ids : Exists(i) =>
    /\ \E e \in engine[i].events : At(e) = engine[i].last
    /\ \A e \in engine[i].events : At(e) <= engine[i].last

Accounted ==
  \A e \in 1 .. Received :
    \/ e = ev \/ e \in lost
    \/ \E i \in todo : e \in engine[i].events
    \/ \E i \in Ids : e \in stored[i].events

Inv == TypeOK /\ InOrder /\ Named /\ Filed /\ Related /\ Timed /\ Accounted /\ NoLongSilence

\* The arithmetic of the sequences.
LEMMA Lengths ==
  ASSUME TypeOK
  PROVE  /\ Len(published) \in Nat /\ DOMAIN published = 1 .. Len(published)
         /\ Len(queue) \in Nat /\ DOMAIN queue = 1 .. Len(queue)
         /\ Received \in Int
<1>1. published \in Seq([kind : Kinds, at : 0 .. MaxTime]) /\ queue \in Seq(Events) BY DEF TypeOK
<1>2. Len(published) \in Nat /\ DOMAIN published = 1 .. Len(published) BY <1>1, LenProperties
<1>3. Len(queue) \in Nat /\ DOMAIN queue = 1 .. Len(queue) BY <1>1, LenProperties
<1> QED BY <1>2, <1>3 DEF Received

\* What the queue holds are the events published last.
LEMMA QueueSet ==
  ASSUME TypeOK, InOrder
  PROVE  {queue[k] : k \in DOMAIN queue} = {e \in 1 .. Len(published) : e > Received}
<1>1. \A k \in DOMAIN queue : queue[k] \in 1 .. Len(published) /\ queue[k] > Received
  BY Lengths DEF InOrder, Received
<1>2. ASSUME NEW e \in 1 .. Len(published), e > Received
      PROVE  \E k \in DOMAIN queue : queue[k] = e
  <2>1. e - Received \in DOMAIN queue BY <1>2, Lengths DEF Received
  <2>2. queue[e - Received] = e BY <1>2, <2>1, Lengths DEF InOrder, Received
  <2> QED BY <2>1, <2>2
<1> QED BY <1>1, <1>2

(* The invariant holds at the start.                                         *)
LEMMA InitInv == Init => Inv
<1> SUFFICES ASSUME Init PROVE Inv OBVIOUS
<1> USE WindowAssumption, BoundsAssumption DEF Init, Ids, Events, Absent
<1>1. TypeOK BY DEF TypeOK, Incident, Places
<1>2. InOrder BY DEF InOrder, Received
<1>3. Named /\ Filed /\ Related /\ Timed BY DEF Named, Filed, Related, Timed, Exists
<1>4. Accounted /\ NoLongSilence BY DEF Accounted, Received, NoLongSilence
<1> QED BY <1>1, <1>2, <1>3, <1>4 DEF Inv

\* Publishing only adds at the end.
LEMMA PublishInv == ASSUME Inv, NEW k \in Kinds, NEW t \in 0 .. now, Publish(k, t) PROVE Inv'
<1> USE WindowAssumption, BoundsAssumption DEF Inv, Publish, durable, history
<1>0. /\ Len(published) \in Nat /\ Len(queue) \in Nat /\ Received \in Int /\ now \in Nat /\ now <= MaxTime
      /\ published \in Seq([kind : Kinds, at : 0 .. MaxTime]) /\ queue \in Seq(Events)
  BY Lengths DEF TypeOK
<1>1. CASE ~(Len(queue) < Buffer)
  <2>1. /\ UNCHANGED <<now, published, queue, pc, ev, todo, engine, events, stored, lost, stale, mishaps>>
        /\ dropped' = dropped + 1
    BY <1>1
  <2>2. TypeOK' BY <1>0, <2>1 DEF TypeOK, Ids, Events
  <2>3. InOrder' /\ Named' /\ Filed' /\ Related' /\ Timed'
    BY <2>1 DEF InOrder, Received, Named, Filed, Related, Timed, Exists, At, What
  <2>4. Accounted' /\ NoLongSilence' BY <2>1 DEF Accounted, Received, NoLongSilence, At
  <2> QED BY <2>2, <2>3, <2>4
<1>2. CASE Len(queue) < Buffer
  <2> DEFINE p == [kind |-> k, at |-> t]
             n == Len(published) + 1
  <2>1. /\ UNCHANGED <<now, pc, ev, todo, engine, events, stored, lost, stale, mishaps, dropped>>
        /\ published' = Append(published, p) /\ queue' = Append(queue, n)
    BY <1>2
  <2>2. p \in [kind : Kinds, at : 0 .. MaxTime] BY <1>0
  <2>3. n \in Events BY <1>0 DEF TypeOK, Events
  <2>4. /\ published' \in Seq([kind : Kinds, at : 0 .. MaxTime]) /\ Len(published') = n
        /\ \A e \in 1 .. Len(published) : published'[e] = published[e]
    BY <1>0, <2>1, <2>2, AppendProperties
  <2>5. /\ queue' \in Seq(Events) /\ Len(queue') = Len(queue) + 1
        /\ \A j \in 1 .. Len(queue) : queue'[j] = queue[j]
        /\ queue'[Len(queue) + 1] = n
    BY <1>0, <2>1, <2>3, AppendProperties
  <2>7. TypeOK' BY <1>0, <1>2, <2>1, <2>4, <2>5 DEF TypeOK, Ids, Events
  <2>8. Received' = Received BY <1>0, <2>4, <2>5 DEF Received
  <2>9. InOrder'
    <3>1. \A j \in 1 .. Len(queue) : queue'[j] = Received' + j BY <1>0, <2>5, <2>8 DEF InOrder
    <3>5. n = Received + (Len(queue) + 1) BY <1>0 DEF Received
    <3>2. queue'[Len(queue) + 1] = Received' + (Len(queue) + 1) BY <3>5, <2>5, <2>8
    <3>3. \A j \in 1 .. Len(queue') : j \in 1 .. Len(queue) \/ j = Len(queue) + 1 BY <1>0, <2>5
    <3>4. \A j \in 1 .. Len(queue') : queue'[j] = Received' + j BY <3>1, <3>2, <3>3
    <3>6. Len(queue') <= Len(published') BY <1>0, <2>4, <2>5 DEF InOrder
    <3>7. /\ ev' <= Received'
          /\ \A i \in Ids : \A e \in engine'[i].events \cup stored'[i].events :
               e <= Received' /\ (pc' = "process" => e < ev')
      BY <2>1, <2>8 DEF InOrder
    <3> QED BY <3>4, <3>6, <3>7 DEF InOrder
  <2>10. Named' /\ Filed' /\ Related' BY <2>1 DEF Named, Filed, Related, Exists
  <2>11. \A i \in Ids : \A e \in engine[i].events : At(e)' = At(e)
    <3> SUFFICES ASSUME NEW i \in Ids, NEW e \in engine[i].events PROVE At(e)' = At(e)
      OBVIOUS
    <3>1. e \in Events BY DEF TypeOK, Incident
    <3>2. e \in 1 .. Len(published) BY <1>0, <3>1 DEF InOrder, Received, Events
    <3> QED BY <2>4, <3>2 DEF At
  <2>12. Timed' /\ NoLongSilence' BY <2>1, <2>11 DEF Timed, NoLongSilence, Exists
  <2>13. Accounted' BY <2>1, <2>8 DEF Accounted
  <2> QED BY <2>7, <2>9, <2>10, <2>12, <2>13
<1> QED BY <1>1, <1>2

\* What Receive does to the queue.
LEMMA ReceiveFacts ==
  ASSUME Inv, Receive
  PROVE  /\ Head(queue) \in Events /\ Head(queue) = Received + 1
         /\ Received \in Nat /\ Received' = Received + 1 /\ Received' <= Len(published)
         /\ queue' \in Seq(Events) /\ Len(queue') = Len(queue) - 1 /\ Len(queue') \in Nat
         /\ \A j \in 1 .. Len(queue') : queue'[j] = Received' + j
         /\ pc = "idle" /\ ev = 0 /\ todo = {}
<1> USE DEF Inv, Receive, bus
<1>1. /\ queue \in Seq(Events) /\ queue # <<>>
      /\ Len(queue) \in Nat /\ Len(published) \in Nat /\ Received \in Nat
  BY Lengths DEF TypeOK, InOrder, Received
<1>2. /\ Head(queue) \in Events /\ queue' \in Seq(Events) /\ Len(queue') = Len(queue) - 1
      /\ \A j \in 1 .. Len(queue') : queue'[j] = queue[j + 1]
  BY <1>1, HeadTailProperties
<1>3. Len(queue) # 0 /\ Head(queue) = queue[1] BY <1>1, EmptySeq
<1>4. Received' = Received + 1 /\ Received' <= Len(published) BY <1>1, <1>2, <1>3 DEF Received
<1>5. Head(queue) = Received + 1 BY <1>1, <1>3 DEF InOrder
<1>6. ASSUME NEW j \in 1 .. Len(queue') PROVE queue'[j] = Received' + j
  <2>1. j + 1 \in 1 .. Len(queue) BY <1>1, <1>2
  <2>2. queue[j + 1] = Received + (j + 1) BY <2>1 DEF InOrder
  <2> QED BY <1>1, <1>2, <1>4, <2>2
<1>7. Len(queue') \in Nat BY <1>1, <1>2, <1>3
<1>8. pc = "idle" /\ ev = 0 /\ todo = {} BY DEF TypeOK
<1> QED BY <1>1, <1>2, <1>4, <1>5, <1>6, <1>7, <1>8

(* An event that is stored, or is not.                                       *)
LEMMA StoreInv == ASSUME Inv, StoreEvent \/ StoreEventFails PROVE Inv'
<1> USE DEF Inv
<1>0. Receive /\ UNCHANGED <<now, published, dropped, todo, engine, stored, stale>>
  BY DEF StoreEvent, StoreEventFails, Receive, bus
<1>1. /\ Head(queue) \in Events /\ Head(queue) = Received + 1
      /\ Received \in Nat /\ Received' = Received + 1 /\ Received' <= Len(published)
      /\ queue' \in Seq(Events) /\ Len(queue') = Len(queue) - 1 /\ Len(queue') \in Nat
      /\ \A j \in 1 .. Len(queue') : queue'[j] = Received' + j
      /\ pc = "idle" /\ ev = 0 /\ todo = {}
  BY <1>0, ReceiveFacts
<1>2. Len(queue) \in Nat /\ Len(published) \in Nat BY Lengths
<1>3. Named' /\ Related' /\ Timed' /\ NoLongSilence'
  BY <1>0 DEF Named, Related, Timed, NoLongSilence, Exists, At
<1>4. Len(queue') <= Len(published') BY <1>0, <1>1, <1>2 DEF InOrder
<1>8. Len(queue') <= Buffer BY <1>1, <1>2, WindowAssumption DEF TypeOK
<1>5. \A i \in Ids : \A e \in engine[i].events \cup stored[i].events : e <= Received' /\ e < Received + 1
  <2> SUFFICES ASSUME NEW i \in Ids, NEW e \in engine[i].events \cup stored[i].events
               PROVE  e <= Received' /\ e < Received + 1
    OBVIOUS
  <2>1. e \in Nat BY DEF TypeOK, Incident, Events
  <2>2. e <= Received BY DEF InOrder
  <2> QED BY <1>1, <2>1, <2>2
<1>6. CASE StoreEvent
  <2>1. pc' = "process" /\ ev' = Head(queue) /\ events' = events \cup {Head(queue)} /\ UNCHANGED <<lost, mishaps>>
    BY <1>6 DEF StoreEvent, Goto
  <2>6. ev' \in Events /\ ev' # 0 BY <1>1, <2>1, BoundsAssumption DEF Events
  <2>2. TypeOK' BY <1>0, <1>1, <1>8, <2>1, <2>6 DEF TypeOK
  <2>3. InOrder'
    <3>1. ev' = Received + 1 /\ ev' <= Received' BY <1>1, <2>1
    <3>2. \A i \in Ids : \A e \in engine'[i].events \cup stored'[i].events : e <= Received' /\ e < ev'
      BY <1>0, <1>5, <3>1
    <3> QED BY <1>1, <1>4, <3>1, <3>2 DEF InOrder
  <2>4. Filed' BY <1>0, <2>1 DEF Filed
  <2>5. Accounted' BY <1>0, <1>1, <2>1 DEF Accounted
  <2> QED BY <1>3, <2>2, <2>3, <2>4, <2>5
<1>7. CASE StoreEventFails
  <2>1. lost' = lost \cup {Head(queue)} /\ UNCHANGED <<pc, ev, events>>
    BY <1>7 DEF StoreEventFails
  <2>6. ev' = 0 /\ ev' <= Received' /\ pc' # "process" BY <1>1, <2>1
  <2>2. TypeOK' BY <1>0, <1>1, <1>8, <2>1 DEF TypeOK
  <2>3. InOrder' BY <1>0, <1>1, <1>4, <1>5, <2>6 DEF InOrder
  <2>4. Filed' BY <1>0, <2>1 DEF Filed
  <2>5. Accounted' BY <1>0, <1>1, <2>1 DEF Accounted
  <2> QED BY <1>3, <2>2, <2>3, <2>4, <2>5
<1> QED BY <1>6, <1>7

\* What an event that the service is processing is, and where it may go.
LEMMA ChosenFacts ==
  ASSUME Inv, pc = "process", NEW i \in Chosen(ev)
  PROVE  /\ ev \in Events /\ ev <= Received /\ published[ev] \in [kind : Kinds, at : 0 .. MaxTime]
         /\ i \in Ids
         /\ \/ i = ev /\ engine[i] = Absent /\ stored[i] = Absent
            \/ Exists(i) /\ Near(i, At(ev))
<1> USE DEF Inv
<1>1. ev \in Events /\ ev <= Received BY DEF TypeOK, InOrder
<1>2. published[ev] \in [kind : Kinds, at : 0 .. MaxTime]
  <2>1. ev \in 1 .. Len(published) BY <1>1, Lengths, BoundsAssumption DEF Received, Events
  <2>2. published \in Seq([kind : Kinds, at : 0 .. MaxTime]) BY DEF TypeOK
  <2> QED BY <2>1, <2>2, ElementOfSeq
<1>3. engine[ev] = Absent /\ stored[ev] = Absent
  <2>1. ~(ev < ev) BY <1>1, BoundsAssumption DEF Events
  <2>2. ev \notin engine[ev].events /\ ev \notin stored[ev].events BY <1>1, <2>1 DEF InOrder, Ids
  <2> QED BY <1>1, <2>2 DEF Named, Ids
<1>4. i = ev \/ (i \in Ids /\ Exists(i) /\ Near(i, At(ev))) BY DEF Chosen, First, Latest
<1> QED BY <1>1, <1>2, <1>3, <1>4 DEF Ids

\* The events of an incident have times.
LEMMA EventTimes ==
  ASSUME Inv, NEW i \in Ids, NEW e \in engine[i].events
  PROVE  At(e) \in Nat
<1>1. e \in Events /\ e <= Received BY DEF Inv, TypeOK, Incident, InOrder
<1>2. e \in 1 .. Len(published) BY <1>1, Lengths, BoundsAssumption DEF Inv, Received, Events, InOrder
<1>3. published \in Seq([kind : Kinds, at : 0 .. MaxTime]) BY DEF Inv, TypeOK
<1>4. published[e] \in [kind : Kinds, at : 0 .. MaxTime] BY <1>2, <1>3, ElementOfSeq
<1> QED BY <1>4, BoundsAssumption DEF At

(* The engine takes an event.                                                *)
LEMMA ProcessInv == ASSUME Inv, Process PROVE Inv'
<1> USE DEF Inv
<1>0. /\ UNCHANGED <<now, published, dropped, queue, events, stored, lost, stale, mishaps>>
      /\ pc = "process" /\ pc' = "put" /\ ev' = 0
  BY DEF Process, Goto, bus, durable, history
<1>1. PICK i \in Chosen(ev) : engine' = [engine EXCEPT ![i] = Attach(@, ev)] /\ todo' = {i}
  BY DEF Process
<1>2. /\ ev \in Events /\ ev <= Received /\ published[ev] \in [kind : Kinds, at : 0 .. MaxTime]
      /\ i \in Ids
      /\ \/ i = ev /\ engine[i] = Absent /\ stored[i] = Absent
         \/ Exists(i) /\ Near(i, At(ev))
  BY <1>0, <1>1, ChosenFacts
<1> DEFINE x == engine[i]
           y == Attach(x, ev)
<1>3. x \in Incident /\ stored[i] \in Incident BY <1>2 DEF TypeOK
<1>4. At(ev) \in 0 .. MaxTime /\ What(ev).place \in Places BY <1>2 DEF At, What, Places
<1>5. /\ y \in Incident /\ y.events = x.events \cup {ev} /\ y # Absent
      /\ y.last = IF At(ev) > x.last THEN At(ev) ELSE x.last
  BY <1>2, <1>3, <1>4 DEF Attach, Incident, Absent
<1>6. /\ engine' \in [Ids -> Incident] /\ engine'[i] = y
      /\ \A j \in Ids : j # i => engine'[j] = engine[j]
  BY <1>1, <1>2, <1>5 DEF TypeOK
<1>7. i \in y.events BY <1>2, <1>5 DEF Named, Exists
<1>8. Received \in Int /\ Received' = Received BY <1>0, Lengths DEF Received
<1>9. TypeOK' BY <1>0, <1>1, <1>2, <1>6 DEF TypeOK
<1>10. InOrder'
  <2>1. \A j \in Ids : \A e \in engine'[j].events \cup stored'[j].events : e <= Received
    BY <1>0, <1>2, <1>5, <1>6 DEF InOrder
  <2>2. 0 <= Received BY <1>2, <1>8, BoundsAssumption DEF Events
  <2> QED BY <1>0, <1>8, <2>1, <2>2 DEF InOrder
<1>11. Named' BY <1>0, <1>2, <1>5, <1>6, <1>7 DEF Named
<1>12. Filed' BY <1>0, <1>2, <1>5, <1>6 DEF Filed
<1>13. todo = {} BY <1>0 DEF TypeOK
<1>14. \A j \in Ids : Exists(j)' <=> Exists(j) \/ j = i BY <1>5, <1>6 DEF Exists
<1>15. stored[i].events \subseteq y.events
  <2>1. CASE Exists(i) BY <1>2, <1>5, <2>1 DEF Related
  <2>2. CASE stored[i] = Absent BY <2>2 DEF Absent
  <2> QED BY <1>2, <2>1, <2>2
<1>16. Related' BY <1>0, <1>1, <1>2, <1>6, <1>13, <1>14, <1>15 DEF Related
<1>17. x.last \in Nat /\ At(ev) \in Nat /\ \A e \in x.events : At(e) \in Nat
  BY <1>2, <1>3, <1>4, EventTimes, BoundsAssumption DEF Incident
<1>18. \A e : At(e)' = At(e) BY <1>0 DEF At
<1>19. /\ \E e \in y.events : At(e) = y.last
       /\ \A e \in y.events : At(e) <= y.last
  <2>2. CASE Exists(i)
    <3>1. /\ \E e \in x.events : At(e) = x.last
          /\ \A e \in x.events : At(e) <= x.last
      BY <1>2, <2>2 DEF Timed
    <3>2. CASE At(ev) > x.last BY <1>5, <1>17, <3>1, <3>2
    <3>3. CASE ~(At(ev) > x.last) BY <1>5, <1>17, <3>1, <3>3
    <3> QED BY <3>2, <3>3
  <2>3. CASE x = Absent
    <3>1. x.events = {} /\ x.last = 0 BY <2>3 DEF Absent
    <3>2. y.events = {ev} /\ y.last = At(ev) BY <1>5, <1>17, <3>1
    <3> QED BY <1>17, <3>2
  <2> QED BY <1>2, <2>2, <2>3
<1>20. Timed' BY <1>6, <1>14, <1>18, <1>19 DEF Timed
<1>21. Accounted' BY <1>0, <1>1, <1>5, <1>6, <1>8, <1>13 DEF Accounted
<1>22. ASSUME NEW e \in y.events
       PROVE  \/ \A f \in y.events : At(f) <= At(e)
              \/ \E f \in y.events : At(e) < At(f) /\ At(f) <= At(e) + Window
  <2>1. CASE x = Absent BY <1>5, <1>17, <2>1 DEF Absent
  <2>2. CASE Exists(i)
    <3>1. PICK g \in x.events : At(g) = x.last BY <1>2, <2>2 DEF Timed
    <3>2. \A f \in x.events : At(f) <= x.last BY <1>2, <2>2 DEF Timed
    <3>3. At(ev) <= x.last + Window /\ x.last <= At(ev) + Window
      BY <1>2, <2>2 DEF Near, Exists, Absent
    <3>4. CASE e = ev BY <1>5, <1>17, <3>1, <3>2, <3>3, <3>4
    <3>5. CASE e \in x.events
      <4>1. CASE \E f \in x.events : At(e) < At(f) /\ At(f) <= At(e) + Window BY <1>5, <4>1
      <4>2. CASE \A f \in x.events : At(f) <= At(e)
        <5>1. At(e) = x.last BY <1>17, <3>1, <3>2, <3>5, <4>2
        <5> QED BY <1>5, <1>17, <3>2, <3>3, <5>1
      <4> QED BY <1>2, <3>5, <4>1, <4>2 DEF NoLongSilence
    <3> QED BY <1>5, <3>4, <3>5
  <2> QED BY <1>2, <2>1, <2>2 DEF Exists
<1>23. NoLongSilence' BY <1>6, <1>18, <1>22 DEF NoLongSilence
<1> QED BY <1>9, <1>10, <1>11, <1>12, <1>16, <1>20, <1>21, <1>23

\* Storing an incident, and failing to.
LEMMA PutInv == ASSUME Inv, NEW i \in Ids, Put(i) \/ PutFails(i) PROVE Inv'
<1> USE DEF Inv
<1>0. /\ UNCHANGED <<now, published, dropped, queue, ev, engine, events>>
      /\ i \in todo /\ todo' = todo \ {i} /\ pc' = IF todo = {i} THEN "idle" ELSE "put"
  BY DEF Put, PutFails, Proceed, Goto, bus, durable
<1>1. pc = "put" /\ ev = 0 /\ Exists(i) BY <1>0 DEF TypeOK, Related
<1>2. Received' = Received BY <1>0 DEF Received
<1>3. Timed' /\ NoLongSilence' BY <1>0 DEF Timed, NoLongSilence, Exists, At
<1>4. CASE Put(i)
  <2>1. stored' = [stored EXCEPT ![i] = engine[i]] /\ stale' = stale \ {i} /\ UNCHANGED <<lost, mishaps>>
    BY <1>4 DEF Put
  <2>2. /\ stored' \in [Ids -> Incident] /\ stored'[i] = engine[i]
        /\ \A j \in Ids : j # i => stored'[j] = stored[j]
    BY <2>1 DEF TypeOK
  <2>3. TypeOK' BY <1>0, <1>1, <2>1, <2>2 DEF TypeOK
  <2>4. InOrder' BY <1>0, <1>1, <1>2, <2>2 DEF InOrder
  <2>5. Named' BY <1>0, <2>2 DEF Named
  <2>6. Filed' BY <1>0, <1>1, <2>2 DEF Filed
  <2>7. Related' BY <1>0, <2>1, <2>2 DEF Related, Exists
  <2>8. Accounted'
    <3>1. stored[i].events \subseteq stored'[i].events BY <1>1, <2>2 DEF Related
    <3> QED BY <1>0, <1>2, <2>1, <2>2, <3>1 DEF Accounted
  <2> QED BY <1>3, <2>3, <2>4, <2>5, <2>6, <2>7, <2>8
<1>5. CASE PutFails(i)
  <2>1. /\ stale' = stale \cup {i} /\ lost' = lost \cup (engine[i].events \ stored[i].events)
        /\ UNCHANGED stored
    BY <1>5 DEF PutFails, durable
  <2>2. engine[i].events \subseteq Events BY DEF TypeOK, Incident
  <2>3. TypeOK' BY <1>0, <1>1, <2>1, <2>2 DEF TypeOK
  <2>4. InOrder' BY <1>0, <1>1, <1>2, <2>1 DEF InOrder
  <2>5. Named' /\ Filed' BY <1>0, <1>1, <2>1 DEF Named, Filed
  <2>6. Related' BY <1>0, <2>1 DEF Related, Exists
  <2>7. Accounted' BY <1>0, <1>2, <2>1 DEF Accounted
  <2> QED BY <1>3, <2>3, <2>4, <2>5, <2>6, <2>7
<1> QED BY <1>4, <1>5

(* The engine closes what is old.                                            *)
LEMMA CloseStaleInv == ASSUME Inv, NEW t \in 1 .. now, CloseStale(t) PROVE Inv'
<1> USE DEF Inv
<1> DEFINE S == Expired(t)
<1>0. /\ UNCHANGED <<now, published, dropped, queue, ev, events, stored, lost, stale, mishaps>>
      /\ pc = "idle" /\ pc' = "put" /\ S # {} /\ todo' = S
      /\ engine' = [i \in Ids |-> IF i \in S THEN [engine[i] EXCEPT !.open = FALSE] ELSE engine[i]]
  BY DEF CloseStale, Goto, bus, durable, history
<1>1. S \subseteq Ids /\ \A i \in S : Exists(i) BY DEF Expired
<1>2. \A i \in Ids : /\ engine'[i] \in Incident
                     /\ engine'[i].events = engine[i].events /\ engine'[i].last = engine[i].last
                     /\ i \notin S => engine'[i] = engine[i]
  BY <1>0 DEF TypeOK, Incident
<1>3. \A i \in Ids : Exists(i)' <=> Exists(i)
  <2> SUFFICES ASSUME NEW i \in Ids, i \in S PROVE Exists(i)'
    BY <1>1, <1>2 DEF Exists
  <2>1. i \in engine[i].events BY <1>1 DEF Named, Exists
  <2> QED BY <1>2, <2>1 DEF Exists, Absent
<1>4. Received' = Received /\ \A e : At(e)' = At(e) BY <1>0 DEF Received, At
<1>5. todo = {} /\ ev = 0 BY <1>0 DEF TypeOK
<1>6. TypeOK'
  <2>1. engine' \in [Ids -> Incident] BY <1>0, <1>2
  <2> QED BY <1>0, <1>1, <1>5, <2>1 DEF TypeOK
<1>7. InOrder' BY <1>0, <1>2, <1>4, <1>5 DEF InOrder
<1>8. Named' BY <1>0, <1>1, <1>2 DEF Named, Exists
<1>9. Filed' BY <1>0, <1>2 DEF Filed
<1>10. Related' BY <1>0, <1>1, <1>2, <1>3, <1>5 DEF Related
<1>11. Timed' /\ NoLongSilence' BY <1>2, <1>3, <1>4 DEF Timed, NoLongSilence
<1>12. Accounted' BY <1>0, <1>4, <1>5 DEF Accounted
<1> QED BY <1>6, <1>7, <1>8, <1>9, <1>10, <1>11, <1>12

(* Time passes.                                                              *)
LEMMA TickInv == ASSUME Inv, Tick PROVE Inv'
<1> USE DEF Inv, Tick, durable, history
<1>1. TypeOK' BY BoundsAssumption DEF TypeOK
<1>2. InOrder' /\ Named' /\ Filed' /\ Related' /\ Timed' /\ Accounted' /\ NoLongSilence'
  BY DEF InOrder, Received, Named, Filed, Related, Timed, Accounted, NoLongSilence, Exists, At
<1> QED BY <1>1, <1>2

\* A restart empties the engine, and what was under way is lost.
LEMMA RestartInv == ASSUME Inv, Restart PROVE Inv'
<1> USE DEF Inv
<1>0. /\ UNCHANGED <<now, published, dropped, events, stored>>
      /\ lost' = lost \cup InFlight
      /\ stale' = stale \cup {i \in Ids : Exists(i) /\ stored[i] # [engine[i] EXCEPT !.open = FALSE]}
      /\ queue' = <<>> /\ ev' = 0 /\ todo' = {} /\ pc' = "idle"
      /\ engine' = [i \in Ids |-> Absent]
  BY DEF Restart, Goto, bus, durable
<1>1. Len(published) \in Nat /\ Received \in Int /\ Received <= Len(published) /\ Len(published) <= MaxEvents
  BY Lengths, BoundsAssumption DEF Received, InOrder, TypeOK
<1>2. Received' = Len(published) BY <1>0, <1>1 DEF Received
<1>3. InFlight \subseteq Events
  <2>1. {queue[k] : k \in DOMAIN queue} \subseteq Events BY QueueSet, <1>1, BoundsAssumption DEF Events
  <2>2. \A i \in todo : engine[i].events \subseteq Events BY DEF TypeOK, Incident
  <2>3. ev \in Events \cup {0} BY DEF TypeOK
  <2> QED BY <2>1, <2>2, <2>3 DEF InFlight
<1>4. engine' \in [Ids -> Incident] /\ \A i \in Ids : engine'[i] = Absent
  BY <1>0, BoundsAssumption DEF Absent, Incident, Places
<1>5. TypeOK' BY <1>0, <1>3, <1>4, WindowAssumption DEF TypeOK
<1>6. \A i \in Ids : ~Exists(i)' /\ engine'[i].events = {} BY <1>4 DEF Exists, Absent
<1>7. InOrder'
  <2>1. \A i \in Ids : \A e \in stored[i].events : e <= Len(published)
    <3> SUFFICES ASSUME NEW i \in Ids, NEW e \in stored[i].events PROVE e <= Len(published)
      OBVIOUS
    <3>1. e \in Int BY DEF TypeOK, Incident, Events
    <3>2. e <= Received BY DEF InOrder
    <3> QED BY <1>1, <3>1, <3>2
  <2> QED BY <1>0, <1>1, <1>2, <1>6, <2>1 DEF InOrder
<1>8. Named' /\ Filed' /\ Related' /\ Timed' /\ NoLongSilence'
  BY <1>0, <1>4, <1>6 DEF Named, Filed, Related, Timed, NoLongSilence
<1>9. Accounted'
  <2> SUFFICES ASSUME NEW e \in 1 .. Len(published), \A i \in Ids : e \notin stored[i].events
               PROVE  e \in lost'
    BY <1>0, <1>2 DEF Accounted
  <2>1. CASE e > Received
    <3>1. e \in {queue[k] : k \in DOMAIN queue} BY <2>1, QueueSet
    <3> QED BY <1>0, <3>1 DEF InFlight
  <2>2. CASE ~(e > Received)
    <3>1. e \in 1 .. Received BY <1>1, <2>2
    <3>2. e = ev \/ e \in lost \/ \E i \in todo : e \in engine[i].events BY <3>1 DEF Accounted
    <3>3. \A i \in todo : e \notin stored[i].events BY DEF TypeOK
    <3> QED BY <1>0, <3>2, <3>3 DEF InFlight
  <2> QED BY <2>1, <2>2
<1> QED BY <1>5, <1>7, <1>8, <1>9

(* Every step keeps the invariant.                                           *)
LEMMA NextInv == ASSUME Inv, [Next]_vars PROVE Inv'
<1>1. CASE UNCHANGED vars
  BY <1>1 DEF vars, Inv, TypeOK, InOrder, Received, Named, Filed, Related, Timed, Accounted, NoLongSilence,
              Exists, At, bus, durable, history
<1> QED BY <1>1, PublishInv, StoreInv, ProcessInv, PutInv, CloseStaleInv, TickInv, RestartInv
        DEF Next, Worker

(* The stores are related to the engine as Inv says, at rest and in between (correlation.go, service.go). *)
THEOREM InvIsInvariant == Spec => []Inv
<1> QED BY InitInv, NextInv, PTL DEF Spec

\* Every variable has the values its declaration says.
THEOREM TypeCorrect == Spec => []TypeOK
<1>1. Inv => TypeOK BY DEF Inv
<1> QED BY <1>1, InvIsInvariant, PTL

\* A stored incident names stored events only, whatever store fails and whenever the process restarts.
THEOREM StoredEventsTheorem == Spec => []EventsAreStored
<1>1. Inv => EventsAreStored BY DEF Inv, Filed, EventsAreStored
<1> QED BY <1>1, InvIsInvariant, PTL

\* Between two messages the store shows what the engine has, but for incidents whose last Put failed.
THEOREM StoreTheorem == Spec => []StoreFollowsEngine
<1>1. Inv => StoreFollowsEngine BY DEF Inv, TypeOK, Related, StoreFollowsEngine
<1> QED BY <1>1, InvIsInvariant, PTL

\* An incident bridges no silence longer than the window, in whichever order its events come.
THEOREM SilenceTheorem == Spec => []NoLongSilence
<1>1. Inv => NoLongSilence BY DEF Inv
<1> QED BY <1>1, InvIsInvariant, PTL

\* Every event the subscription took is under way, stored in an incident, or lost by a failed store or
\* a restart.
THEOREM EventTheorem == Spec => []NothingVanishes
<1>1. ASSUME Inv PROVE NothingVanishes
  <2> USE <1>1 DEF Inv
  <2> SUFFICES ASSUME NEW e \in DOMAIN published, e \notin lost, \A i \in Ids : e \notin stored[i].events
               PROVE  e \in InFlight
    BY DEF NothingVanishes
  <2>1. e \in 1 .. Len(published) /\ Received \in Int BY Lengths
  <2>2. CASE e > Received
    <3>1. e \in {queue[k] : k \in DOMAIN queue} BY <2>1, <2>2, QueueSet
    <3> QED BY <3>1 DEF InFlight
  <2>3. CASE ~(e > Received)
    <3>1. e \in 1 .. Received BY <2>1, <2>3
    <3>2. e = ev \/ \E i \in todo : e \in engine[i].events BY <3>1 DEF Accounted
    <3>3. e # 0 BY <2>1
    <3>4. \A i \in todo : e \notin stored[i].events BY DEF TypeOK
    <3> QED BY <3>2, <3>3, <3>4 DEF InFlight
  <2> QED BY <2>2, <2>3
<1> QED BY <1>1, InvIsInvariant, PTL

-----------------------------------------------------------------------------
\* What is stored as closed is what the engine has, if it has it, and is not to be stored again.
Final(i) == stored[i].events # {} /\ ~stored[i].open
Closed == \A i \in Ids : Exists(i) /\ Final(i) => engine[i] = stored[i] /\ i \notin todo

Rest == \A i \in Ids : Final(i) => stored'[i] = stored[i]

(* Every step keeps what was closed closed.                                  *)
LEMMA ClosedStep == ASSUME Inv, Closed, [Next]_vars PROVE Closed' /\ Rest
<1> USE DEF Inv
<1>1. ASSUME UNCHANGED <<engine, stored>>, todo' \subseteq todo PROVE Closed' /\ Rest
  BY <1>1 DEF Closed, Rest, Exists, Final
<1>2. CASE UNCHANGED vars BY <1>1, <1>2 DEF vars
<1>3. ASSUME NEW k \in Kinds, NEW t \in 0 .. now, Publish(k, t) PROVE Closed' /\ Rest
  BY <1>1, <1>3 DEF Publish, durable
<1>4. CASE StoreEvent \/ StoreEventFails BY <1>1, <1>4 DEF StoreEvent, StoreEventFails, Receive
<1>5. CASE Process
  <2>1. PICK i \in Chosen(ev) : engine' = [engine EXCEPT ![i] = Attach(@, ev)] /\ todo' = {i}
    BY <1>5 DEF Process
  <2>2. /\ i \in Ids
        /\ stored[i] = Absent \/ (Exists(i) /\ engine[i].open)
    BY <1>5, <2>1, ChosenFacts DEF Process, Near
  <2>3. ~Final(i) BY <2>2 DEF Closed, Final, Absent
  <2>4. \A j \in Ids : j # i => engine'[j] = engine[j] BY <2>1 DEF TypeOK
  <2>5. UNCHANGED stored /\ todo = {} BY <1>5 DEF Process, durable, TypeOK
  <2> QED BY <2>1, <2>3, <2>4, <2>5 DEF Closed, Rest, Exists, Final
<1>6. ASSUME NEW i \in Ids, Put(i) PROVE Closed' /\ Rest
  <2>1. /\ i \in todo /\ todo' = todo \ {i} /\ UNCHANGED engine
        /\ stored'[i] = engine[i] /\ \A j \in Ids : j # i => stored'[j] = stored[j]
    BY <1>6 DEF Put, Proceed, TypeOK
  <2>2. ~Final(i) BY <2>1 DEF Closed, Related
  <2> QED BY <2>1, <2>2 DEF Closed, Rest, Exists, Final
<1>7. ASSUME NEW i \in Ids, PutFails(i) PROVE Closed' /\ Rest
  BY <1>1, <1>7 DEF PutFails, Proceed, durable
<1>8. ASSUME NEW t \in 1 .. now, CloseStale(t) PROVE Closed' /\ Rest
  <2> DEFINE S == Expired(t)
  <2>1. /\ UNCHANGED stored /\ todo' = S
        /\ \A j \in Ids : j \notin S => engine'[j] = engine[j]
    BY <1>8 DEF CloseStale, durable, TypeOK
  <2>2. \A j \in S : j \in Ids /\ Exists(j) /\ engine[j].open BY DEF Expired
  <2>3. \A j \in S : ~Final(j) BY <2>2 DEF Closed, Final
  <2> QED BY <2>1, <2>3 DEF Closed, Rest, Exists, Final
<1>9. CASE Tick BY <1>1, <1>9 DEF Tick, durable
<1>10. CASE Restart
  <2>1. UNCHANGED stored /\ \A j \in Ids : engine'[j] = Absent BY <1>10 DEF Restart, durable
  <2> QED BY <2>1 DEF Closed, Rest, Exists
<1> QED BY <1>2, <1>3, <1>4, <1>5, <1>6, <1>7, <1>8, <1>9, <1>10 DEF Next, Worker

\* An incident that is stored as closed never changes again: neither a late event nor a second pass of
\* the ticker, nor a restart, reopens or rewrites it.
THEOREM ClosedTheorem == Spec => ClosedIsFinal
<1>1. Init => Closed BY DEF Init, Closed, Exists
<1>2. Inv /\ Closed /\ [Next]_vars => Closed' /\ Rest BY ClosedStep
<1>3. Rest => [\A i \in Ids : stored[i].events # {} /\ ~stored[i].open => stored'[i] = stored[i]]_vars
  BY DEF Rest, Final
<1> QED BY <1>1, <1>2, <1>3, InvIsInvariant, PTL DEF Spec, ClosedIsFinal

-----------------------------------------------------------------------------
(* What an event joins an incident by: it shares a correlation id with one   *)
(* of its events, or brings no object but one it has, or its only one.       *)
Joins(i, e) ==
  \/ \E f \in engine[i].events : What(f).corr = What(e).corr
  \/ What(e).object = None \/ What(e).object \in Objects(i) \/ Objects(i) = {}

(* An event joins an incident by its rule.                                   *)
LEMMA ChosenJoins ==
  ASSUME Inv, pc = "process", NEW i \in Chosen(ev)
  PROVE  i \in Ids /\ ev \notin engine[i].events /\ Joins(i, ev)
<1>1. /\ i \in Ids /\ ev \in Events
      /\ \/ i = ev /\ engine[i] = Absent
         \/ Exists(i) /\ Near(i, At(ev))
  BY ChosenFacts
<1>2. ev \notin engine[i].events
  <2>1. ~(ev < ev) BY <1>1, BoundsAssumption DEF Events
  <2> QED BY <1>1, <2>1 DEF Inv, InOrder
<1>3. \/ What(ev).corr \in Correlations(i)
      \/ SameScene(i, What(ev))
      \/ i = ev
  BY DEF Chosen, First, Latest
<1>4. CASE What(ev).corr \in Correlations(i) BY <1>4, <1>1, <1>2 DEF Correlations, Joins
<1>5. CASE SameScene(i, What(ev)) BY <1>5, <1>1, <1>2 DEF SameScene, Joins
<1>6. CASE i = ev
  <2>1. engine[i].events = {} BY <1>1, <1>2, <1>6 DEF Inv, Named, Absent
  <2>2. Objects(i) = {} BY <2>1 DEF Objects
  <2> QED BY <1>1, <1>2, <2>2 DEF Joins
<1> QED BY <1>3, <1>4, <1>5, <1>6

\* An incident whose events stay the same, or are none.
LEMMA ApartStays ==
  ASSUME Inv, PeopleApart,
         \A i \in Ids : engine'[i].events = engine[i].events \/ engine'[i].events = {},
         \A i \in Ids : \A e \in engine[i].events : What(e)' = What(e)
  PROVE  PeopleApart'
<1> SUFFICES ASSUME NEW i \in Ids, Objects(i)' # {}
             PROVE  \E o \in Objects(i)' : \A p \in Objects(i)' \ {o} :
                      \E e, f \in engine'[i].events : e # f /\ What(e)'.object = p /\ What(e)'.corr = What(f)'.corr
  BY DEF PeopleApart
<1>1. engine'[i].events = engine[i].events BY DEF Objects
<1>2. Objects(i)' = Objects(i) BY <1>1 DEF Objects
<1> QED BY <1>1, <1>2 DEF PeopleApart

(* Every step keeps people apart.                                            *)
LEMMA ApartStep == ASSUME Inv, PeopleApart, [Next]_vars PROVE PeopleApart'
<1>1. ASSUME engine' = engine, published' = published PROVE PeopleApart'
  BY <1>1, ApartStays DEF What
<1>2. CASE UNCHANGED vars BY <1>1, <1>2 DEF vars
<1>3. ASSUME NEW k \in Kinds, NEW t \in 0 .. now, Publish(k, t) PROVE PeopleApart'
  <2>1. engine' = engine /\ (published' = published \/ published' = Append(published, [kind |-> k, at |-> t]))
    BY <1>3 DEF Publish
  <2>2. ASSUME NEW i \in Ids, NEW e \in engine[i].events PROVE What(e)' = What(e)
    <3>1. e \in 1 .. Len(published)
      BY Lengths, BoundsAssumption DEF Inv, TypeOK, Incident, InOrder, Received, Events
    <3>2. published \in Seq([kind : Kinds, at : 0 .. MaxTime]) /\ [kind |-> k, at |-> t] \in [kind : Kinds, at : 0 .. MaxTime]
      BY BoundsAssumption DEF Inv, TypeOK
    <3>3. published'[e] = published[e] BY <2>1, <3>1, <3>2, AppendProperties
    <3> QED BY <3>3 DEF What
  <2> QED BY <2>1, <2>2, ApartStays
<1>4. CASE Process
  <2>1. PICK i \in Chosen(ev) : engine' = [engine EXCEPT ![i] = Attach(@, ev)] BY <1>4 DEF Process
  <2>2. i \in Ids /\ ev \notin engine[i].events /\ Joins(i, ev) BY <1>4, <2>1, ChosenJoins DEF Process
  <2>3. /\ engine'[i].events = engine[i].events \cup {ev}
        /\ \A j \in Ids : j # i => engine'[j] = engine[j]
    BY <2>1, <2>2 DEF Inv, TypeOK, Attach
  <2>4. \A e : What(e)' = What(e) BY <1>4 DEF Process, bus, What
  <2>5. \A j \in Ids : j # i => Objects(j)' = Objects(j) BY <2>3, <2>4 DEF Objects
  <2> DEFINE o == What(ev).object
             S == engine[i].events
  <2>6. Objects(i)' = Objects(i) \cup ({o} \ {None}) BY <2>3, <2>4 DEF Objects
  <2>7. ASSUME Objects(i)' # {}
        PROVE  \E q \in Objects(i)' : \A p \in Objects(i)' \ {q} :
                 \E e, f \in S \cup {ev} : e # f /\ What(e).object = p /\ What(e).corr = What(f).corr
    <3>1. CASE Objects(i) = {} BY <2>6, <2>7, <3>1
    <3>2. CASE Objects(i) # {}
      <4>1. PICK q \in Objects(i) : \A p \in Objects(i) \ {q} :
              \E e, f \in S : e # f /\ What(e).object = p /\ What(e).corr = What(f).corr
        BY <2>2, <3>2 DEF PeopleApart
      <4>2. ASSUME NEW p \in Objects(i)' \ {q}
            PROVE  \E e, f \in S \cup {ev} : e # f /\ What(e).object = p /\ What(e).corr = What(f).corr
        <5>1. CASE p \in Objects(i) BY <4>1, <4>2, <5>1
        <5>2. CASE p \notin Objects(i)
          <6>1. p = o /\ o # None BY <2>6, <4>2, <5>2
          <6>2. PICK f \in S : What(f).corr = What(ev).corr BY <2>2, <3>2, <5>2, <6>1 DEF Joins
          <6>3. ev # f BY <2>2
          <6> QED BY <6>1, <6>2, <6>3
        <5> QED BY <5>1, <5>2
      <4> QED BY <2>6, <4>1, <4>2
    <3> QED BY <3>1, <3>2
  <2> QED BY <2>3, <2>4, <2>5, <2>7 DEF PeopleApart
<1>5. ASSUME NEW t \in 1 .. now, CloseStale(t) PROVE PeopleApart'
  <2>1. \A i \in Ids : engine'[i].events = engine[i].events BY <1>5 DEF CloseStale, Inv, TypeOK, Incident
  <2> QED BY <1>5, <2>1, ApartStays DEF CloseStale, bus, What
<1>6. CASE Restart
  <2>1. \A i \in Ids : engine'[i].events = {} BY <1>6 DEF Restart, Absent
  <2> QED BY <1>6, <2>1, ApartStays DEF Restart, bus, What
<1>7. CASE StoreEvent \/ StoreEventFails \/ Tick BY <1>1, <1>7 DEF StoreEvent, StoreEventFails, Receive, Tick, bus
<1>8. ASSUME NEW i \in Ids, Put(i) \/ PutFails(i) PROVE PeopleApart'
  BY <1>1, <1>8 DEF Put, PutFails, bus
<1> QED BY <1>2, <1>3, <1>4, <1>5, <1>6, <1>7, <1>8 DEF Next, Worker

\* Different people at one place do not end up in one incident by way of the place: every object of an
\* incident but one came with an event that shares its correlation id with another (Engine.Process).
THEOREM PeopleTheorem == Spec => []PeopleApart
<1>1. Init => PeopleApart BY DEF Init, PeopleApart, Objects, Absent
<1>2. Inv /\ PeopleApart /\ [Next]_vars => PeopleApart' BY ApartStep
<1> QED BY <1>1, <1>2, InvIsInvariant, PTL DEF Spec
=============================================================================
