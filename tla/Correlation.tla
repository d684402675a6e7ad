---------------------------- MODULE Correlation ----------------------------
(***************************************************************************)
(* internal/correlation/correlator.go: observations of a subject that are  *)
(* close in time are one group, and a group is one candidate for an        *)
(* incident, whose risk RiskPolicy says.                                   *)
(*                                                                         *)
(* One mutex is held through Ingest and Prune.  Observations arrive in any *)
(* order and any number of times; which of them were seen is remembered    *)
(* for the last MaxSeenEvents, whatever becomes of their group.            *)
(***************************************************************************)
EXTENDS Naturals, FiniteSets, Sequences, RiskPolicy

CONSTANTS
  Observations,     \* valid ones, one of an id
  Window, MaxLateness, MaxEventsPerGroup, MaxSeenEvents, MaxArtifacts      \* Config; MaxLateness <= Window

VARIABLES
  group,    \* Correlator.groups: per subject [first, max, events], or NoGroup
  seen,     \* Correlator.seenOrder
  taken,    \* history: per subject, the observations its groups took since there was none
  spoilt    \* history: subjects of which one came late, or again after it was forgotten

vars == <<group, seen, taken, spoilt>>

Subjects == {o.subject : o \in Observations}
NoGroup == [first |-> 0, max |-> 0, events |-> <<>>]
Elements(s) == {s[i] : i \in 1 .. Len(s)}
Newest(s, n) == IF Len(s) <= n THEN s ELSE SubSeq(s, Len(s) - n + 1, Len(s))
Latest(a, b) == IF a > b THEN a ELSE b

Init ==
  /\ group = [s \in Subjects |-> NoGroup] /\ seen = <<>>
  /\ taken = [s \in Subjects |-> {}] /\ spoilt = {}

-----------------------------------------------------------------------------
(* The order of the events of a group, and the fault of leaving ties as they came. *)
ByTimeOnly(o, p) == o.at < p.at
Before(o, p) == o.at < p.at \/ (o.at = p.at /\ o.id < p.id)

\* append and the stable sort, for events in order: how many stay in front of the new one, and the result.
Place(events, o) == CHOOSE k \in 0 .. Len(events) : \A i \in 1 .. Len(events) : i <= k <=> ~Before(o, events[i])
Sorted(events, o) ==
  LET k == Place(events, o)
  IN  [i \in 1 .. Len(events) + 1 |-> IF i <= k THEN events[i] ELSE IF i = k + 1 THEN o ELSE events[i - 1]]

Seen(o) == o.id \in Elements(seen)
Remember(o) == seen' = Newest(Append(seen, o.id), MaxSeenEvents)

IsLate(o) == group[o.subject] # NoGroup /\ o.at + MaxLateness < group[o.subject].max
IsNew(o) == group[o.subject] = NoGroup \/ o.at > group[o.subject].max + Window

\* Ingest, by what becomes of the observation.  Duplicate: seen before, nothing changes.
Duplicate(o) == Seen(o) /\ UNCHANGED vars

Late(o) ==
  /\ ~Seen(o) /\ IsLate(o)
  /\ Remember(o) /\ spoilt' = spoilt \cup {o.subject}
  /\ UNCHANGED <<group, taken>>

Take(o) ==
  LET s == o.subject
      g == IF IsNew(o) THEN [first |-> o.id, max |-> o.at, events |-> <<>>] ELSE group[s]
  IN  /\ ~Seen(o) /\ ~IsLate(o)
      /\ group' = [group EXCEPT ![s] =
                     [first |-> g.first, max |-> Latest(g.max, o.at),
                      events |-> Newest(Sorted(g.events, o), MaxEventsPerGroup)]]
      /\ Remember(o)
      /\ taken' = [taken EXCEPT ![s] = @ \cup {o}]
      /\ spoilt' = IF o \in taken[s] THEN spoilt \cup {s} ELSE spoilt

Prune(before) ==
  LET gone == {s \in Subjects : group[s] # NoGroup /\ group[s].max < before}
  IN  /\ gone # {}
      /\ group' = [s \in Subjects |-> IF s \in gone THEN NoGroup ELSE group[s]]
      /\ taken' = [s \in Subjects |-> IF s \in gone THEN {} ELSE taken[s]]
      /\ spoilt' = spoilt \ gone
      /\ UNCHANGED seen

Next ==
  \/ \E o \in Observations : Duplicate(o) \/ Late(o) \/ Take(o)
  \/ \E t \in {o.at + 1 : o \in Observations} : Prune(t)

Spec == Init /\ [][Next]_vars

-----------------------------------------------------------------------------
(* What a group says: buildCandidate, and the features of its trigger. *)

Rank(identity) ==
  CASE identity = "unknown" -> 3 [] identity = "uncertain" -> 2 [] identity = "known" -> 1
    [] OTHER -> 0

\* mergeIdentity along the events; the fault is to believe the last that says anything.
LastKnown(current, next) == IF next # "" THEN next ELSE current
MergeIdentity(current, next) == IF Rank(next) > Rank(current) THEN next ELSE current

Identity(events) ==
  LET m[i \in 0 .. Len(events)] == IF i = 0 THEN "" ELSE MergeIdentity(m[i - 1], events[i].identity)
  IN  m[Len(events)]
Alarm(events) ==
  LET m[i \in 0 .. Len(events)] == IF i = 0 THEN "" ELSE IF events[i].alarm # "" THEN events[i].alarm ELSE m[i - 1]
  IN  m[Len(events)]

Greatest(S) == CHOOSE x \in S : \A y \in S : y <= x

Features(events) ==
  LET all == Elements(events)
      sources == {o.source : o \in all}
      artifacts == UNION {o.artifacts : o \in all}
  IN  [confidence |-> Greatest({o.confidence : o \in all}),
       person |-> \E o \in all : o.person,
       identity |-> Identity(events), alarm |-> Alarm(events),
       entry |-> \E o \in all : o.entry,
       dwell |-> Greatest({o.dwell : o \in all} \cup {events[Len(events)].at - events[1].at}),
       cross |-> Greatest({o.cross : o \in all} \cup {Cardinality(sources) - 1}),
       evidence |-> Least(MaxArtifacts, Cardinality(artifacts))]

-----------------------------------------------------------------------------
(* A group does not depend on the order its observations came in, nor on how *)
(* often each came: it has the newest of those that no pause longer than the *)
(* window parts from the last, in their order.  That is so if none of the    *)
(* subject came late or again after it was forgotten, and no pause between   *)
(* neighbours is within the lateness of the window, where which came first   *)
(* decides (Ingest).                                                         *)
Neighbours(S) == {p \in S \X S : Before(p[1], p[2]) /\ ~\E x \in S : Before(p[1], x) /\ Before(x, p[2])}
Pause(p) == p[2].at - p[1].at
Clear(S) == \A p \in Neighbours(S) : Pause(p) <= Window - MaxLateness \/ Pause(p) > Window
Cluster(S) == {o \in S : ~\E p \in Neighbours(S) : Pause(p) > Window /\ ~Before(p[1], o)}
Kept(S) == {o \in S : Cardinality({x \in S : Before(o, x)}) < MaxEventsPerGroup}

ShuffledAgree ==
  \A s \in Subjects :
    group[s] # NoGroup /\ s \notin spoilt /\ Clear(taken[s]) =>
      LET events == group[s].events
      IN  /\ Elements(events) = Kept(Cluster(taken[s]))
          /\ \A i, j \in 1 .. Len(events) : i < j => Before(events[i], events[j])

(* What is added to a group never lowers its risk, unless it changes the     *)
(* alarm mode or pushes the oldest event out: the order of identities in     *)
(* mergeIdentity is that of their weights in Assess.                         *)
RiskOnlyRises ==
  [][group' # group =>
       \A s \in Subjects :
         LET old == group[s].events
             new == group'[s].events
         IN  /\ Len(new) > Len(old) /\ old # <<>> /\ group'[s].first = group[s].first
             /\ Alarm(new) = Alarm(old) \/ Away(Alarm(new))
             => Score(Features(new)) >= Score(Features(old))]_vars
=============================================================================
