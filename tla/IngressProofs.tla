--------------------------- MODULE IngressProofs ----------------------------
(***************************************************************************)
(* Proofs about the ways in from outside, for any number of callers, keys, *)
(* tokens, presses, requests, accounts and updates: a signed callback is   *)
(* admitted again only after its entry was evicted or the clock went back  *)
(* (ReplayGuard), a door opens once for a confirmed answer to the bot      *)
(* (TelegramService, T), and a press of the bell is announced once and an  *)
(* opened door is on record unless a cause explains it (Intercom, I).      *)
(*                                                                         *)
(* That a press is announced is not inductive: of one the handler has not  *)
(* seen yet, what it counted comes of earlier presses (Fresh), since the   *)
(* broker keeps them in order. Of a command, an answer that completes it   *)
(* is on its way and no refusal is before it (Due).                        *)
(***************************************************************************)
EXTENDS MCIngress, FiniteSetTheorems, SequenceTheorems, TLAPS

\* A guard: a map and a queue of the right types.
Guard == [seen : [Keys -> Nat], ordered : Seq(Entry)]

\* The length of the expired prefix is a length of the queue (prune's cut).
LEMMA PrefixLength ==
  ASSUME NEW o \in Seq(Entry), NEW given \in Nat
  PROVE  ExpiredPrefix(o, given) \in 0..Len(o)
<1> DEFINE P == {n \in 1..Len(o) : \A i \in 1..n : o[i].exp <= given}
<1>1. Len(o) \in Nat
  OBVIOUS
<1>2. IsFiniteSet(1..Len(o)) /\ Cardinality(1..Len(o)) = Len(o)
  BY <1>1, FS_Interval, SMTT(30)
<1>3. IsFiniteSet(P) /\ Cardinality(P) <= Len(o)
  BY <1>2, FS_Subset, P \in SUBSET (1..Len(o))
<1>4. Cardinality(P) \in Nat
  BY <1>3, FS_CardinalityType
<1> QED
  BY <1>1, <1>3, <1>4 DEF ExpiredPrefix

\* Dropping the n oldest entries leaves a guard with that many entries fewer.
LEMMA DropType ==
  ASSUME NEW g \in Guard, NEW n \in 0..Len(g.ordered)
  PROVE  /\ Drop(g, n) \in Guard
         /\ Len(Drop(g, n).ordered) = Len(g.ordered) - n
         /\ \A i \in 1..Len(g.ordered) - n : Drop(g, n).ordered[i] = g.ordered[n + i]
<1> DEFINE o == g.ordered
           r == Drop(g, n).ordered
<1>1. o \in Seq(Entry) /\ Len(o) \in Nat /\ n \in Nat /\ n <= Len(o)
  BY DEF Guard
<1>2. \A i \in n+1..Len(o) : o[i] \in Entry
  BY <1>1
<1>3. r = SubSeq(o, n+1, Len(o))
  BY DEF Drop
<1>4. /\ r \in Seq(Entry)
      /\ Len(r) = Len(o) - n
      /\ \A i \in 1..Len(o) - n : r[i] = o[n + i]
  <2>1. /\ SubSeq(o, n+1, Len(o)) \in Seq(Entry)
        /\ Len(SubSeq(o, n+1, Len(o))) = IF n+1 <= Len(o) THEN Len(o)-(n+1)+1 ELSE 0
        /\ \A i \in 1..Len(o)-(n+1)+1 : SubSeq(o, n+1, Len(o))[i] = o[(n+1)+i-1]
    BY <1>1, <1>2, SubSeqProperties
  <2> QED
    BY <2>1, <1>1, <1>3
<1>5. Drop(g, n).seen \in [Keys -> Nat]
  BY DEF Drop, Forget, Guard
<1>6. Drop(g, n) = [seen |-> Drop(g, n).seen, ordered |-> r]
  BY DEF Drop
<1> QED
  BY <1>4, <1>5, <1>6 DEF Guard

\* Dropping the oldest entries keeps map and queue in agreement: a forgotten key
\* has no entry left, because a later entry would have a later expiry.
LEMMA DropAgrees ==
  ASSUME NEW g \in Guard, NEW n \in 0..Len(g.ordered), Agree(g.seen, g.ordered)
  PROVE  Agree(Drop(g, n).seen, Drop(g, n).ordered)
<1> DEFINE o == g.ordered
           s == g.seen
           r == Drop(g, n).ordered
           q == Drop(g, n).seen
<1>1. o \in Seq(Entry) /\ s \in [Keys -> Nat] /\ Len(o) \in Nat /\ n \in Nat /\ n <= Len(o)
  BY DEF Guard
<1>2. Len(r) = Len(o) - n /\ \A i \in 1..Len(r) : r[i] = o[n + i] /\ n + i \in 1..Len(o)
  BY DropType, <1>1
<1>3. \A k \in Keys : q[k] = IF \E i \in 1..n : o[i].key = k /\ o[i].exp = s[k] THEN 0 ELSE s[k]
  BY DEF Drop, Forget
<1>4. \A i \in 1..Len(o) : o[i].key \in Keys /\ o[i].exp \in Nat
  <2>1. \A i \in 1..Len(o) : o[i] \in Entry
    BY <1>1
  <2> QED
    BY <2>1 DEF Entry
<1>5. \A k \in Keys : q[k] # 0 => \E i \in 1..Len(r) : r[i] = [key |-> k, exp |-> q[k]]
  <2> SUFFICES ASSUME NEW k \in Keys, q[k] # 0
               PROVE  \E i \in 1..Len(r) : r[i] = [key |-> k, exp |-> q[k]]
    OBVIOUS
  <2>1. q[k] = s[k] /\ ~ \E i \in 1..n : o[i].key = k /\ o[i].exp = s[k]
    BY <1>3
  <2>2. PICK j \in 1..Len(o) : o[j] = [key |-> k, exp |-> s[k]]
    BY <2>1 DEF Agree
  <2>3. j \notin 1..n
    BY <2>1, <2>2
  <2>4. j - n \in 1..Len(r)
    BY <2>3, <1>1, <1>2
  <2>5. r[j - n] = o[n + (j - n)]
    BY <2>4, <1>2
  <2>6. n + (j - n) = j
    BY <1>1
  <2> QED
    BY <2>1, <2>2, <2>4, <2>5, <2>6
<1>6. \A i \in 1..Len(r) : r[i].exp <= q[r[i].key]
  <2> SUFFICES ASSUME NEW i \in 1..Len(r)
               PROVE  r[i].exp <= q[r[i].key]
    OBVIOUS
  <2> DEFINE k == o[n + i].key
  <2>1. r[i] = o[n + i] /\ n + i \in 1..Len(o) /\ k \in Keys
    BY <1>2, <1>4
  <2>2. o[n + i].exp <= s[k]
    BY <2>1 DEF Agree
  <2>3. ~ \E j \in 1..n : o[j].key = k /\ o[j].exp = s[k]
    <3> SUFFICES ASSUME NEW j \in 1..n, o[j].key = k, o[j].exp = s[k]
                 PROVE  FALSE
      OBVIOUS
    <3>1. j \in 1..Len(o) /\ j < n + i
      BY <1>1, <1>2
    <3>2. o[j].exp < o[n + i].exp
      BY <3>1, <2>1 DEF Agree
    <3> QED
      BY <3>1, <3>2, <2>1, <2>2, <1>4, <1>1
  <2> QED
    BY <2>1, <2>2, <2>3, <1>3
<1>7. \A i, j \in 1..Len(r) : i < j /\ r[i].key = r[j].key => r[i].exp < r[j].exp
  <2> SUFFICES ASSUME NEW i \in 1..Len(r), NEW j \in 1..Len(r), i < j, r[i].key = r[j].key
               PROVE  r[i].exp < r[j].exp
    OBVIOUS
  <2>1. n + i < n + j
    BY <1>1, <1>2
  <2> QED
    BY <2>1, <1>2 DEF Agree
<1> QED
  BY <1>5, <1>6, <1>7 DEF Agree

\* Recording a token that outlives what the map has for its key keeps map and
\* queue in agreement and, by evicting the oldest, within Capacity.
LEMMA RecordedAgrees ==
  ASSUME NEW g \in Guard, Agree(g.seen, g.ordered), Len(g.ordered) <= Capacity,
         NEW k \in Keys, NEW exp \in Nat \ {0}, g.seen[k] < exp
  PROVE  LET r == Recorded(g, k, exp)
         IN  r \in Guard /\ Agree(r.seen, r.ordered) /\ Len(r.ordered) <= Capacity
<1> DEFINE e == [key |-> k, exp |-> exp]
           o == Append(g.ordered, e)
           s == [g.seen EXCEPT ![k] = exp]
           r == [seen |-> s, ordered |-> o]
           m == Len(g.ordered)
<1>1. g.ordered \in Seq(Entry) /\ g.seen \in [Keys -> Nat] /\ m \in Nat /\ e \in Entry
  BY DEF Guard, Entry
<1>2. /\ o \in Seq(Entry)
      /\ Len(o) = m + 1
      /\ \A i \in 1..m : o[i] = g.ordered[i]
      /\ o[m + 1] = e
  BY <1>1, AppendProperties
<1>3. r \in Guard
  BY <1>1, <1>2 DEF Guard
<1>4. \A i \in 1..m : g.ordered[i].key \in Keys /\ g.ordered[i].exp \in Nat
  <2>1. \A i \in 1..m : g.ordered[i] \in Entry
    BY <1>1
  <2> QED
    BY <2>1 DEF Entry
<1>5. Agree(s, o)
  <2>1. \A q \in Keys : s[q] # 0 => \E i \in 1..Len(o) : o[i] = [key |-> q, exp |-> s[q]]
    <3> SUFFICES ASSUME NEW q \in Keys, s[q] # 0
                 PROVE  \E i \in 1..Len(o) : o[i] = [key |-> q, exp |-> s[q]]
      OBVIOUS
    <3>1. CASE q = k
      <4>1. s[q] = exp /\ m + 1 \in 1..Len(o)
        BY <3>1, <1>1, <1>2
      <4> QED
        BY <4>1, <3>1, <1>2
    <3>2. CASE q # k
      <4>1. s[q] = g.seen[q]
        BY <3>2, <1>1
      <4>2. PICK i \in 1..m : g.ordered[i] = [key |-> q, exp |-> g.seen[q]]
        BY <4>1 DEF Agree
      <4>3. i \in 1..Len(o)
        BY <1>1, <1>2
      <4> QED
        BY <4>1, <4>2, <4>3, <1>2
    <3> QED
      BY <3>1, <3>2
  <2>2. \A i \in 1..Len(o) : o[i].exp <= s[o[i].key]
    <3> SUFFICES ASSUME NEW i \in 1..Len(o)
                 PROVE  o[i].exp <= s[o[i].key]
      OBVIOUS
    <3>1. CASE i = m + 1
      BY <3>1, <1>1, <1>2
    <3>2. CASE i \in 1..m
      <4>1. o[i] = g.ordered[i] /\ g.ordered[i].exp <= g.seen[g.ordered[i].key]
        BY <3>2, <1>2 DEF Agree
      <4>2. g.ordered[i].key \in Keys /\ g.ordered[i].exp \in Nat
        BY <3>2, <1>4
      <4>3. g.seen[g.ordered[i].key] <= s[g.ordered[i].key]
        BY <4>2, <1>1
      <4>4. g.seen[g.ordered[i].key] \in Nat /\ s[g.ordered[i].key] \in Nat
        BY <4>2, <1>1
      <4> QED
        BY <4>1, <4>2, <4>3, <4>4
    <3> QED
      BY <3>1, <3>2, <1>1, <1>2
  <2>3. \A i, j \in 1..Len(o) : i < j /\ o[i].key = o[j].key => o[i].exp < o[j].exp
    <3> SUFFICES ASSUME NEW i \in 1..Len(o), NEW j \in 1..Len(o), i < j, o[i].key = o[j].key
                 PROVE  o[i].exp < o[j].exp
      OBVIOUS
    <3>1. i \in 1..m /\ o[i] = g.ordered[i]
      BY <1>1, <1>2
    <3>2. CASE j = m + 1
      <4>1. g.ordered[i].exp <= g.seen[k]
        BY <3>1, <3>2, <1>2 DEF Agree
      <4> QED
        BY <4>1, <3>1, <3>2, <1>1, <1>2, <1>4
    <3>3. CASE j \in 1..m
      BY <3>1, <3>3, <1>2 DEF Agree
    <3> QED
      BY <3>2, <3>3, <1>1, <1>2
  <2> QED
    BY <2>1, <2>2, <2>3 DEF Agree
<1>6. CASE Len(o) > Capacity
  <2> DEFINE n == Len(o) - Capacity
  <2>1. n \in 0..Len(r.ordered)
    BY <1>6, <1>1, <1>2, CapacityAssumption
  <2>2. Recorded(g, k, exp) = Drop(r, n)
    BY <1>6 DEF Recorded
  <2>3. Drop(r, n) \in Guard /\ Len(Drop(r, n).ordered) = Len(o) - n
    BY <2>1, <1>3, DropType
  <2>4. Agree(Drop(r, n).seen, Drop(r, n).ordered)
    BY <2>1, <1>3, <1>5, DropAgrees
  <2>5. Len(o) - n = Capacity
    BY <1>1, <1>2, CapacityAssumption
  <2> QED
    BY <2>2, <2>3, <2>4, <2>5, CapacityAssumption
<1>7. CASE ~(Len(o) > Capacity)
  <2>1. Recorded(g, k, exp) = r
    BY <1>7 DEF Recorded
  <2> QED
    BY <2>1, <1>3, <1>5, <1>7, <1>1, <1>2, CapacityAssumption
<1> QED
  BY <1>6, <1>7

-----------------------------------------------------------------------------
\* What a call that is inside Accept holds.
LEMMA CallType ==
  ASSUME TypeOK, NEW c \in Callers, pc[c] # "idle"
  PROVE  /\ tok[c].claims \in Tokens /\ tok[c].route \in Routes
         /\ KeyOf(tok[c].claims) \in Keys
         /\ tok[c].claims.exp \in Nat \ {0}
         /\ tok[c].claims.bind \in Routes
         /\ stamp[c] \in Nat
<1>1. tok[c] \in [claims : Tokens, route : Routes]
  BY DEF TypeOK
<1>2. tok[c].claims \in Tokens /\ tok[c].route \in Routes /\ stamp[c] \in Nat
  BY <1>1 DEF TypeOK
<1>3. tok[c].claims \in Claims
  BY <1>2, TokensAssumption
<1> QED
  BY <1>2, <1>3 DEF Claims, KeyOf, Keys

\* What prune leaves is a guard within Capacity whose map and queue agree.
LEMMA PrunedAgrees ==
  ASSUME TypeOK, GuardConsistent, NEW given \in Nat
  PROVE  /\ Pruned(given) \in Guard
         /\ Agree(Pruned(given).seen, Pruned(given).ordered)
         /\ Len(Pruned(given).ordered) <= Capacity
<1> DEFINE g == [seen |-> seen, ordered |-> ordered]
           n == ExpiredPrefix(ordered, given)
<1>1. g \in Guard /\ ordered \in Seq(Entry) /\ Len(ordered) \in Nat
  BY DEF TypeOK, Guard
<1>2. n \in 0..Len(g.ordered)
  BY <1>1, PrefixLength
<1>3. Agree(g.seen, g.ordered) /\ Len(ordered) <= Capacity
  BY DEF GuardConsistent, Bounded
<1>4. Pruned(given) = Drop(g, n)
  BY DEF Pruned
<1>5. Drop(g, n) \in Guard /\ Len(Drop(g, n).ordered) = Len(g.ordered) - n
  BY <1>1, <1>2, DropType
<1>6. Agree(Drop(g, n).seen, Drop(g, n).ordered)
  BY <1>1, <1>2, <1>3, DropAgrees
<1> QED
  BY <1>1, <1>2, <1>3, <1>4, <1>5, <1>6, CapacityAssumption

\* The inductive invariant: GuardConsistent needs the types of what it speaks of.
Inv == TypeOK /\ GuardConsistent

(* The invariant holds at the start.                                         *)
LEMMA InitInv == Init => Inv
<1> SUFFICES ASSUME Init
             PROVE  Inv
  OBVIOUS
<1>1. TypeOK
  BY DEF Init, TypeOK, Entry, Admission
<1>2. GuardConsistent
  BY CapacityAssumption DEF Init, GuardConsistent, Bounded, Agree
<1> QED
  BY <1>1, <1>2 DEF Inv

(* The later of two times is a time.                                         *)
LEMMA MaxOfType ==
  ASSUME NEW a \in Nat, NEW b \in Nat
  PROVE  MaxOf(a, b) \in Nat
BY DEF MaxOf

(* A call that returns keeps the types.                                      *)
LEMMA ReturnType ==
  ASSUME TypeOK, NEW c \in Callers, Return(c)
  PROVE  /\ pc' \in [Callers -> {"idle", "verified", "stamped"}]
         /\ tok' \in [Callers -> [claims : Tokens, route : Routes] \cup {NoCall}]
         /\ \A d \in Callers : pc'[d] # "idle" => tok'[d] # NoCall
         /\ stamp' \in [Callers -> Nat]
BY DEF TypeOK, Return

(* Every step keeps the invariant.                                           *)
LEMMA NextInv == Inv /\ [Next]_vars => Inv'
<1> SUFFICES ASSUME Inv, [Next]_vars
             PROVE  Inv'
  OBVIOUS
<1> USE DEF Inv
<1>1. ASSUME NEW c \in Callers, NEW t \in Tokens, NEW r \in Routes, Verify(c, t, r)
      PROVE  Inv'
  <2>1. TypeOK'
    <3>1. [claims |-> t, route |-> r] # NoCall
      BY NoCallAssumption
    <3> QED
      BY <1>1, <3>1 DEF Verify, TypeOK
  <2> QED
    BY <2>1, <1>1 DEF Verify, GuardConsistent, Bounded
<1>2. ASSUME NEW c \in Callers, ReadClock(c)
      PROVE  Inv'
  BY <1>2 DEF ReadClock, TypeOK, GuardConsistent, Bounded
<1>3. ASSUME NEW c \in Callers, RejectExpired(c)
      PROVE  Inv'
  <2>1. TypeOK'
    BY <1>3, ReturnType DEF RejectExpired, TypeOK
  <2> QED
    BY <2>1, <1>3 DEF RejectExpired, GuardConsistent, Bounded
<1>4. ASSUME NEW c \in Callers, RejectReplay(c)
      PROVE  Inv'
  <2> DEFINE g == Pruned(stamp[c])
  <2>1. stamp[c] \in Nat /\ MaxOf(high, stamp[c]) \in Nat
    BY <1>4, CallType, MaxOfType DEF RejectReplay, TypeOK
  <2>2. g \in Guard /\ Agree(g.seen, g.ordered) /\ Len(g.ordered) <= Capacity
    BY <2>1, PrunedAgrees
  <2>3. seen' = g.seen /\ ordered' = g.ordered /\ high' = MaxOf(high, stamp[c]) /\ Return(c)
        /\ UNCHANGED <<clock, keyring, admitted, epoch>>
    BY <1>4 DEF RejectReplay
  <2>4. TypeOK'
    BY <2>1, <2>2, <2>3, ReturnType DEF TypeOK, Guard
  <2> QED
    BY <2>2, <2>3, <2>4 DEF GuardConsistent, Bounded
<1>5. ASSUME NEW c \in Callers, Admit(c)
      PROVE  Inv'
  <2> DEFINE t == tok[c].claims
             g == Pruned(stamp[c])
             r == Recorded(g, KeyOf(t), t.exp)
             a == [key |-> KeyOf(t), exp |-> t.exp, at |-> stamp[c], high |-> MaxOf(high, stamp[c]),
                   route |-> tok[c].route, bind |-> t.bind, epoch |-> epoch]
  <2>1. /\ pc[c] # "idle" /\ t.exp > stamp[c] /\ g.seen[KeyOf(t)] <= stamp[c]
        /\ seen' = r.seen /\ ordered' = r.ordered /\ high' = MaxOf(high, stamp[c])
        /\ admitted' = Append(admitted, a) /\ Return(c) /\ UNCHANGED <<clock, keyring, epoch>>
    BY <1>5 DEF Admit
  <2>2. /\ t \in Tokens /\ tok[c].route \in Routes /\ KeyOf(t) \in Keys
        /\ t.exp \in Nat \ {0} /\ t.bind \in Routes /\ stamp[c] \in Nat
    BY <2>1, CallType
  <2>3. g \in Guard /\ Agree(g.seen, g.ordered) /\ Len(g.ordered) <= Capacity
    BY <2>2, PrunedAgrees
  <2>4. g.seen[KeyOf(t)] \in Nat
    BY <2>2, <2>3 DEF Guard
  <2>5. r \in Guard /\ Agree(r.seen, r.ordered) /\ Len(r.ordered) <= Capacity
    BY <2>1, <2>2, <2>3, <2>4, RecordedAgrees
  <2>6. a \in Admission /\ MaxOf(high, stamp[c]) \in Nat
    BY <2>2, MaxOfType DEF Admission, TypeOK
  <2>7. TypeOK'
    <3>1. admitted' \in Seq(Admission)
      BY <2>1, <2>6, AppendProperties DEF TypeOK
    <3> QED
      BY <2>1, <2>5, <2>6, <3>1, ReturnType DEF TypeOK, Guard
  <2> QED
    BY <2>1, <2>5, <2>7 DEF GuardConsistent, Bounded
<1>6. CASE Tick
  BY <1>6 DEF Tick, TypeOK, GuardConsistent, Bounded
<1>7. CASE Restart
  <2>1. TypeOK'
    BY <1>7 DEF Restart, TypeOK
  <2>2. GuardConsistent'
    BY <1>7, CapacityAssumption DEF Restart, GuardConsistent, Bounded, Agree
  <2> QED
    BY <2>1, <2>2
<1>8. CASE UNCHANGED vars
  BY <1>8 DEF vars, TypeOK, GuardConsistent, Bounded
<1> QED
  BY <1>1, <1>2, <1>3, <1>4, <1>5, <1>6, <1>7, <1>8 DEF Next

\* The state of the guard keeps its types, whatever the callers interleave.
THEOREM TypeCorrect == Spec => []TypeOK
<1>1. Inv => TypeOK
  BY DEF Inv
<1> QED
  BY InitInv, NextInv, <1>1, PTL DEF Spec

\* For any number of callers and any capacity, the guard's map and queue agree
\* and hold at most Capacity admissions (ReplayGuard.Consume and prune).
THEOREM GuardIsConsistent == Spec => []GuardConsistent
<1>1. Inv => GuardConsistent
  BY DEF Inv
<1> QED
  BY InitInv, NextInv, <1>1, PTL DEF Spec

-----------------------------------------------------------------------------
\* A call inside Accept holds a token that is bound to the route it arrived on;
\* with it ConsumedOnItsRouteOnly is inductive.
RouteInv ==
  /\ \A c \in Callers : pc[c] # "idle" => tok[c].claims.bind = tok[c].route
  /\ ConsumedOnItsRouteOnly

(* Every step keeps the routes of what was consumed.                         *)
LEMMA NextRouteInv == TypeOK /\ RouteInv /\ [Next]_vars => RouteInv'
<1> SUFFICES ASSUME TypeOK, RouteInv, [Next]_vars
             PROVE  RouteInv'
  OBVIOUS
<1>1. ASSUME NEW c \in Callers, NEW t \in Tokens, NEW r \in Routes, Verify(c, t, r)
      PROVE  RouteInv'
  BY <1>1 DEF Verify, Matches, TypeOK, RouteInv, ConsumedOnItsRouteOnly
<1>2. ASSUME NEW c \in Callers, ReadClock(c)
      PROVE  RouteInv'
  BY <1>2 DEF ReadClock, TypeOK, RouteInv, ConsumedOnItsRouteOnly
<1>3. ASSUME NEW c \in Callers, RejectExpired(c) \/ RejectReplay(c)
      PROVE  RouteInv'
  BY <1>3 DEF RejectExpired, RejectReplay, Return, TypeOK, RouteInv, ConsumedOnItsRouteOnly
<1>4. ASSUME NEW c \in Callers, Admit(c)
      PROVE  RouteInv'
  <2> DEFINE t == tok[c].claims
             a == [key |-> KeyOf(t), exp |-> t.exp, at |-> stamp[c], high |-> MaxOf(high, stamp[c]),
                   route |-> tok[c].route, bind |-> t.bind, epoch |-> epoch]
  <2>1. admitted' = Append(admitted, a) /\ Return(c) /\ pc[c] # "idle"
    BY <1>4 DEF Admit
  <2>2. a.route = a.bind
    BY <2>1 DEF RouteInv
  <2>3. /\ Len(admitted) \in Nat
        /\ Len(admitted') = Len(admitted) + 1
        /\ \A i \in 1..Len(admitted) : admitted'[i] = admitted[i]
        /\ admitted'[Len(admitted) + 1] = a
    BY <2>1 DEF TypeOK
  <2>4. ConsumedOnItsRouteOnly'
    <3> SUFFICES ASSUME NEW i \in 1..Len(admitted')
                 PROVE  admitted'[i].route = admitted'[i].bind
      BY DEF ConsumedOnItsRouteOnly
    <3>1. CASE i \in 1..Len(admitted)
      BY <3>1, <2>3 DEF RouteInv, ConsumedOnItsRouteOnly
    <3>2. CASE i = Len(admitted) + 1
      BY <3>2, <2>2, <2>3
    <3> QED
      BY <3>1, <3>2, <2>3
  <2> QED
    BY <2>1, <2>4 DEF Return, TypeOK, RouteInv
<1>5. CASE Tick \/ Restart \/ UNCHANGED vars
  BY <1>5 DEF Tick, Restart, vars, TypeOK, RouteInv, ConsumedOnItsRouteOnly
<1> QED
  BY <1>1, <1>2, <1>3, <1>4, <1>5 DEF Next

\* Replay state is consumed only by a token presented on the exact route it was
\* signed for (Acceptor.Accept checks the binding before Consume).
THEOREM RouteTheorem == Spec => []ConsumedOnItsRouteOnly
<1>1. Init => RouteInv
  BY DEF Init, RouteInv, ConsumedOnItsRouteOnly
<1>2. RouteInv => ConsumedOnItsRouteOnly
  BY DEF RouteInv
<1> QED
  BY TypeCorrect, <1>1, <1>2, NextRouteInv, PTL DEF Spec

-----------------------------------------------------------------------------
\* prune cuts only expired entries: were the prefix of that length not expired,
\* the lengths counted by ExpiredPrefix would all be shorter, hence fewer.
LEMMA PrefixExpired ==
  ASSUME NEW o \in Seq(Entry), NEW given \in Nat, NEW i \in 1..ExpiredPrefix(o, given)
  PROVE  o[i].exp <= given
<1> DEFINE P == {n \in 1..Len(o) : \A j \in 1..n : o[j].exp <= given}
           c == ExpiredPrefix(o, given)
<1>0. i \in 1..c
  OBVIOUS
<1>1. c \in 0..Len(o) /\ c = Cardinality(P) /\ c \in Nat /\ c >= 1
  <2>1. c \in 0..Len(o) /\ Len(o) \in Nat
    BY PrefixLength
  <2>2. c = Cardinality(P)
    BY DEF ExpiredPrefix
  <2> HIDE DEF c
  <2> QED
    BY <1>0, <2>1, <2>2
<1> HIDE DEF c
<1>2. IsFiniteSet(1..c-1) /\ Cardinality(1..c-1) = c - 1
  <2>1. 1 \in Int /\ c - 1 \in Int
    BY <1>1
  <2>2. IsFiniteSet(1..c-1) /\ Cardinality(1..c-1) = IF 1 > c-1 THEN 0 ELSE (c-1)-1+1
    BY <2>1, FS_Interval
  <2> QED
    BY <2>2, <1>1
<1>3. ~(P \subseteq 1..c-1)
  <2> SUFFICES ASSUME P \in SUBSET (1..c-1)
               PROVE  FALSE
    OBVIOUS
  <2>1. Cardinality(P) <= Cardinality(1..c-1)
    BY <1>2, FS_Subset
  <2> QED
    BY <2>1, <1>1, <1>2
<1>4. PICK n \in P : n \notin 1..c-1
  BY <1>3
<1>5. n \in Nat /\ n >= c
  BY <1>1, <1>4
<1>6. i \in 1..n
  BY <1>0, <1>1, <1>5
<1> QED
  BY <1>4, <1>6

\* Every admission of this epoch is already outdated (Capacity later admissions,
\* or the guard has seen a time past its expiry) or still queued, with no more
\* entries behind it than there were later admissions.
Tracked(i) ==
  \/ Len(admitted) - i >= Capacity
  \/ admitted[i].exp <= high
  \/ \E p \in 1..Len(ordered) :
       /\ ordered[p] = [key |-> admitted[i].key, exp |-> admitted[i].exp]
       /\ Len(ordered) - p <= Len(admitted) - i

HistoryInv ==
  /\ \A i \in 1..Len(admitted) : admitted[i].epoch <= epoch
  /\ \A i \in 1..Len(admitted) : admitted[i].epoch = epoch => Tracked(i)
  /\ ReplayNeedsEvictionOrLaterClock

\* prune keeps an admission tracked once the guard has been given the time now.
LEMMA PruneTracks ==
  ASSUME Inv, NEW given \in Nat, NEW i \in 1..Len(admitted), Tracked(i)
  PROVE  LET o == Pruned(given).ordered
         IN  \/ Len(admitted) - i >= Capacity
             \/ admitted[i].exp <= MaxOf(high, given)
             \/ \E p \in 1..Len(o) :
                  /\ o[p] = [key |-> admitted[i].key, exp |-> admitted[i].exp]
                  /\ Len(o) - p <= Len(admitted) - i
<1> DEFINE g == [seen |-> seen, ordered |-> ordered]
           n == ExpiredPrefix(ordered, given)
           o == Pruned(given).ordered
<1>1. g \in Guard /\ ordered \in Seq(Entry) /\ Len(ordered) \in Nat /\ high \in Nat
  BY DEF Inv, TypeOK, Guard
<1>2. n \in 0..Len(ordered)
  BY <1>1, PrefixLength
<1>3. /\ Len(o) = Len(ordered) - n
      /\ \A q \in 1..Len(ordered) - n : o[q] = ordered[n + q]
  BY <1>1, <1>2, DropType DEF Pruned
<1>4. Len(admitted) \in Nat /\ admitted[i].exp \in Nat
  <2>1. admitted \in Seq(Admission)
    BY DEF Inv, TypeOK
  <2>2. admitted[i] \in Admission
    BY <2>1
  <2> QED
    BY <2>1, <2>2 DEF Admission
<1>5. CASE Len(admitted) - i >= Capacity
  BY <1>5
<1>6. CASE admitted[i].exp <= high
  BY <1>6, <1>1, <1>4 DEF MaxOf
<1>7. ASSUME NEW p \in 1..Len(ordered),
             ordered[p] = [key |-> admitted[i].key, exp |-> admitted[i].exp],
             Len(ordered) - p <= Len(admitted) - i
      PROVE  \/ admitted[i].exp <= MaxOf(high, given)
             \/ \E q \in 1..Len(o) :
                  /\ o[q] = [key |-> admitted[i].key, exp |-> admitted[i].exp]
                  /\ Len(o) - q <= Len(admitted) - i
  <2>1. CASE p \in 1..n
    <3>1. admitted[i].exp <= given
      BY <2>1, <1>1, <1>7, PrefixExpired
    <3> QED
      BY <3>1, <1>1, <1>4 DEF MaxOf
  <2>2. CASE p \notin 1..n
    <3>1. p - n \in 1..Len(o) /\ n + (p - n) = p
      BY <2>2, <1>1, <1>2, <1>3
    <3>2. o[p - n] = ordered[p]
      BY <3>1, <1>3
    <3>3. Len(o) - (p - n) = Len(ordered) - p
      BY <1>1, <1>2, <1>3
    <3> QED
      BY <3>1, <3>2, <3>3, <1>7
  <2> QED
    BY <2>1, <2>2
<1> QED
  BY <1>5, <1>6, <1>7 DEF Tracked

\* Where an entry of the queue is once Consume has recorded another one: the only
\* entry it evicts is the oldest of a full queue.
LEMMA RecordedOrder ==
  ASSUME NEW g \in Guard, Len(g.ordered) <= Capacity, NEW k \in Keys, NEW exp \in Nat \ {0}
  PROVE  LET r == Recorded(g, k, exp).ordered
         IN  /\ Len(r) \in Nat \ {0}
             /\ r[Len(r)] = [key |-> k, exp |-> exp]
             /\ \A p \in 1..Len(g.ordered) :
                  \/ p = 1 /\ Len(g.ordered) = Capacity
                  \/ \E q \in 1..Len(r) : r[q] = g.ordered[p] /\ Len(r) - q = Len(g.ordered) + 1 - p
<1> DEFINE e == [key |-> k, exp |-> exp]
           o == Append(g.ordered, e)
           full == [seen |-> [g.seen EXCEPT ![k] = exp], ordered |-> o]
           m == Len(g.ordered)
           r == Recorded(g, k, exp).ordered
<1>1. g.ordered \in Seq(Entry) /\ g.seen \in [Keys -> Nat] /\ m \in Nat /\ e \in Entry /\ Capacity \in Nat \ {0}
  BY CapacityAssumption DEF Guard, Entry
<1>2. /\ o \in Seq(Entry) /\ Len(o) = m + 1
      /\ \A i \in 1..m : o[i] = g.ordered[i]
      /\ o[m + 1] = e
  BY <1>1, AppendProperties
<1>3. full \in Guard
  BY <1>1, <1>2 DEF Guard
<1>4. CASE m < Capacity
  <2>1. r = o
    BY <1>1, <1>2, <1>4 DEF Recorded
  <2>2. \A p \in 1..m : p \in 1..Len(o) /\ o[p] = g.ordered[p] /\ Len(o) - p = m + 1 - p
    BY <1>1, <1>2
  <2> QED
    BY <2>1, <2>2, <1>1, <1>2
<1>5. CASE m = Capacity
  <2>1. Len(o) > Capacity /\ Len(o) - Capacity = 1 /\ 1 \in 0..Len(o)
    BY <1>1, <1>2, <1>5
  <2>2. Recorded(g, k, exp) = Drop(full, 1)
    BY <2>1 DEF Recorded
  <2>3. /\ Len(r) = Len(o) - 1
        /\ \A i \in 1..Len(o) - 1 : r[i] = o[1 + i]
    <3>1. 1 \in 0..Len(full.ordered) /\ full.ordered = o
      BY <2>1
    <3>2. /\ Len(Drop(full, 1).ordered) = Len(full.ordered) - 1
          /\ \A i \in 1..Len(full.ordered) - 1 : Drop(full, 1).ordered[i] = full.ordered[1 + i]
      BY <3>1, <1>3, DropType
    <3> HIDE DEF full, o
    <3> QED
      BY <3>1, <3>2, <2>2
  <2>4. Len(r) = m /\ m \in Nat \ {0} /\ r[m] = e
    <3>1. Len(r) = m /\ m \in Nat \ {0} /\ m \in 1..Len(o) - 1 /\ 1 + m = m + 1
      BY <2>3, <1>1, <1>2, <1>5
    <3>2. r[m] = o[1 + m]
      BY <3>1, <2>3
    <3> QED
      BY <3>1, <3>2, <1>2
  <2>5. ASSUME NEW p \in 1..m, p # 1
        PROVE  p - 1 \in 1..m /\ r[p - 1] = g.ordered[p] /\ Len(r) - (p - 1) = m + 1 - p
    <3>1. p - 1 \in 1..Len(o) - 1 /\ 1 + (p - 1) = p /\ p - 1 \in 1..m
      BY <2>5, <1>1, <1>2
    <3>2. r[p - 1] = o[1 + (p - 1)]
      BY <3>1, <2>3
    <3> QED
      BY <3>1, <3>2, <2>4, <1>1, <1>2
  <2> QED
    BY <2>4, <2>5, <1>5
<1> QED
  BY <1>1, <1>4, <1>5

(* Every step keeps what is said of past admissions.                         *)
LEMMA NextHistoryInv == Inv /\ HistoryInv /\ [Next]_vars => HistoryInv'
<1> SUFFICES ASSUME Inv, HistoryInv, [Next]_vars
             PROVE  HistoryInv'
  OBVIOUS
<1>1. /\ admitted \in Seq(Admission) /\ Len(admitted) \in Nat /\ high \in Nat /\ epoch \in Nat
      /\ \A i \in 1..Len(admitted) : admitted[i].epoch \in Nat /\ admitted[i].exp \in Nat
  <2>1. admitted \in Seq(Admission) /\ high \in Nat /\ epoch \in Nat
    BY DEF Inv, TypeOK
  <2>2. \A i \in 1..Len(admitted) : admitted[i] \in Admission
    BY <2>1
  <2> QED
    BY <2>1, <2>2 DEF Admission
<1>2. ASSUME NEW c \in Callers, RejectReplay(c)
      PROVE  HistoryInv'
  <2>1. stamp[c] \in Nat
    BY <1>2, CallType DEF RejectReplay, Inv
  <2>2. /\ ordered' = Pruned(stamp[c]).ordered /\ high' = MaxOf(high, stamp[c])
        /\ admitted' = admitted /\ epoch' = epoch
    BY <1>2 DEF RejectReplay
  <2>3. \A i \in 1..Len(admitted) : Tracked(i) => Tracked(i)'
    BY <2>1, <2>2, PruneTracks DEF Tracked
  <2> QED
    BY <2>2, <2>3 DEF HistoryInv, ReplayNeedsEvictionOrLaterClock
<1>3. ASSUME NEW c \in Callers, Admit(c)
      PROVE  HistoryInv'
  <2> DEFINE t == tok[c].claims
             given == stamp[c]
             k == KeyOf(t)
             g == Pruned(given)
             r == Recorded(g, k, t.exp).ordered
             N == Len(admitted)
             a == [key |-> k, exp |-> t.exp, at |-> given, high |-> MaxOf(high, given),
                   route |-> tok[c].route, bind |-> t.bind, epoch |-> epoch]
  <2>1. /\ pc[c] # "idle" /\ g.seen[k] <= given
        /\ ordered' = r /\ high' = MaxOf(high, given)
        /\ admitted' = Append(admitted, a) /\ epoch' = epoch
    BY <1>3 DEF Admit
  <2>2. k \in Keys /\ t.exp \in Nat \ {0} /\ given \in Nat
    BY <2>1, CallType DEF Inv
  <2>3. g \in Guard /\ Agree(g.seen, g.ordered) /\ Len(g.ordered) <= Capacity
    BY <2>2, PrunedAgrees DEF Inv
  <2>4. g.seen[k] \in Nat /\ g.ordered \in Seq(Entry) /\ Len(g.ordered) \in Nat
    BY <2>2, <2>3 DEF Guard
  <2>5. /\ Len(admitted') = N + 1
        /\ \A i \in 1..N : admitted'[i] = admitted[i]
        /\ admitted'[N + 1] = a
    BY <2>1, <1>1
  <2>6. high' \in Nat /\ high <= high' /\ given <= high'
    BY <2>1, <2>2, <1>1 DEF MaxOf
  <2>7. /\ Len(r) \in Nat \ {0}
        /\ r[Len(r)] = [key |-> k, exp |-> t.exp]
        /\ \A p \in 1..Len(g.ordered) :
             \/ p = 1 /\ Len(g.ordered) = Capacity
             \/ \E q \in 1..Len(r) : r[q] = g.ordered[p] /\ Len(r) - q = Len(g.ordered) + 1 - p
    <3> DEFINE x == t.exp
    <3>1. g \in Guard /\ Len(g.ordered) <= Capacity /\ k \in Keys /\ x \in Nat \ {0}
      BY <2>2, <2>3
    <3> HIDE DEF g, k, x
    <3>2. LET q == Recorded(g, k, x).ordered
          IN  /\ Len(q) \in Nat \ {0}
              /\ q[Len(q)] = [key |-> k, exp |-> x]
              /\ \A p \in 1..Len(g.ordered) :
                   \/ p = 1 /\ Len(g.ordered) = Capacity
                   \/ \E i \in 1..Len(q) : q[i] = g.ordered[p] /\ Len(q) - i = Len(g.ordered) + 1 - p
      BY <3>1, RecordedOrder
    <3> USE DEF x
    <3> QED
      BY <3>2
  <2> HIDE DEF g, r, a, k, t, given, N
  <2>8. ASSUME NEW i \in 1..N, admitted[i].epoch = epoch
        PROVE  \/ N - i >= Capacity
               \/ admitted[i].exp <= high'
               \/ \E p \in 1..Len(g.ordered) :
                    /\ g.ordered[p] = [key |-> admitted[i].key, exp |-> admitted[i].exp]
                    /\ Len(g.ordered) - p <= N - i
    <3>1. Tracked(i)
      BY <2>8 DEF HistoryInv, N
    <3> QED
      BY <3>1, <2>1, <2>2, PruneTracks DEF g, given, N
  <2>9. \A i \in 1..Len(admitted') : admitted'[i].epoch <= epoch'
    BY <2>1, <2>5, <1>1 DEF HistoryInv, N, a
  <2>10. \A i \in 1..Len(admitted') : admitted'[i].epoch = epoch' => Tracked(i)'
    <3> SUFFICES ASSUME NEW i \in 1..Len(admitted'), admitted'[i].epoch = epoch'
                 PROVE  Tracked(i)'
      OBVIOUS
    <3>1. CASE i = N + 1
      <4>1. admitted'[i].key = k /\ admitted'[i].exp = t.exp
        BY <3>1, <2>5 DEF a
      <4>2. Len(r) \in 1..Len(r) /\ Len(r) - Len(r) <= Len(admitted') - i
        BY <3>1, <2>5, <2>7, <1>1 DEF N
      <4> QED
        BY <4>1, <4>2, <2>1, <2>7 DEF Tracked
    <3>2. CASE i \in 1..N
      <4>1. admitted'[i] = admitted[i] /\ admitted[i].epoch = epoch
        BY <3>2, <2>1, <2>5
      <4>2. CASE N - i >= Capacity
        BY <4>2, <3>2, <2>5, <1>1, CapacityAssumption DEF Tracked, N
      <4>3. CASE admitted[i].exp <= high'
        BY <4>1, <4>3 DEF Tracked
      <4>4. ASSUME NEW p \in 1..Len(g.ordered),
                   g.ordered[p] = [key |-> admitted[i].key, exp |-> admitted[i].exp],
                   Len(g.ordered) - p <= N - i
            PROVE  Tracked(i)'
        <5>1. CASE p = 1 /\ Len(g.ordered) = Capacity
          <6>1. Len(admitted') - i >= Capacity
            BY <5>1, <4>4, <3>2, <2>5, <1>1, CapacityAssumption DEF N
          <6> QED
            BY <6>1 DEF Tracked
        <5>2. CASE \E q \in 1..Len(r) : r[q] = g.ordered[p] /\ Len(r) - q = Len(g.ordered) + 1 - p
          <6>1. PICK q \in 1..Len(r) : r[q] = g.ordered[p] /\ Len(r) - q = Len(g.ordered) + 1 - p
            BY <5>2
          <6>2. Len(r) - q <= Len(admitted') - i
            BY <6>1, <4>4, <3>2, <2>4, <2>5, <2>7, <1>1 DEF N
          <6> QED
            BY <6>1, <6>2, <4>1, <4>4, <2>1 DEF Tracked
        <5> QED
          BY <5>1, <5>2, <2>7
      <4> QED
        BY <3>2, <4>1, <4>2, <4>3, <4>4, <2>8
    <3> QED
      BY <3>1, <3>2, <2>5, <1>1 DEF N
  <2>11. ReplayNeedsEvictionOrLaterClock'
    <3> SUFFICES ASSUME NEW i \in 1..Len(admitted'), NEW j \in 1..Len(admitted'), i < j,
                        admitted'[i].key = admitted'[j].key, admitted'[i].epoch = admitted'[j].epoch
                 PROVE  j - i > Capacity \/ admitted'[i].exp <= admitted'[j].high
      BY DEF ReplayNeedsEvictionOrLaterClock
    <3>1. CASE j \in 1..N
      <4>1. i \in 1..N
        BY <3>1, <1>1 DEF N
      <4> QED
        BY <4>1, <3>1, <2>5 DEF HistoryInv, ReplayNeedsEvictionOrLaterClock, N
    <3>2. CASE j = N + 1
      <4>1. i \in 1..N /\ admitted'[i] = admitted[i]
        BY <3>2, <2>5, <1>1 DEF N
      <4>2. admitted'[j].key = k /\ admitted'[j].high = high' /\ admitted[i].key = k /\ admitted[i].epoch = epoch
        BY <3>2, <4>1, <2>1, <2>5 DEF a
      <4>3. CASE N - i >= Capacity
        BY <4>1, <4>3, <3>2, <1>1, CapacityAssumption DEF N
      <4>4. CASE admitted[i].exp <= high'
        BY <4>1, <4>2, <4>4
      <4>5. ASSUME NEW p \in 1..Len(g.ordered),
                   g.ordered[p] = [key |-> admitted[i].key, exp |-> admitted[i].exp]
            PROVE  admitted[i].exp <= high'
        <5>1. g.ordered[p].exp <= g.seen[g.ordered[p].key]
          BY <2>3 DEF Agree
        <5>2. admitted[i].exp <= g.seen[k] /\ admitted[i].exp \in Nat
          BY <5>1, <4>1, <4>2, <4>5, <1>1 DEF N
        <5> QED
          BY <5>2, <2>1, <2>2, <2>4, <2>6
      <4> QED
        BY <4>1, <4>2, <4>3, <4>4, <4>5, <2>8
    <3> QED
      BY <3>1, <3>2, <2>5, <1>1 DEF N
  <2> QED
    BY <2>9, <2>10, <2>11 DEF HistoryInv
<1>4. CASE Restart
  <2>1. admitted' = admitted /\ epoch' = epoch + 1
    BY <1>4 DEF Restart
  <2>2. \A i \in 1..Len(admitted') : admitted'[i].epoch < epoch'
    BY <2>1, <1>1 DEF HistoryInv
  <2>3. ReplayNeedsEvictionOrLaterClock'
    BY <2>1 DEF HistoryInv, ReplayNeedsEvictionOrLaterClock
  <2> QED
    BY <2>1, <2>2, <2>3, <1>1 DEF HistoryInv
<1>5. ASSUME UNCHANGED <<ordered, admitted, high, epoch>>
      PROVE  HistoryInv'
  BY <1>5 DEF HistoryInv, Tracked, ReplayNeedsEvictionOrLaterClock
<1>6. ASSUME NEW c \in Callers,
             (\E t \in Tokens, r \in Routes : Verify(c, t, r)) \/ ReadClock(c) \/ RejectExpired(c)
      PROVE  HistoryInv'
  BY <1>5, <1>6 DEF Verify, ReadClock, RejectExpired
<1>7. CASE Tick \/ UNCHANGED vars
  BY <1>5, <1>7 DEF Tick, vars
<1> QED
  BY <1>2, <1>3, <1>4, <1>6, <1>7 DEF Next

\* For every capacity and any interleaving of handlers and restarts: a token that
\* one process admits twice was evicted by Capacity later admissions, or Consume
\* had been given a time past its expiry (ReplayGuard.Consume, prune).
THEOREM ReplayTheorem == Spec => []ReplayNeedsEvictionOrLaterClock
<1>1. Init => HistoryInv
  BY DEF Init, HistoryInv, ReplayNeedsEvictionOrLaterClock
<1>2. HistoryInv => ReplayNeedsEvictionOrLaterClock
  BY DEF HistoryInv
<1> QED
  BY InitInv, NextInv, NextHistoryInv, <1>1, <1>2, PTL DEF Spec

-----------------------------------------------------------------------------
(* What the proof takes of the constants.                                    *)
AccountsAreKnown ==
    /\ Paired \in [Accounts -> Users \cup {NoUser}]
    /\ PrepareTTL \in Nat /\ ConfirmTTL \in Nat /\ PairingTTL \in Nat

Codes == [user : Users, expires : Nat, used : BOOLEAN]
Actions == [account : Accounts, user : Users, kind : {"prepare", "unlock"}, expires : Nat, used : BOOLEAN]
Updates == [id : Nat, account : Accounts, verb : {"start", "prepare", "confirm", "cancel"}, arg : Nat]

(* A button that was shown is of an action, and so is a press of it.         *)
Fits(u, cs, as) ==
    /\ u.verb = "start" => u.arg \in DOMAIN cs
    /\ u.verb # "start" => u.arg \in DOMAIN as /\ (u.verb = "prepare" <=> as[u.arg].kind = "prepare")
Fitting(cs, as) == {u \in Updates : Fits(u, cs, as)}

Consuming == {"prepare", "confirm", "cancel"}
Pending == {"ask", "check", "unlock"}
BotTypes ==
    /\ time \in Nat /\ sent \in Nat /\ changes \in Nat
    /\ bound \in [Accounts -> Users \cup {NoUser}]
    /\ codes \in Seq(Codes) /\ actions \in Seq(Actions)
    /\ shown \subseteq DOMAIN actions
    /\ inbox \in Seq(Fitting(codes, actions)) /\ batch \in Seq(Fitting(codes, actions))
    /\ at \in {"poll", "start"} \cup Consuming \cup Pending
    /\ at # "poll" => current \in Fitting(codes, actions)
    /\ at \in {"start"} \cup Consuming => at = current.verb
    /\ at \in Pending => pending \in [token : Nat, from : Nat]

(* A question to unlock follows an answer to the doorbell.                   *)
Asked(as, p, a) == as[p].kind = "prepare" /\ as[p].account = a /\ as[p].used
Follows(as, t) ==
    as[t].kind = "unlock" => \E p \in 1 .. t - 1 : Asked(as, p, as[t].account)

(* The action that is being handled is consumed, is of who answers, and, if  *)
(* it unlocks, did not unlock yet; nothing changed since unless changes says *)
(* so.                                                                       *)
Handled ==
    LET t == pending.token IN
    at \in Pending =>
        /\ t \in DOMAIN actions /\ actions[t].used /\ actions[t].account = current.account
        /\ actions[t].kind = IF at = "ask" THEN "prepare" ELSE "unlock"
        /\ pending.from <= changes
        /\ at # "ask" => \A i \in DOMAIN doors : doors[i].token # t
        /\ at = "unlock" /\ changes = pending.from => T!MayUnlock(current.account, t)

Doors(x, as) ==
    /\ x.token \in DOMAIN as /\ as[x.token].used
    /\ as[x.token].kind = "unlock" /\ as[x.token].account = x.account
    /\ x.entitled \/ x.changed
Unlocked ==
    /\ doors \in Seq([token : Nat, account : Accounts, user : Users, entitled : BOOLEAN, changed : BOOLEAN])
    /\ \A i \in DOMAIN doors : Doors(doors[i], actions)

BotInv ==
    /\ BotTypes
    /\ \A t \in DOMAIN actions : Follows(actions, t)
    /\ Handled /\ Unlocked /\ T!OneUnlockPerAnswer

-----------------------------------------------------------------------------
(* What becomes of the actions: one is added, or one is consumed.            *)
Extends(as, bs) ==
    /\ DOMAIN as \subseteq DOMAIN bs
    /\ \A t \in DOMAIN as :
         /\ bs[t].kind = as[t].kind /\ bs[t].account = as[t].account /\ bs[t].user = as[t].user
         /\ as[t].used => bs[t].used

(* A new action leaves the others alone.                                   *)
LEMMA AppendExtends ==
    ASSUME NEW as \in Seq(Actions), NEW e \in Actions
    PROVE  /\ Append(as, e) \in Seq(Actions) /\ Extends(as, Append(as, e))
           /\ Len(Append(as, e)) = Len(as) + 1 /\ Append(as, e)[Len(as) + 1] = e
           /\ DOMAIN Append(as, e) = DOMAIN as \cup {Len(as) + 1}
           /\ \A t \in DOMAIN as : Append(as, e)[t] = as[t]
<1> DEFINE bs == Append(as, e)
           n == Len(as)
<1>1. /\ bs \in Seq(Actions) /\ Len(bs) = n + 1
      /\ \A t \in 1 .. n : bs[t] = as[t]
      /\ bs[n + 1] = e
  <2>1. bs \in Seq(Actions) /\ Len(bs) = n + 1
    BY AppendProperties
  <2>2. \A t \in 1 .. n : bs[t] = as[t]
    BY AppendProperties
  <2>3. bs[n + 1] = e
    BY AppendProperties
  <2> QED
    BY <2>1, <2>2, <2>3
<1>2. DOMAIN as = 1 .. n /\ n \in Nat
  BY LenProperties
<1>3. DOMAIN bs = 1 .. n + 1
  BY <1>1, LenProperties
<1> HIDE DEF bs, n
<1>4. DOMAIN bs = DOMAIN as \cup {n + 1}
  BY <1>2, <1>3
<1>5. Extends(as, bs)
  BY <1>1, <1>2, <1>4 DEF Extends
<1> QED
  BY <1>1, <1>2, <1>4, <1>5 DEF bs, n

Uses(as, t) == [as EXCEPT ![t].used = TRUE]
(* So does the use of one.                                                 *)
LEMMA UseExtends ==
    ASSUME NEW as \in Seq(Actions), NEW t \in DOMAIN as
    PROVE  /\ Uses(as, t) \in Seq(Actions) /\ Extends(as, Uses(as, t)) /\ Uses(as, t)[t].used
           /\ DOMAIN Uses(as, t) = DOMAIN as
<1> DEFINE e == [as[t] EXCEPT !.used = TRUE]
<1>1. as[t] \in Actions
  BY ElementOfSeq, LenProperties
<1>2. /\ e \in Actions /\ e.used /\ e.kind = as[t].kind /\ e.account = as[t].account
      /\ e.user = as[t].user
  BY <1>1 DEF Actions
<1>3. Uses(as, t) = [as EXCEPT ![t] = e]
  BY DEF Uses
<1> HIDE DEF e
<1>4. /\ Uses(as, t) \in Seq(Actions) /\ DOMAIN Uses(as, t) = DOMAIN as /\ Uses(as, t)[t] = e
      /\ \A s \in DOMAIN as : s # t => Uses(as, t)[s] = as[s]
  <2>1. t \in 1 .. Len(as) /\ DOMAIN as = 1 .. Len(as)
    BY LenProperties
  <2>2. /\ Uses(as, t) \in Seq(Actions) /\ Len(Uses(as, t)) = Len(as)
        /\ \A s \in 1 .. Len(as) : Uses(as, t)[s] = IF s = t THEN e ELSE as[s]
    <3>1. e \in Actions
      BY <1>2
    <3> DEFINE bs == [as EXCEPT ![t] = e]
    <3>2. bs \in Seq(Actions)
      BY <2>1, <3>1, ExceptSeq
    <3>3. Len(bs) = Len(as)
      BY <2>1, <3>1, ExceptSeq
    <3>4. \A s \in 1 .. Len(as) : bs[s] = IF s = t THEN e ELSE as[s]
      BY <2>1, <3>1, ExceptSeq
    <3> QED
      BY <1>3, <3>2, <3>3, <3>4
  <2>3. DOMAIN Uses(as, t) = 1 .. Len(Uses(as, t))
    BY <2>2, LenProperties
  <2> QED
    BY <2>1, <2>2, <2>3
<1> QED
  BY <1>2, <1>4 DEF Extends

(* What fits, follows or was opened by the actions there are, does so by   *)
(* more.                                                                   *)
LEMMA FittingGrows ==
    ASSUME NEW cs, NEW as, NEW ds, NEW bs, DOMAIN cs \subseteq DOMAIN ds, Extends(as, bs)
    PROVE  Fitting(cs, as) \subseteq Fitting(ds, bs)
BY DEF Fitting, Fits, Extends

(* A row still follows an answer when more answers have come.                *)
LEMMA FollowsGrows ==
    ASSUME NEW as \in Seq(Actions), NEW bs, Extends(as, bs), NEW t \in DOMAIN as, Follows(as, t)
    PROVE  Follows(bs, t)
<1> SUFFICES ASSUME bs[t].kind = "unlock"
             PROVE  \E p \in 1 .. t - 1 : Asked(bs, p, bs[t].account)
  BY DEF Follows
<1>1. PICK p \in 1 .. t - 1 : Asked(as, p, as[t].account)
  BY DEF Follows, Extends
<1>2. p \in DOMAIN as
  <2> DEFINE n == Len(as)
  <2>1. DOMAIN as = 1 .. n /\ n \in Nat
    BY LenProperties
  <2> HIDE DEF n
  <2>2. t \in 1 .. n
    BY <2>1
  <2>3. p \in 1 .. n
    BY <2>1, <2>2
  <2> QED
    BY <2>1, <2>3
<1> QED
  BY <1>1, <1>2 DEF Asked, Extends

(* Earlier unlocks keep their rows when more rows have come.                 *)
LEMMA DoorsGrow ==
    ASSUME NEW as, NEW bs, Extends(as, bs), NEW x, Doors(x, as)
    PROVE  Doors(x, bs)
BY DEF Extends, Doors

(* A step that takes the tables further, and keeps what was unlocked.        *)
Further ==
    /\ Extends(actions, actions') /\ DOMAIN codes \subseteq DOMAIN codes'
    /\ doors' = doors

(* What such a step keeps of the invariant.                                *)
LEMMA Carries ==
    ASSUME BotInv, Further
    PROVE  /\ shown \subseteq DOMAIN actions'
           /\ inbox \in Seq(Fitting(codes', actions')) /\ batch \in Seq(Fitting(codes', actions'))
           /\ at # "poll" => current \in Fitting(codes', actions')
           /\ Unlocked' /\ T!OneUnlockPerAnswer'
           /\ \A t \in DOMAIN actions : Follows(actions', t)
<1>1. BotTypes /\ Unlocked /\ T!OneUnlockPerAnswer /\ \A t \in DOMAIN actions : Follows(actions, t)
  BY DEF BotInv
<1>2. Fitting(codes, actions) \subseteq Fitting(codes', actions')
  BY FittingGrows DEF Further
<1>3. inbox \in Seq(Fitting(codes', actions')) /\ batch \in Seq(Fitting(codes', actions'))
  BY <1>1, <1>2, SeqMonotonic DEF BotTypes
<1>4. shown \subseteq DOMAIN actions' /\ (at # "poll" => current \in Fitting(codes', actions'))
  BY <1>1, <1>2 DEF BotTypes, Further, Extends
<1>5. Unlocked'
  BY <1>1, DoorsGrow DEF Unlocked, Further
<1>6. T!OneUnlockPerAnswer'
  BY <1>1 DEF T!OneUnlockPerAnswer, Further
<1>7. \A t \in DOMAIN actions : Follows(actions', t)
  BY <1>1, FollowsGrows DEF BotTypes, Further
<1> QED
  BY <1>3, <1>4, <1>5, <1>6, <1>7

(* Nothing at all happened to the actions.                                 *)
LEMMA SameExtends == ASSUME NEW as PROVE Extends(as, as)
BY DEF Extends

(* A step that leaves the tables and the handling alone.                     *)
LEMMA AsideStep ==
    ASSUME BotInv, UNCHANGED <<T!tables, doors>>, UNCHANGED <<at, current, pending>>,
           time' \in Nat, sent' \in Nat, shown' \subseteq DOMAIN actions, batch' = batch,
           inbox' \in Seq(Fitting(codes, actions)),
           changes' \in Nat, changes' >= changes, changes' = changes => admins' = admins
    PROVE  BotInv'
<1> USE DEF T!tables
<1>1. BotTypes'
  BY DEF BotInv, BotTypes
<1>2. Handled'
  <2> SUFFICES ASSUME at \in Pending
               PROVE  Handled'
    BY DEF Handled
  <2>1. pending.from <= changes /\ pending.from \in Nat /\ changes \in Nat
    BY DEF BotInv, Handled, BotTypes
  <2>2. changes' = pending.from => changes' = changes
    BY <2>1
  <2>3. pending.from <= changes'
    BY <2>1
  <2> QED
    BY <2>2, <2>3 DEF BotInv, Handled, T!MayUnlock
<1>3. Unlocked' /\ T!OneUnlockPerAnswer'
  BY DEF BotInv, Unlocked, T!OneUnlockPerAnswer
<1> QED
  BY <1>1, <1>2, <1>3 DEF BotInv

(* The world outside: the clock, the accounts, the doorbell.               *)
LEMMA TickStep == ASSUME BotInv, T!Tick PROVE BotInv'
<1>1. time' \in Nat
  BY DEF T!Tick, BotInv, BotTypes
<1> QED
  BY <1>1, AsideStep DEF T!Tick, T!users, T!tables, T!chats, T!server, T!poller, T!worker, T!bounds, BotInv, BotTypes

(* A change of roles.                                                        *)
LEMMA ChangeStep == ASSUME BotInv, T!Change PROVE BotInv'
<1>1. changes' \in Nat /\ changes' >= changes /\ changes' # changes
  BY DEF T!Change, BotInv, BotTypes
<1> QED
  BY <1>1, AsideStep DEF T!Change, T!tables, T!chats, T!server, T!poller, BotInv, BotTypes

(* A press at the door, and its notification.                                *)
LEMMA RingStep == ASSUME BotInv, T!Ring \/ T!NotifyEvent PROVE BotInv'
BY AsideStep DEF T!Ring, T!NotifyEvent, T!users, T!tables, T!chats, T!server, T!poller, T!bounds, BotInv, BotTypes

(* An account sends an update.                                               *)
LEMMA SendStep ==
    ASSUME BotInv, NEW a \in Accounts, NEW v \in {"start", "prepare", "confirm", "cancel"}, NEW x \in Nat,
           Fits([id |-> sent + 1, account |-> a, verb |-> v, arg |-> x], codes, actions), T!Send(a, v, x)
    PROVE  BotInv'
<1> DEFINE u == [id |-> sent + 1, account |-> a, verb |-> v, arg |-> x]
<1>1. sent' \in Nat /\ u \in Updates
  BY DEF T!Send, BotInv, BotTypes, Updates
<1>2. u \in Fitting(codes, actions)
  BY <1>1 DEF Fitting
<1>3. inbox' \in Seq(Fitting(codes, actions))
  BY <1>2, AppendProperties DEF T!Send, BotInv, BotTypes
<1> QED
  BY <1>1, <1>3, AsideStep DEF T!Send, T!users, T!tables, T!chats, T!poller, T!bounds, BotInv, BotTypes

(* Accounts write a code, or press a button they were shown, any number of *)
(* times.                                                                  *)
LEMMA TypeStep == ASSUME BotInv, NEW a \in Accounts, T!TypeCode(a) PROVE BotInv'
<1>1. PICK k \in DOMAIN codes : T!Send(a, "start", k)
  BY DEF T!TypeCode
<1>2. k \in Nat
  BY LenProperties DEF BotInv, BotTypes
<1> QED
  BY <1>1, <1>2, SendStep DEF Fits

(* Somebody presses a button.                                                *)
LEMMA PressStep == ASSUME BotInv, NEW a \in Accounts, T!PressButton(a) PROVE BotInv'
<1>1. PICK t \in shown : \E v \in T!Verbs(t) : T!Send(a, v, t)
  BY DEF T!PressButton
<1>2. PICK v \in T!Verbs(t) : T!Send(a, v, t)
  BY <1>1
<1>3. t \in DOMAIN actions /\ t \in Nat
  BY LenProperties DEF BotInv, BotTypes
<1>4. v \in {"prepare", "confirm", "cancel"} /\ (v = "prepare" <=> actions[t].kind = "prepare")
  BY DEF T!Verbs
<1> QED
  BY <1>2, <1>3, <1>4, SendStep DEF Fits

(* Nothing is being handled.                                                 *)
LEMMA IdleStep ==
    ASSUME BotInv, UNCHANGED <<time, bound, codes, actions, shown, sent, doors>>,
           inbox' \in Seq(Fitting(codes, actions)), batch' \in Seq(Fitting(codes, actions)),
           at' = "poll", changes' \in Nat
    PROVE  BotInv'
<1>1. BotTypes'
  BY DEF BotInv, BotTypes, Consuming, Pending
<1>2. Handled' /\ Unlocked' /\ T!OneUnlockPerAnswer'
  BY DEF BotInv, Handled, Unlocked, T!OneUnlockPerAnswer, Pending
<1> QED
  BY <1>1, <1>2 DEF BotInv

(* A restart forgets what was fetched and what was being handled, and      *)
(* fetches it again.                                                       *)
LEMMA CrashStep == ASSUME BotInv, T!Crash PROVE BotInv'
<1>1. batch' \in Seq(Fitting(codes, actions))
  BY EmptySeq DEF T!Crash
<1> QED
  BY <1>1, IdleStep DEF T!Crash, T!Trouble, T!users, T!tables, T!chats, T!server, BotInv, BotTypes

(* What is fetched again is an end of what was sent.                       *)
LEMMA HeldFits == ASSUME NEW S, inbox \in Seq(S) PROVE T!Held \in Seq(S)
<1> DEFINE n == Len(inbox)
           m == 1 + Cardinality(T!Before)
<1>1. n \in Nat /\ DOMAIN inbox = 1 .. n /\ inbox \in [1 .. n -> S]
  BY LenProperties
<1> HIDE DEF n
<1>2. IsFiniteSet(T!Before)
  BY <1>1, FS_Interval, FS_Subset DEF T!Before
<1>3. Cardinality(T!Before) \in Nat
  BY <1>2, FS_CardinalityType
<1>4. m \in Int /\ m >= 1
  BY <1>3
<1> HIDE DEF m
<1>5. \A i \in m .. n : inbox[i] \in S
  BY <1>1, <1>4
<1>6. SubSeq(inbox, m, n) \in Seq(S)
  BY <1>1, <1>4, <1>5, SubSeqProperties
<1> QED
  BY <1>6 DEF T!Held, m, n, Cardinality, T!Cardinality, IsFiniteSet, T!IsFiniteSet

(* Updates are polled.                                                       *)
LEMMA GetStep == ASSUME BotInv, T!GetUpdates PROVE BotInv'
<1>1. T!Held \in Seq(Fitting(codes, actions))
  BY HeldFits DEF BotInv, BotTypes
<1> QED
  BY <1>1, IdleStep DEF T!GetUpdates, T!Trouble, T!bounds, T!users, T!tables, T!chats, BotInv, BotTypes

(* The loop takes an update.                                                 *)
LEMMA TakeStep == ASSUME BotInv, T!Take PROVE BotInv'
<1>1. /\ current' \in Fitting(codes, actions) /\ batch' \in Seq(Fitting(codes, actions))
      /\ at' = current'.verb
  BY HeadTailProperties DEF T!Take, BotInv, BotTypes
<1>2. current'.verb \in {"start"} \cup Consuming
  BY <1>1 DEF Fitting, Updates, Consuming
<1>3. BotTypes'
  BY <1>1, <1>2 DEF T!Take, BotInv, BotTypes, T!users, T!tables, T!chats, T!server, T!bounds, Consuming, Pending
<1>4. Handled'
  BY <1>1, <1>2 DEF Handled, Consuming, Pending
<1>5. Unlocked' /\ T!OneUnlockPerAnswer' /\ \A t \in DOMAIN actions' : Follows(actions', t)
  BY DEF T!Take, BotInv, Unlocked, T!OneUnlockPerAnswer, T!tables
<1> QED
  BY <1>3, <1>4, <1>5 DEF BotInv

(* A step of the tables, after which no answer is being handled that was not *)
(* before.                                                                   *)
LEMMA TableStep ==
    ASSUME BotInv, Further, actions' \in Seq(Actions), codes' \in Seq(Codes),
           bound' \in [Accounts -> Users \cup {NoUser}], changes' \in Nat,
           time' = time, sent' = sent, shown' \subseteq DOMAIN actions', inbox' = inbox,
           batch' \in {batch, <<>>},
           \A t \in DOMAIN actions' \ DOMAIN actions : Follows(actions', t),
           \/ at' = "poll"
           \/ /\ UNCHANGED <<at, current, pending, changes, bound, admins>>
    PROVE  BotInv'
<1>1. /\ inbox \in Seq(Fitting(codes', actions')) /\ batch \in Seq(Fitting(codes', actions'))
      /\ Unlocked' /\ T!OneUnlockPerAnswer' /\ \A t \in DOMAIN actions : Follows(actions', t)
      /\ at # "poll" => current \in Fitting(codes', actions')
  BY Carries
<1>2. BotTypes'
  BY <1>1, EmptySeq DEF BotInv, BotTypes, Consuming, Pending
<1>3. Handled'
  BY DEF BotInv, Handled, Further, Extends, Pending, T!MayUnlock
<1> QED
  BY <1>1, <1>2, <1>3 DEF BotInv

(* Pairing: a code is made, and used by an account.                        *)
LEMMA CodeStep == ASSUME BotInv, AccountsAreKnown, NEW u \in Users, T!PairingCreate(u) PROVE BotInv'
<1> DEFINE e == [user |-> u, expires |-> time + PairingTTL, used |-> FALSE]
<1>1. e \in Codes
  BY DEF AccountsAreKnown, Codes, BotInv, BotTypes
<1>2. codes' \in Seq(Codes) /\ Len(codes') = Len(codes) + 1
  BY <1>1, AppendProperties DEF T!PairingCreate, BotInv, BotTypes
<1>3. DOMAIN codes \subseteq DOMAIN codes'
  BY <1>2, LenProperties DEF BotInv, BotTypes
<1> QED
  BY <1>2, <1>3, SameExtends, TableStep
     DEF T!PairingCreate, Further, T!users, T!chats, T!server, T!poller, T!bounds, BotInv, BotTypes

(* A pairing code is consumed.                                               *)
LEMMA PairingStep == ASSUME BotInv, T!PairingConsume PROVE BotInv'
<1> DEFINE k == current.arg
           e == [codes[k] EXCEPT !.used = TRUE]
<1>1. /\ k \in DOMAIN codes /\ codes \in Seq(Codes) /\ current.account \in Accounts
      /\ bound \in [Accounts -> Users \cup {NoUser}] /\ changes \in Nat
  BY DEF T!PairingConsume, BotInv, BotTypes, Fitting, Fits, Updates
<1>2. k \in 1 .. Len(codes) /\ DOMAIN codes = 1 .. Len(codes)
  BY <1>1, LenProperties
<1>3. codes[k] \in Codes
  BY <1>1, <1>2, ElementOfSeq
<1>4. e \in Codes /\ codes[k].user \in Users
  BY <1>3 DEF Codes
<1> HIDE DEF e
<1>5. [codes EXCEPT ![k] = e] \in Seq(Codes)
  BY <1>1, <1>2, <1>4, ExceptSeq
<1>6. codes' = codes \/ codes' = [codes EXCEPT ![k] = e]
  BY DEF T!PairingConsume, e
<1>7. codes' \in Seq(Codes) /\ DOMAIN codes \subseteq DOMAIN codes'
  BY <1>1, <1>5, <1>6
<1>8. bound' \in [Accounts -> Users \cup {NoUser}] /\ changes' \in Nat
  BY <1>1, <1>4 DEF T!PairingConsume
<1> QED
  BY <1>7, <1>8, SameExtends, TableStep
     DEF T!PairingConsume, T!Finish, Further, T!users, T!chats, T!server, BotInv, BotTypes

(* Someone who may unlock is told with a button of his own.                  *)
LEMMA TellStep ==
    ASSUME BotInv, AccountsAreKnown, NEW a \in Accounts, NEW u \in Users, T!Tell(a, u) PROVE BotInv'
<1> DEFINE e == T!Action(a, u, "prepare", PrepareTTL)
<1>1. actions \in Seq(Actions) /\ shown \subseteq DOMAIN actions /\ changes \in Nat
  BY DEF BotInv, BotTypes
<1>2. e \in Actions /\ e.kind = "prepare"
  BY DEF T!Action, Actions, AccountsAreKnown, BotInv, BotTypes
<1>3. actions' = actions \/ actions' = Append(actions, e)
  BY DEF T!Tell
<1>4. changes' = changes
  BY DEF T!Tell, T!Trouble, T!bounds
<1> HIDE DEF e
<1>5. CASE actions' = actions
  <2>1. shown' \subseteq DOMAIN actions'
    <3>1. ~(Append(actions, e) = actions)
      BY <1>1, <1>2, AppendExtends, LenProperties
    <3> QED
      BY <1>1, <1>5, <3>1 DEF T!Tell, T!chats, e
  <2> QED
    BY <1>1, <1>4, <1>5, <2>1, SameExtends, TableStep
       DEF T!Tell, Further, T!users, T!server, T!poller, BotInv, BotTypes
<1>6. CASE actions' = Append(actions, e)
  <2>1. /\ actions' \in Seq(Actions) /\ Extends(actions, actions')
        /\ Len(actions') = Len(actions) + 1 /\ actions'[Len(actions) + 1] = e
        /\ DOMAIN actions' = DOMAIN actions \cup {Len(actions) + 1}
    BY <1>1, <1>2, <1>6, AppendExtends
  <2>2. \A t \in DOMAIN actions' \ DOMAIN actions : Follows(actions', t)
    BY <1>2, <2>1 DEF Follows
  <2>3. shown' \subseteq shown \cup {Len(actions')}
    BY DEF T!Tell, T!chats
  <2>4. shown' \subseteq DOMAIN actions'
    BY <1>1, <2>1, <2>3
  <2> QED
    BY <1>4, <2>1, <2>2, <2>4, TableStep
       DEF T!Tell, Further, T!users, T!server, T!poller, BotInv, BotTypes
<1> QED
  BY <1>3, <1>5, <1>6

(* The answer to the doorbell is consumed before the question is asked.    *)
LEMMA AskStep == ASSUME BotInv, AccountsAreKnown, T!CreateUnlockConfirmation PROVE BotInv'
<1> DEFINE a == current.account
           u == bound[a]
           e == T!Action(a, u, "unlock", ConfirmTTL)
           n == Len(actions)
<1>1. /\ actions \in Seq(Actions) /\ shown \subseteq DOMAIN actions /\ changes \in Nat
      /\ a \in Accounts /\ bound \in [Accounts -> Users \cup {NoUser}]
      /\ pending.token \in DOMAIN actions /\ Asked(actions, pending.token, a)
  BY DEF BotInv, BotTypes, T!CreateUnlockConfirmation, Handled, Asked, Pending, Fitting, Updates
<1>2. /\ at' = "poll" /\ changes' = changes /\ batch' = batch
      /\ UNCHANGED <<time, sent, inbox, bound, codes, doors>>
  BY DEF T!CreateUnlockConfirmation, T!Trouble, T!bounds, T!Finish, T!server
<1>3. CASE UNCHANGED <<actions, shown>>
  BY <1>1, <1>2, <1>3, SameExtends, TableStep DEF Further, BotInv, BotTypes
<1>4. CASE u # NoUser /\ actions' = Append(actions, e) /\ shown' \subseteq shown \cup {Len(actions')}
  <2>1. e \in Actions /\ e.kind = "unlock" /\ e.account = a
    BY <1>1, <1>4 DEF T!Action, Actions, AccountsAreKnown, BotInv, BotTypes
  <2> HIDE DEF e
  <2>2. /\ actions' \in Seq(Actions) /\ Extends(actions, actions')
        /\ Len(actions') = n + 1 /\ actions'[n + 1] = e
        /\ DOMAIN actions' = DOMAIN actions \cup {n + 1}
        /\ \A t \in DOMAIN actions : actions'[t] = actions[t]
    BY <1>1, <1>4, <2>1, AppendExtends
  <2>3. n \in Nat /\ DOMAIN actions = 1 .. n
    BY <1>1, LenProperties
  <2> HIDE DEF n
  <2>4. pending.token \in 1 .. (n + 1) - 1
    BY <1>1, <2>3
  <2>5. Asked(actions', pending.token, a)
    BY <1>1, <2>2 DEF Asked
  <2>6. Follows(actions', n + 1)
    BY <2>1, <2>2, <2>4, <2>5 DEF Follows
  <2>7. \A t \in DOMAIN actions' \ DOMAIN actions : Follows(actions', t)
    BY <2>2, <2>6
  <2>8. shown' \subseteq DOMAIN actions'
    BY <1>1, <1>4, <2>2
  <2> QED
    BY <1>1, <1>2, <2>2, <2>7, <2>8, TableStep DEF Further, BotInv, BotTypes
<1>5. \/ UNCHANGED <<actions, shown>>
      \/ u # NoUser /\ actions' = Append(actions, e) /\ shown' \subseteq shown \cup {Len(actions')}
  BY DEF T!CreateUnlockConfirmation
<1> QED
  BY <1>3, <1>4, <1>5

(* What is consumed was not before, and so did not unlock.                   *)
LEMMA ConsumeStep == ASSUME BotInv, T!Consume PROVE BotInv'
<1> DEFINE a == current.account
           t == current.arg
<1>1. /\ actions \in Seq(Actions) /\ shown \subseteq DOMAIN actions /\ changes \in Nat
      /\ at = current.verb /\ at \in Consuming
      /\ t \in DOMAIN actions /\ (at = "prepare" <=> actions[t].kind = "prepare")
      /\ \A s \in DOMAIN actions : actions[s].kind \in {"prepare", "unlock"}
      /\ current \in Fitting(codes, actions) /\ at \in {"prepare", "cancel", "confirm"}
  <2>1. \A s \in DOMAIN actions : actions[s] \in Actions
    BY ElementOfSeq, LenProperties DEF BotInv, BotTypes
  <2>2. \A s \in DOMAIN actions : actions[s].kind \in {"prepare", "unlock"}
    BY <2>1 DEF Actions
  <2> QED
    BY <2>2 DEF BotInv, BotTypes, T!Consume, Consuming, Fitting, Fits
<1>2. /\ changes' = changes /\ batch' = batch
      /\ UNCHANGED <<time, sent, inbox, shown, bound, codes, doors, admins>>
  BY DEF T!Consume, T!Trouble, T!bounds, T!Finish, T!Goes, T!server, T!chats, T!users
<1>3. /\ Uses(actions, t) \in Seq(Actions) /\ Extends(actions, Uses(actions, t))
      /\ Uses(actions, t)[t].used /\ DOMAIN Uses(actions, t) = DOMAIN actions
  BY <1>1, UseExtends
<1>4. actions' = actions \/ actions' = Uses(actions, t)
  BY DEF T!Consume, T!Consumed, Uses
<1>5. /\ actions' \in Seq(Actions) /\ Extends(actions, actions') /\ DOMAIN actions' = DOMAIN actions
  BY <1>1, <1>3, <1>4, SameExtends
<1>6. CASE at' = "poll"
  BY <1>1, <1>2, <1>5, <1>6, TableStep DEF Further, BotInv, BotTypes
<1>7. CASE /\ T!Consumable(a, t) /\ actions' = Uses(actions, t) /\ current' = current
           /\ at' = IF at = "prepare" THEN "ask" ELSE "check"
           /\ pending' = [token |-> t, from |-> changes]
  <2>1. /\ Unlocked' /\ T!OneUnlockPerAnswer' /\ \A s \in DOMAIN actions' : Follows(actions', s)
        /\ inbox' \in Seq(Fitting(codes', actions')) /\ batch' \in Seq(Fitting(codes', actions'))
        /\ current' \in Fitting(codes', actions')
    BY <1>1, <1>2, <1>5, <1>7, Carries DEF Further, Consuming
  <2>2. t \in Nat
    BY <1>1, LenProperties
  <2>3. BotTypes'
    BY <1>1, <1>2, <1>5, <1>7, <2>1, <2>2 DEF BotInv, BotTypes, Consuming, Pending
  <2>4. \A i \in DOMAIN doors : doors[i].token # t
    BY <1>7 DEF BotInv, Unlocked, Doors, T!Consumable
  <2>5. Handled'
    BY <1>1, <1>2, <1>3, <1>5, <1>7, <2>4 DEF Handled, T!Consumable, Extends, Consuming, Pending
  <2> QED
    BY <2>1, <2>3, <2>5 DEF BotInv
<1>8. at' = "poll" \/ (/\ T!Consumable(a, t) /\ actions' = Uses(actions, t) /\ current' = current
                       /\ at' = IF at = "prepare" THEN "ask" ELSE "check"
                       /\ pending' = [token |-> t, from |-> changes])
  BY DEF T!Consume, T!Consumed, T!Finish, T!Goes, Uses
<1> QED
  BY <1>6, <1>7, <1>8

(* The confirmed answer is checked against the account as it is now.       *)
LEMMA CheckStep == ASSUME BotInv, T!Check PROVE BotInv'
<1>1. UNCHANGED <<time, bound, admins, codes, actions, shown, sent, inbox, batch, doors, changes>>
  BY DEF T!Check, T!users, T!tables, T!chats, T!server, T!bounds, T!Finish, T!Goes
<1>2. CASE at' = "poll"
  BY <1>1, <1>2, IdleStep DEF BotInv, BotTypes
<1>3. CASE /\ T!MayUnlock(current.account, pending.token)
           /\ at' = "unlock" /\ UNCHANGED <<current, pending>>
  <2>1. BotTypes'
    BY <1>1, <1>3 DEF T!Check, BotInv, BotTypes, Consuming, Pending
  <2>2. Handled'
    BY <1>1, <1>3 DEF T!Check, BotInv, Handled, Pending, T!MayUnlock
  <2>3. Unlocked' /\ T!OneUnlockPerAnswer' /\ \A t \in DOMAIN actions' : Follows(actions', t)
    BY <1>1 DEF BotInv, Unlocked, T!OneUnlockPerAnswer
  <2> QED
    BY <2>1, <2>2, <2>3 DEF BotInv
<1> QED
  BY <1>2, <1>3 DEF T!Check, T!Finish, T!Goes

(* The door is unlocked for the answer that was checked.                   *)
LEMMA UnlockStep == ASSUME BotInv, T!Unlock PROVE BotInv'
<1> DEFINE a == current.account
           t == pending.token
           ent == bound[a] = actions[t].user /\ bound[a] \in admins
           chg == changes # pending.from
           x == [token |-> t, account |-> a, user |-> actions[t].user, entitled |-> ent, changed |-> chg]
           Unlocks == [token : Nat, account : Accounts, user : Users, entitled : BOOLEAN, changed : BOOLEAN]
           n == Len(doors)
<1>1. /\ t \in DOMAIN actions /\ t \in Nat /\ a \in Accounts /\ actions[t].used
      /\ actions[t].kind = "unlock" /\ actions[t].account = a
      /\ \A i \in DOMAIN doors : doors[i].token # t
      /\ ent \/ chg
  BY DEF BotInv, BotTypes, Handled, T!Unlock, Fitting, Updates, Pending, T!MayUnlock
<1>2. actions[t] \in Actions
  BY <1>1, ElementOfSeq, LenProperties DEF BotInv, BotTypes
<1>3. actions[t].user \in Users
  BY <1>2 DEF Actions
<1>a. ent \in BOOLEAN /\ chg \in BOOLEAN
  OBVIOUS
<1>4. doors' = Append(doors, x)
  BY DEF T!Unlock
<1> HIDE DEF ent, chg
<1>5. x \in Unlocks
  BY <1>1, <1>3, <1>a, Zenon
<1>6. x.token = t /\ x.account = a /\ (x.entitled \/ x.changed)
  BY <1>1
<1> HIDE DEF x
<1>7. doors \in Seq(Unlocks) /\ \A i \in DOMAIN doors : Doors(doors[i], actions)
  BY DEF BotInv, Unlocked
<1> HIDE DEF Unlocks
<1>8. /\ doors' \in Seq(Unlocks) /\ Len(doors') = n + 1 /\ doors'[n + 1] = x
      /\ \A i \in 1 .. n : doors'[i] = doors[i]
  BY <1>4, <1>5, <1>7, AppendProperties
<1>9. DOMAIN doors = 1 .. n /\ n \in Nat /\ DOMAIN doors' = 1 .. n + 1
  BY <1>7, <1>8, LenProperties
<1> HIDE DEF n
<1>10. /\ DOMAIN doors' = DOMAIN doors \cup {n + 1}
       /\ \A i \in DOMAIN doors : doors'[i] = doors[i]
  BY <1>8, <1>9
<1>11. UNCHANGED <<time, bound, admins, codes, actions, shown, sent, inbox, batch, changes>> /\ at' = "poll"
  BY DEF T!Unlock, T!users, T!tables, T!chats, T!server, T!bounds, T!Finish
<1>12. Doors(x, actions)
  BY <1>1, <1>6 DEF Doors
<1>13. Unlocked'
  BY <1>7, <1>8, <1>10, <1>11, <1>12 DEF Unlocked, Unlocks
<1>14. T!OneUnlockPerAnswer'
  BY <1>1, <1>6, <1>8, <1>10 DEF BotInv, T!OneUnlockPerAnswer
<1>15. BotTypes' /\ Handled'
  BY <1>11 DEF BotInv, BotTypes, Handled, Consuming, Pending
<1> QED
  BY <1>11, <1>13, <1>14, <1>15 DEF BotInv

(* At first nobody was told anything.                                      *)
LEMMA BotInit == AccountsAreKnown /\ T!Init => BotInv
<1> SUFFICES ASSUME AccountsAreKnown, T!Init PROVE BotInv
  OBVIOUS
<1>1. \A S : <<>> \in Seq(S)
  BY EmptySeq
<1>2. DOMAIN <<>> = {}
  OBVIOUS
<1>3. BotTypes
  BY <1>1, <1>2 DEF T!Init, AccountsAreKnown, BotTypes, Consuming, Pending
<1> QED
  BY <1>1, <1>2, <1>3 DEF T!Init, BotInv, Handled, Unlocked, T!OneUnlockPerAnswer, Pending

(* All steps.                                                              *)
LEMMA BotStep == AccountsAreKnown /\ BotInv /\ [T!Next]_(T!vars) => BotInv'
<1> SUFFICES ASSUME AccountsAreKnown, BotInv, [T!Next]_(T!vars) PROVE BotInv'
  OBVIOUS
<1>1. CASE UNCHANGED T!vars
  BY <1>1 DEF T!vars, T!users, T!tables, T!chats, T!server, T!poller, T!worker, T!bounds, BotInv, BotTypes, Handled,
              T!MayUnlock, Unlocked, T!OneUnlockPerAnswer
<1> QED
  BY <1>1, TickStep, ChangeStep, RingStep, CrashStep, GetStep, TakeStep, PairingStep, ConsumeStep,
     AskStep, CheckStep, UnlockStep, CodeStep, TypeStep, PressStep, TellStep DEF T!Next

(* A door opens once for a confirmed answer of an account that may open    *)
(* it, and after the same account answered the doorbell, whatever is       *)
(* delivered again after a restart (telegram/service.go: processCallback;  *)
(* actions.go: Consume).                                                   *)
THEOREM UnlocksAreConfirmed ==
    ASSUME AccountsAreKnown
    PROVE  T!Spec => []UnlockPerConfirmation
<1>1. BotInv => UnlockPerConfirmation
  <2> SUFFICES ASSUME BotInv, NEW i \in DOMAIN doors
               PROVE  /\ doors[i].entitled \/ doors[i].changed
                      /\ \E p \in 1 .. doors[i].token - 1 : Asked(actions, p, doors[i].account)
    BY DEF BotInv, UnlockPerConfirmation, T!UnlockPerConfirmation, T!UnlockWasConfirmed, Asked
  <2>1. Doors(doors[i], actions) /\ Follows(actions, doors[i].token)
    BY DEF BotInv, Unlocked, Doors
  <2> QED
    BY <2>1 DEF Doors, Follows
<1>2. T!Init => BotInv
  BY BotInit
<1>3. BotInv /\ [T!Next]_(T!vars) => BotInv'
  BY BotStep
<1> QED
  BY <1>1, <1>2, <1>3, PTL DEF T!Spec

-----------------------------------------------------------------------------
(* What the proof takes of the constants.                                    *)
StationIsKnown == IsFiniteSet(StateKeys) /\ TTL \in Nat

Heard == [seq : Nat, at : Nat, ahead : BOOLEAN, heard : BOOLEAN]
Buttons == [kind : {"button"}, press : Nat]
States == [kind : {"state"}, key : StateKeys, seq : Nat, seen : Nat \X Nat]
Acks == [kind : {"ack"}, request : Requests, accepted : BOOLEAN]
Results == [kind : {"result"}, request : Requests, success : BOOLEAN]
Mail == Buttons \cup States \cup Acks \cup Results
Observed == [lastButton : Nat, lastAt : Nat, seq : [StateKeys -> Nat], seen : [StateKeys -> Nat \X Nat]]
Rows == [status : {"none", "pending", "acknowledged", "rejected", "completed", "publish_failed"}, expires : Nat]
Calling == {"idle", "publish", "mark", "done", "failed", "died"}

StationTypes ==
    /\ now \in Nat /\ numbered \in BOOLEAN /\ timed \in BOOLEAN /\ button \in Nat /\ boots \in Nat
    /\ cuts \in Nat /\ failures \in Nat /\ session \in BOOLEAN
    /\ reports \in [StateKeys -> Nat]
    /\ retained \in [StateKeys -> States \cup {I!Unreported}]
    /\ queue \in Seq(Mail) /\ handled \in 0 .. Len(queue)
    /\ link = "down" => handled = 0
    /\ ringing \in Nat
    /\ stored \in Observed
    /\ commands \in [Requests -> Rows] /\ unlocks \in [Requests -> Calling]
    /\ wire \subseteq Requests
    /\ presses \in Seq(Heard) /\ rung \in Seq(Nat)

(* Presses are queued in the order in which they were made, each once; the   *)
(* one that is to be announced is the next.                                  *)
InOrder ==
    /\ \A n \in 1 .. Len(queue) : queue[n].kind = "button" =>
         /\ queue[n].press \in 1 .. Len(presses)
         /\ \A m \in 1 .. n - 1 : queue[m].kind = "button" => queue[m].press < queue[n].press
    /\ ringing # 0 => /\ link # "down" /\ handled < Len(queue)
                      /\ queue[handled + 1].kind = "button" /\ queue[handled + 1].press = ringing

(* The press was handled as one of that time.                                *)
Given(i, t) == <<i, t>> \in taken
(* It was handled as one of the time of another; as one of a time that       *)
(* another was not, or, without dates, as one of two times.                  *)
Alike(i, j) == \E x \in taken : x[1] = i /\ <<j, x[2]>> \in taken
Varied(i) == \E x, y \in taken : x[1] = i /\ x[2] # y[2] /\ (timed <=> y[1] # i)

(* A press is announced, is about to be, or has met what keeps it from that. *)
Announced(i) == I!Rang(i) \/ ringing = i
Explained(i) ==
    \/ Announced(i) \/ presses[i].ahead \/ ~presses[i].heard \/ i \in broken
    \/ \E j \in (1 .. Len(presses)) \ {i} :
         IF numbered THEN j < i /\ presses[j].seq >= presses[i].seq
         ELSE Alike(i, j)
Waits(i) == \E n \in handled + 1 .. Len(queue) : queue[n].kind = "button" /\ queue[n].press = i
(* The handler never saw it: what it counted, it counted of earlier presses. *)
Fresh(i) ==
    /\ Waits(i)
    /\ stored.lastButton > 0 => \E j \in 1 .. i - 1 : presses[j].seq = stored.lastButton
Excused(i) == ~numbered /\ cuts > 0 /\ Varied(i)

(* A dated press is given its date each time; the others are given times     *)
(* that grow.                                                                *)
Taking ==
    /\ \A i \in 1 .. Len(presses) : presses[i].at # 0 <=> timed
    /\ timed => \A x \in taken : x[1] \in 1 .. Len(presses) /\ x[2] = presses[x[1]].at
    /\ ~timed /\ ~numbered => /\ stored.lastAt <= now + 1
                              /\ \A x \in taken : x[2] \in 0 .. stored.lastAt

PressInv ==
    /\ \A i \in 1 .. Len(presses) : presses[i].seq > 0 <=> numbered
    /\ \A n \in 1 .. Len(rung) : rung[n] \in 1 .. Len(presses)
    /\ stored.lastButton > 0 => \E j \in 1 .. Len(presses) : presses[j].seq = stored.lastButton
    /\ stored.lastAt # 0 => \E j \in 1 .. Len(presses) :
         Given(j, stored.lastAt) /\ (Announced(j) \/ j \in broken)
    /\ \A i \in 1 .. Len(presses) :
         /\ Announced(i) => stored.lastAt # 0 /\ presses[i].seq <= stored.lastButton
         /\ Announced(i) => \E t : Given(i, t)
         /\ cuts = 0 /\ I!Rang(i) => ~Waits(i)
         /\ I!RangTwice(i) \/ (I!Rang(i) /\ ringing = i) => Excused(i)
         /\ Explained(i) \/ Fresh(i)

(* What the queue says of a request.                                         *)
Speaks(n, r) == queue[n].kind \in {"ack", "result"} /\ queue[n].request = r
Opens(n, r) == queue[n].kind = "result" /\ queue[n].request = r
Refuses(n, r) == queue[n].kind = "ack" /\ queue[n].request = r /\ ~queue[n].accepted
Late(r) == now > commands[r].expires
(* The answer that will complete the row is on its way, and nothing before   *)
(* it rejects the command.                                                   *)
Underway(r) == \E n \in handled + 1 .. Len(queue) : Opens(n, r) /\ \A m \in 1 .. n - 1 : ~Refuses(m, r)
Due(r) == commands[r].status \in {"pending", "acknowledged"} /\ Underway(r)
(* What is said is true, of a device that was not restarted.                 *)
Said(r) ==
    \A n \in 1 .. Len(queue) :
       /\ Speaks(n, r) => unlocks[r] # "idle"
       /\ Opens(n, r) /\ queue[n].success => r \in opened
       /\ boots = 0 => /\ Opens(n, r) => r \in served
                       /\ Opens(n, r) /\ ~queue[n].success => r \notin opened
                       /\ Refuses(n, r) => r \in served \/ Late(r)
RequestInv(r) ==
    /\ commands[r].status = "none" <=> unlocks[r] = "idle"
    /\ unlocks[r] = "idle" => r \notin wire /\ r \notin opened
    /\ unlocks[r] = "mark" \/ commands[r].status = "publish_failed" => r \in broken
    /\ commands[r].status = "completed" => r \in opened
    /\ Said(r)
    /\ boots = 0 => /\ r \in opened => r \in served
                    /\ commands[r].status = "rejected" => r \in served \/ Late(r)
    /\ r \in opened => \/ commands[r].status = "completed" \/ Late(r) \/ Due(r)
                       \/ r \in broken \/ r \in unheard \/ boots > 0
CommandInv == \A r \in Requests : RequestInv(r)

(* A step that drops d messages, one that was handled, and brings none of r. *)
Carried(d, r) ==
    /\ Len(queue') \in Nat /\ Len(queue) <= Len(queue') + d
    /\ \A n \in 1 .. Len(queue') :
         IF n + d <= Len(queue) THEN queue'[n] = queue[n + d]
         ELSE ~(queue'[n].kind \in {"ack", "result"} /\ queue'[n].request = r)
    /\ handled' \in Nat /\ handled' + d <= handled + 1
    /\ handled' + d = handled + 1 => ~Opens(handled + 1, r)

-----------------------------------------------------------------------------
(* What a message is, its kind tells.                                        *)
LEMMA MailKinds ==
    ASSUME NEW m \in Mail
    PROVE  /\ m.kind = "button" <=> m \in Buttons
           /\ m.kind = "state" <=> m \in States
           /\ m.kind = "ack" <=> m \in Acks
           /\ m.kind = "result" <=> m \in Results
           /\ m.kind \in {"button", "state", "ack", "result"}
BY DEF Mail, Buttons, States, Acks, Results

(* Messages that come behind those in a queue.                               *)
LEMMA QueueGrows ==
    ASSUME NEW q \in Seq(Mail), NEW ms \in Seq(Mail)
    PROVE  /\ q \o ms \in Seq(Mail) /\ Len(q \o ms) = Len(q) + Len(ms)
           /\ Len(q) \in Nat /\ Len(ms) \in Nat
           /\ \A n \in 1 .. Len(q) : (q \o ms)[n] = q[n]
           /\ \A n \in Len(q) + 1 .. Len(q) + Len(ms) :
                /\ n - Len(q) \in 1 .. Len(ms) /\ (q \o ms)[n] = ms[n - Len(q)]
<1>1. Len(q) \in Nat /\ Len(ms) \in Nat
  BY LenProperties
<1> QED
  BY <1>1, ConcatProperties

(* The message that was handled leaves the queue, or stays to be handled     *)
(* again; behind it nothing moves.                                           *)
LEMMA DoneIs ==
    ASSUME StationTypes, handled < Len(queue), I!Done
    PROVE  /\ queue' \in Seq(Mail) /\ handled' \in 0 .. Len(queue')
           /\ \E d \in {0, 1} :
                /\ Len(queue') = Len(queue) - d /\ handled' = handled + 1 - d
                /\ \A n \in 1 .. Len(queue') : queue'[n] = queue[n + d]
           /\ UNCHANGED <<retained, wire, link, session>>
<1>1. Len(queue) \in Nat /\ queue \in Seq(Mail) /\ handled \in Nat
  BY LenProperties DEF StationTypes
<1>2. CASE handled = 0 /\ queue' = Tail(queue) /\ handled' = handled
  <2>1. queue # <<>>
    BY <1>1, <1>2, EmptySeq
  <2>2. /\ queue' \in Seq(Mail) /\ Len(queue') = Len(queue) - 1
        /\ \A n \in 1 .. Len(queue') : queue'[n] = queue[n + 1]
    BY <1>1, <1>2, <2>1, HeadTailProperties
  <2> QED
    BY <1>1, <1>2, <2>2 DEF I!Done
<1>3. CASE handled' = handled + 1 /\ queue' = queue
  BY <1>1, <1>3 DEF I!Done
<1> QED
  BY <1>2, <1>3 DEF I!Done

(* What the broker has retained it sends in some order.                      *)
LEMMA RetainedAreSent ==
    ASSUME StationIsKnown, StationTypes, NEW ms \in I!SetToSeqs(I!Kept)
    PROVE  ms \in Seq(States)
<1> DEFINE all == {retained[k] : k \in StateKeys}
<1>1. I!Kept \subseteq States /\ I!Kept \subseteq all
  BY DEF I!Kept, StationTypes
<1>2. IsFiniteSet(all)
  <2>1. retained \in Surjection(StateKeys, all)
    BY DEF Surjection, StationTypes
  <2> QED
    BY <2>1, FS_Surjection DEF StationIsKnown
<1> HIDE DEF all
<1>3. Cardinality(I!Kept) \in Nat
  BY <1>1, <1>2, FS_Subset, FS_CardinalityType
<1>4. ms \in [1 .. Cardinality(I!Kept) -> I!Kept]
  BY DEF I!SetToSeqs, I!Cardinality, Cardinality
<1> QED
  BY <1>1, <1>3, <1>4, SeqDef

(* What the device sends, the broker keeps if it has a session for it.       *)
LEMMA SentIs ==
    ASSUME StationTypes, NEW ms \in Seq(Mail), I!Sent(ms)
    PROVE  /\ queue' \in Seq(Mail) /\ Len(queue) \in Nat /\ Len(queue') \in Nat
           /\ Len(queue') = IF session THEN Len(queue) + Len(ms) ELSE Len(queue)
           /\ \A n \in 1 .. Len(queue) : queue'[n] = queue[n]
           /\ \A n \in Len(queue) + 1 .. Len(queue') :
                n - Len(queue) \in 1 .. Len(ms) /\ queue'[n] = ms[n - Len(queue)]
<1>1. Len(queue) \in Nat /\ queue \in Seq(Mail) /\ Len(ms) \in Nat
  BY LenProperties DEF StationTypes
<1>2. CASE session
  <2>1. queue' = queue \o ms
    BY <1>2 DEF I!Sent
  <2> QED
    BY <1>1, <1>2, <2>1, QueueGrows
<1>3. CASE ~session
  BY <1>1, <1>3 DEF I!Sent
<1> QED
  BY <1>2, <1>3

(* A subscription has the broker send what it retained: states.              *)
LEMMA SubscribeIs ==
    ASSUME StationIsKnown, StationTypes, I!Subscribe
    PROVE  /\ queue' \in Seq(Mail) /\ Len(queue) \in Nat /\ Len(queue') \in Nat /\ Len(queue) <= Len(queue')
           /\ \A n \in 1 .. Len(queue) : queue'[n] = queue[n]
           /\ \A n \in Len(queue) + 1 .. Len(queue') : queue'[n] \in States
<1>1. Len(queue) \in Nat /\ queue \in Seq(Mail)
  BY LenProperties DEF StationTypes
<1>2. CASE queue' = queue
  BY <1>1, <1>2
<1>3. ASSUME NEW ms \in I!SetToSeqs(I!Kept), queue' = queue \o ms
      PROVE  /\ queue' \in Seq(Mail) /\ Len(queue') \in Nat /\ Len(queue) <= Len(queue')
             /\ \A n \in 1 .. Len(queue) : queue'[n] = queue[n]
             /\ \A n \in Len(queue) + 1 .. Len(queue') : queue'[n] \in States
  <2>1. ms \in Seq(States) /\ ms \in Seq(Mail)
    BY <1>3, RetainedAreSent, SeqMonotonic DEF Mail
  <2>2. \A n \in 1 .. Len(ms) : ms[n] \in States
    BY <2>1, ElementOfSeq
  <2> QED
    BY <1>1, <1>3, <2>1, <2>2, QueueGrows
<1> QED
  BY <1>1, <1>2, <1>3 DEF I!Subscribe

(* What is not the press of a button keeps the order.                        *)
LEMMA OrderStays ==
    ASSUME StationTypes, InOrder, UNCHANGED <<presses, ringing>>, ringing # 0 => handled' = handled /\ link' # "down",
           Len(queue') \in Nat, Len(queue) <= Len(queue'),
           \A n \in 1 .. Len(queue) : queue'[n] = queue[n],
           \A n \in Len(queue) + 1 .. Len(queue') : queue'[n].kind # "button"
    PROVE  InOrder'
<1>1. Len(queue) \in Nat /\ handled \in Nat
  BY LenProperties DEF StationTypes
<1>2. ASSUME NEW n \in 1 .. Len(queue'), queue'[n].kind = "button"
      PROVE  /\ queue'[n].press \in 1 .. Len(presses)
             /\ \A m \in 1 .. n - 1 : queue'[m].kind = "button" => queue'[m].press < queue'[n].press
  <2>1. n \in 1 .. Len(queue) /\ queue'[n] = queue[n]
    BY <1>1, <1>2
  <2>2. \A m \in 1 .. n - 1 : queue'[m] = queue[m]
    BY <1>1, <2>1
  <2> QED
    BY <1>2, <2>1, <2>2 DEF InOrder
<1>3. ASSUME ringing' # 0
      PROVE  /\ link' # "down" /\ handled' < Len(queue')
             /\ queue'[handled' + 1].kind = "button" /\ queue'[handled' + 1].press = ringing'
  <2>1. ringing # 0 /\ handled' = handled /\ link' # "down" /\ ringing' = ringing
    BY <1>3
  <2>2. handled + 1 \in 1 .. Len(queue)
    BY <1>1, <2>1 DEF InOrder
  <2>3. queue'[handled + 1] = queue[handled + 1]
    BY <2>2
  <2> QED
    BY <1>1, <2>1, <2>2, <2>3 DEF InOrder
<1>4. presses' = presses
  OBVIOUS
<1> QED
  BY <1>2, <1>3, <1>4 DEF InOrder

(* So does the acknowledgement of a message.                                 *)
LEMMA OrderPasses ==
    ASSUME StationTypes, InOrder, handled < Len(queue), I!Done, presses' = presses, ringing' = 0
    PROVE  InOrder'
<1>1. Len(queue) \in Nat /\ handled \in Nat
  BY LenProperties DEF StationTypes
<1>2. PICK d \in {0, 1} :
        /\ Len(queue') = Len(queue) - d
        /\ \A n \in 1 .. Len(queue') : queue'[n] = queue[n + d]
  BY DoneIs
<1>3. ASSUME NEW n \in 1 .. Len(queue'), queue'[n].kind = "button"
      PROVE  /\ queue'[n].press \in 1 .. Len(presses)
             /\ \A m \in 1 .. n - 1 : queue'[m].kind = "button" => queue'[m].press < queue'[n].press
  <2>1. n + d \in 1 .. Len(queue) /\ queue'[n] = queue[n + d]
    BY <1>1, <1>2
  <2>2. \A m \in 1 .. n - 1 : m + d \in 1 .. (n + d) - 1 /\ queue'[m] = queue[m + d]
    BY <1>1, <1>2
  <2> QED
    BY <1>3, <2>1, <2>2 DEF InOrder
<1> QED
  BY <1>3 DEF InOrder

(* The device answers with acks and results.                                 *)
LEMMA AnswersAre ==
    ASSUME NEW r \in Requests, I!Execute(r)
    PROVE  \E ms \in Seq(Acks \cup Results) : I!Sent(ms) /\ \A n \in 1 .. Len(ms) : ms[n].request = r
<1>1. ASSUME NEW a \in Acks, a.request = r, NEW b \in Results, b.request = r
      PROVE  /\ <<a, b>> \in Seq(Acks \cup Results) /\ <<a>> \in Seq(Acks \cup Results)
             /\ \A n \in 1 .. Len(<<a, b>>) : <<a, b>>[n].request = r
             /\ \A n \in 1 .. Len(<<a>>) : <<a>>[n].request = r
  <2>1. /\ <<a, b>> \in Seq(Acks \cup Results) /\ Len(<<a, b>>) = 2 /\ <<a, b>>[1] = a /\ <<a, b>>[2] = b
        /\ <<a>> \in Seq(Acks \cup Results) /\ Len(<<a>>) = 1 /\ <<a>>[1] = a
    OBVIOUS
  <2> QED
    BY <1>1, <2>1
<1>2. ASSUME NEW works \in BOOLEAN
      PROVE  /\ [kind |-> "ack", request |-> r, accepted |-> works] \in Acks
             /\ [kind |-> "result", request |-> r, success |-> works] \in Results
  BY DEF Acks, Results
<1>3. CASE \E works \in BOOLEAN : I!Sent(<<[kind |-> "ack", request |-> r, accepted |-> TRUE],
                                        [kind |-> "result", request |-> r, success |-> works]>>)
  BY <1>1, <1>2, <1>3
<1>4. CASE I!Sent(<<[kind |-> "ack", request |-> r, accepted |-> FALSE]>>)
  BY <1>1, <1>2, <1>4
<1> QED
  BY <1>3, <1>4 DEF I!Execute

(* Types and order, whatever is done.                                        *)
LEMMA StationStep ==
    ASSUME StationIsKnown, StationTypes, InOrder, [I!Next]_(I!vars)
    PROVE  StationTypes' /\ InOrder'
<1>0. Len(queue) \in Nat /\ queue \in Seq(Mail) /\ handled \in Nat /\ Len(presses) \in Nat
  BY LenProperties DEF StationTypes
<1>a. \A n \in 1 .. Len(queue) : queue[n] \in Mail
  BY <1>0, ElementOfSeq
<1>b. I!Delivered => /\ handled + 1 \in 1 .. Len(queue) /\ I!Message = queue[handled + 1] /\ I!Message \in Mail
                   /\ ringing = 0 /\ handled < Len(queue) /\ link # "down"
  BY <1>0, <1>a DEF I!Delivered, I!Message, I!None
<1>c. \A ps \in Seq(Heard) : \A i \in 1 .. Len(ps) : ps[i] \in Heard
  BY ElementOfSeq
<1>1. CASE UNCHANGED I!vars \/ I!Tick
  <2>1. UNCHANGED <<I!device, I!broker, I!service, I!history, I!bounds>>
    BY <1>1 DEF I!vars, I!Tick
  <2>2. StationTypes'
    BY <1>1, <2>1 DEF I!vars, I!Tick, I!device, I!broker, I!service, I!history, I!bounds, StationTypes
  <2> QED
    BY <1>0, <2>1, <2>2, OrderStays DEF I!broker, I!service, I!history, InOrder
<1>2. CASE I!Restart
  <2>1. StationTypes'
    <3>1. /\ boots' = boots + 1 /\ button' = 0 /\ reports' = [k \in StateKeys |-> 0]
          /\ UNCHANGED <<now, numbered, timed, I!broker, I!service, I!history, I!bounds>>
      BY <1>2 DEF I!Restart
    <3> QED
      BY <3>1 DEF I!broker, I!service, I!history, I!bounds, StationTypes
  <2> QED
    BY <1>0, <1>2, <2>1, OrderStays DEF I!Restart, I!broker, I!service, I!history, InOrder
<1>3. CASE I!Connect \/ I!Cut
  <2>0. /\ handled' = 0 /\ UNCHANGED <<now, I!device, retained, wire, queue, session, I!service, I!history>>
        /\ cuts' \in Nat /\ failures' = failures
    BY <1>3 DEF I!Connect, I!Cut, I!bounds, StationTypes
  <2>1. StationTypes'
    BY <1>0, <2>0 DEF I!device, I!service, I!history, StationTypes
  <2>2. ringing = 0
    BY <1>3 DEF I!Connect, I!Cut, InOrder, I!None
  <2>3. UNCHANGED <<queue, presses, ringing>>
    BY <2>0 DEF I!service, I!history
  <2> QED
    BY <1>0, <2>1, <2>2, <2>3, OrderStays
<1>4. CASE I!Subscribe
  <2>1. UNCHANGED <<now, I!device, retained, wire, handled, I!service, I!history, I!bounds>> /\ session' \in BOOLEAN
        /\ link = "up" /\ link' = "subscribed"
    BY <1>4 DEF I!Subscribe, StationTypes
  <2>4. queue' \in Seq(Mail) /\ Len(queue) <= Len(queue') /\ Len(queue') \in Nat
    BY <1>4, SubscribeIs
  <2>2. StationTypes'
    BY <1>0, <2>1, <2>4 DEF I!device, I!service, I!history, I!bounds, StationTypes
  <2>3. \A n \in Len(queue) + 1 .. Len(queue') : queue'[n].kind # "button"
    BY <1>4, SubscribeIs DEF States
  <2> QED
    BY <1>0, <1>4, <2>1, <2>2, <2>3, <2>4, SubscribeIs, OrderStays DEF I!service, I!history, InOrder
<1>5. CASE I!Crash
  <2>1. StationTypes'
    BY <1>0, <1>5 DEF I!Crash, I!device, StationTypes, Calling, I!None
  <2> QED
    BY <1>0, <1>5, <2>1 DEF I!Crash, InOrder, I!None
<1>6. CASE I!IngestButton
  <2> DEFINE p == presses[I!Message.press]
             e == IF p.seq > stored.lastButton THEN p.seq ELSE stored.lastButton
  <2>1. I!Delivered /\ I!Message \in Buttons /\ I!Message.press \in 1 .. Len(presses)
    BY <1>6, <1>b, MailKinds DEF I!IngestButton, InOrder
  <2>2. /\ UNCHANGED <<now, I!device, presses, rung, commands, unlocks, wire, retained, link, session>>
        /\ cuts' = cuts /\ failures' \in Nat
        /\ \/ I!Done /\ UNCHANGED <<ringing, stored>>
           \/ /\ ringing' = I!Message.press /\ UNCHANGED <<queue, handled>>
              /\ stored' = [stored EXCEPT !.lastAt = I!At(p), !.lastButton = e]
    <3>1. UNCHANGED <<now, I!device, presses, rung>>
      BY <1>6 DEF I!IngestButton
    <3>2. \/ I!Done /\ UNCHANGED <<I!service, broken, I!bounds>>
          \/ /\ stored' = [stored EXCEPT !.lastAt = I!At(p), !.lastButton = e]
             /\ ringing' = I!Message.press
             /\ UNCHANGED <<I!broker, commands, unlocks, broken, I!bounds>>
          \/ I!FailsFor(I!Message.press) /\ I!Done /\ UNCHANGED I!service
      BY <1>6 DEF I!IngestButton
    <3> QED
      BY <3>1, <3>2 DEF I!Done, I!service, I!broker, I!bounds, I!FailsFor, I!Fails, StationTypes
  <2>3. p \in Heard /\ e \in Nat
    BY <1>c, <2>1 DEF StationTypes, Heard, Observed
  <2>4. CASE I!Done /\ UNCHANGED <<ringing, stored>>
    <3>1. StationTypes'
      BY <1>b, <2>1, <2>2, <2>4, DoneIs DEF StationTypes, I!device
    <3> QED
      BY <1>b, <2>1, <2>2, <2>4, <3>1, OrderPasses
  <2>5. CASE /\ ringing' = I!Message.press /\ UNCHANGED <<queue, handled>>
             /\ stored' = [stored EXCEPT !.lastAt = I!At(p), !.lastButton = e]
    <3>5. I!At(p) \in Nat
      BY <2>3 DEF StationTypes, Heard, I!At, I!None
    <3>1. stored' \in Observed
      BY <2>3, <2>5, <3>5 DEF StationTypes, Observed, Heard
    <3>4. I!Message.press \in Nat
      BY <2>1 DEF Buttons
    <3> HIDE DEF p, e
    <3>2. StationTypes'
      <4>1. /\ UNCHANGED <<now, numbered, timed, button, reports, boots, presses, rung, commands, unlocks, wire, retained,
                           link, session, cuts, queue, handled>>
            /\ failures' \in Nat /\ ringing' \in Nat
        BY <2>2, <2>5, <3>4 DEF I!device
      <4> QED
        BY <3>1, <4>1 DEF StationTypes
    <3>3. InOrder'
      <4>1. queue[handled + 1].kind = "button" /\ queue[handled + 1].press = I!Message.press
        BY <1>b, <2>1 DEF Buttons
      <4>2. UNCHANGED <<queue, handled, presses, link>> /\ ringing' = I!Message.press
        BY <2>2, <2>5
      <4> QED
        BY <1>b, <2>1, <4>1, <4>2 DEF InOrder
    <3> QED
      BY <3>2, <3>3
  <2> QED
    BY <2>2, <2>4, <2>5
<1>7. CASE I!PublishButton
  <2>1. /\ ringing # 0 /\ ringing' = 0 /\ rung' = Append(rung, ringing) /\ I!Done
        /\ UNCHANGED <<now, I!device, stored, commands, unlocks, presses, broken, I!bounds>>
    BY <1>7 DEF I!PublishButton, I!None
  <2>2. handled < Len(queue) /\ link # "down"
    BY <2>1 DEF InOrder
  <2>3. rung' \in Seq(Nat)
    BY <2>1, AppendProperties DEF StationTypes
  <2>4. StationTypes'
    BY <2>1, <2>2, <2>3, DoneIs DEF StationTypes, I!device, I!bounds
  <2> QED
    BY <2>1, <2>2, <2>4, OrderPasses
<1>8. CASE I!IngestState
  <2> DEFINE m == I!Message
             n == IF m.seq > stored.seq[m.key] THEN m.seq ELSE stored.seq[m.key]
  <2>1. /\ I!Delivered /\ m \in States /\ I!Done
        /\ UNCHANGED <<now, I!device, ringing, commands, unlocks, I!history>> /\ cuts' = cuts /\ failures' \in Nat
    BY <1>8, <1>b, MailKinds DEF I!IngestState, I!Fails, I!bounds, StationTypes
  <2>2. stored' = stored \/ stored' = [stored EXCEPT !.seq[m.key] = n, !.seen[m.key] = m.seen]
    BY <1>8 DEF I!IngestState
  <2>3. m.key \in StateKeys /\ m.seen \in Nat \X Nat /\ n \in Nat
    BY <2>1 DEF States, StationTypes, Observed
  <2> HIDE DEF m, n
  <2>4. stored' \in Observed
    <3>1. stored.seq \in [StateKeys -> Nat] /\ stored.seen \in [StateKeys -> Nat \X Nat]
      BY DEF StationTypes, Observed
    <3>2. [stored.seq EXCEPT ![m.key] = n] \in [StateKeys -> Nat]
      BY <2>3, <3>1
    <3>3. [stored.seen EXCEPT ![m.key] = m.seen] \in [StateKeys -> Nat \X Nat]
      BY <2>3, <3>1
    <3>4. [stored EXCEPT !.seq[m.key] = n, !.seen[m.key] = m.seen]
            = [stored EXCEPT !.seq = [stored.seq EXCEPT ![m.key] = n],
                             !.seen = [stored.seen EXCEPT ![m.key] = m.seen]]
      BY DEF StationTypes, Observed
    <3> QED
      BY <2>2, <3>2, <3>3, <3>4 DEF StationTypes, Observed
  <2>5. StationTypes'
    BY <1>b, <2>1, <2>4, DoneIs DEF StationTypes, I!device, I!history
  <2> QED
    BY <1>b, <2>1, <2>5, OrderPasses DEF I!history
<1>9. CASE I!UpdateAck \/ I!UpdateResult
  <2>1. /\ I!Delivered /\ I!Message.request \in Requests /\ I!Done
        /\ UNCHANGED <<now, I!device, ringing, stored, unlocks, presses, rung>> /\ cuts' = cuts /\ failures' \in Nat
    BY <1>9, <1>b, MailKinds DEF I!UpdateAck, I!UpdateResult, I!FailsFor, I!Fails, I!bounds, StationTypes, Acks, Results
  <2>2. \/ commands' = commands
        \/ \E to \in {"acknowledged", "rejected", "completed"} :
             commands' = [commands EXCEPT ![I!Message.request].status = to]
    BY <1>9 DEF I!UpdateAck, I!UpdateResult, I!Moves
  <2>3. commands' \in [Requests -> Rows]
    BY <2>1, <2>2 DEF StationTypes, Rows
  <2>4. StationTypes'
    BY <1>b, <2>1, <2>3, DoneIs DEF StationTypes, I!device
  <2> QED
    BY <1>b, <2>1, <2>4, OrderPasses
<1>10. ASSUME NEW ahead \in BOOLEAN, I!Press(ahead) PROVE StationTypes' /\ InOrder'
  <2> DEFINE i == Len(presses) + 1
             p == [seq |-> I!Number(button + 1), at |-> IF timed THEN now + 1 ELSE I!None, ahead |-> ahead, heard |-> session]
             b == [kind |-> "button", press |-> i]
  <2>1. p \in Heard /\ b \in Buttons /\ b.kind = "button" /\ b.press = i
    BY <1>0 DEF Heard, Buttons, I!Number, I!None, StationTypes
  <2>2. /\ presses' = Append(presses, p) /\ button' = button + 1 /\ I!Sent(<<b>>)
        /\ UNCHANGED <<now, numbered, timed, reports, boots, served, opened, unheard, retained, wire, handled, link, session,
                   I!service, rung, taken, broken, I!bounds>>
    BY <1>10 DEF I!Press
  <2> HIDE DEF p, b
  <2>3. <<b>> \in Seq(Mail) /\ Len(<<b>>) = 1 /\ <<b>>[1] = b
    BY <2>1 DEF Mail
  <2>4. presses' \in Seq(Heard) /\ Len(presses') = i
    BY <2>1, <2>2, AppendProperties DEF StationTypes
  <2>a. /\ queue' \in Seq(Mail) /\ Len(queue') \in Nat
        /\ Len(queue') = IF session THEN Len(queue) + Len(<<b>>) ELSE Len(queue)
        /\ \A n \in 1 .. Len(queue) : queue'[n] = queue[n]
        /\ \A n \in Len(queue) + 1 .. Len(queue') :
                n - Len(queue) \in 1 .. Len(<<b>>) /\ queue'[n] = <<b>>[n - Len(queue)]
    BY <2>2, <2>3, SentIs
  <2>b. handled' \in 0 .. Len(queue')
    BY <1>0, <2>2, <2>3, <2>a DEF StationTypes
  <2>5. StationTypes'
    <3>1. UNCHANGED <<now, numbered, timed, reports, boots, retained, wire, handled, link, session, ringing, stored, commands,
                      unlocks, rung, cuts, failures>> /\ button' = button + 1
      BY <2>2 DEF I!service, I!bounds
    <3> QED
      BY <2>4, <2>a, <2>b, <3>1 DEF StationTypes
  <2>6. \A n \in 1 .. Len(queue) : queue'[n] = queue[n]
    BY <2>a
  <2>7. \A n \in Len(queue) + 1 .. Len(queue') : n = Len(queue) + 1 /\ queue'[n] = b
    <3>1. ASSUME NEW n \in Len(queue) + 1 .. Len(queue') PROVE n = Len(queue) + 1 /\ queue'[n] = b
      <4>1. n - Len(queue) \in 1 .. 1 /\ queue'[n] = <<b>>[n - Len(queue)]
        BY <2>a, <2>3
      <4>2. n - Len(queue) = 1
        BY <1>0, <4>1
      <4> QED
        BY <1>0, <2>3, <2>a, <4>1, <4>2
    <3> QED
      BY <3>1
  <2>8. ringing' = ringing /\ handled' = handled
    BY <2>2 DEF I!service
  <2>9. ASSUME NEW n \in 1 .. Len(queue'), queue'[n].kind = "button"
        PROVE  /\ queue'[n].press \in 1 .. i
               /\ \A m \in 1 .. n - 1 : queue'[m].kind = "button" => queue'[m].press < queue'[n].press
    <3>1. CASE n <= Len(queue)
      <4>1. n \in 1 .. Len(queue) /\ queue'[n] = queue[n]
        BY <1>0, <2>6, <3>1
      <4>2. \A m \in 1 .. n - 1 : m \in 1 .. Len(queue) /\ queue'[m] = queue[m]
        BY <1>0, <2>6, <4>1
      <4>3. queue[n].press \in 1 .. Len(presses)
        BY <2>9, <4>1 DEF InOrder
      <4> QED
        BY <1>0, <2>9, <4>1, <4>2, <4>3 DEF InOrder
    <3>2. CASE n > Len(queue)
      <4>1. n = Len(queue) + 1 /\ queue'[n].press = i
        BY <1>0, <2>1, <2>7, <2>a, <3>2
      <4>2. \A m \in 1 .. Len(queue) : queue'[m].kind = "button" => queue'[m].press < i
        BY <1>0, <2>6 DEF InOrder
      <4> QED
        BY <1>0, <4>1, <4>2
    <3> QED
      BY <1>0, <3>1, <3>2
  <2>10. ASSUME ringing' # 0
         PROVE  /\ link' # "down" /\ handled' < Len(queue')
                /\ queue'[handled' + 1].kind = "button" /\ queue'[handled' + 1].press = ringing'
    <3>1. handled + 1 \in 1 .. Len(queue) /\ link' = link
      BY <1>0, <2>2, <2>8, <2>10 DEF InOrder
    <3> QED
      BY <1>0, <2>6, <2>8, <2>10, <2>a, <2>3, <3>1 DEF InOrder
  <2> QED
    BY <1>0, <2>4, <2>5, <2>9, <2>10 DEF InOrder
<1>11. ASSUME NEW k \in StateKeys, I!Report(k) PROVE StationTypes' /\ InOrder'
  <2> DEFINE m == [kind |-> "state", key |-> k, seq |-> I!Number(reports[k] + 1),
                   seen |-> <<boots, reports[k] + 1>>]
  <2>1. m \in States /\ m.kind = "state"
    BY DEF States, I!Number, StationTypes
  <2>2. /\ reports' = [reports EXCEPT ![k] = @ + 1] /\ retained' = [retained EXCEPT ![k] = m] /\ I!Sent(<<m>>)
        /\ UNCHANGED <<now, numbered, timed, button, boots, served, opened, unheard, wire, handled, link, session,
                   I!service, I!history, cuts, failures>>
    BY <1>11 DEF I!Report
  <2> HIDE DEF m
  <2>3. <<m>> \in Seq(Mail) /\ Len(<<m>>) = 1 /\ <<m>>[1] = m
    BY <2>1 DEF Mail
  <2>a. /\ queue' \in Seq(Mail) /\ Len(queue') \in Nat
        /\ Len(queue') = IF session THEN Len(queue) + Len(<<m>>) ELSE Len(queue)
        /\ \A n \in 1 .. Len(queue) : queue'[n] = queue[n]
        /\ \A n \in Len(queue) + 1 .. Len(queue') :
                n - Len(queue) \in 1 .. Len(<<m>>) /\ queue'[n] = <<m>>[n - Len(queue)]
    BY <2>2, <2>3, SentIs
  <2>b. Len(queue) <= Len(queue') /\ handled' \in 0 .. Len(queue')
    BY <1>0, <2>2, <2>3, <2>a DEF StationTypes
  <2>c. /\ reports' \in [StateKeys -> Nat] /\ retained' \in [StateKeys -> States \cup {I!Unreported}]
    BY <2>1, <2>2 DEF StationTypes
  <2>d. UNCHANGED <<now, numbered, timed, button, boots, wire, handled, link, session, ringing, stored, commands,
                    unlocks, presses, rung, cuts, failures>>
    BY <2>2 DEF I!service, I!history
  <2>4. StationTypes'
    BY <2>a, <2>b, <2>c, <2>d DEF StationTypes
  <2>5. ASSUME NEW n \in Len(queue) + 1 .. Len(queue') PROVE queue'[n].kind # "button"
    <3>1. n - Len(queue) = 1
      BY <1>0, <2>3, <2>a
    <3>2. queue'[n] = m
      BY <2>a, <2>3, <3>1
    <3> QED
      BY <2>1, <3>2
  <2> QED
    BY <2>4, <2>5, <2>a, <2>b, <2>d, OrderStays, <1>0 DEF InOrder
<1>12. ASSUME NEW r \in Requests, I!Execute(r) PROVE StationTypes' /\ InOrder'
  <2>1. /\ wire' \subseteq Requests /\ cuts' = cuts /\ failures' \in Nat
        /\ UNCHANGED <<now, numbered, timed, button, reports, boots, retained, handled, link, session, I!service, I!history>>
    BY <1>12 DEF I!Execute, I!Fails, I!bounds, StationTypes
  <2>2. PICK ms \in Seq(Acks \cup Results) : I!Sent(ms)
    BY <1>12, AnswersAre
  <2>3. ms \in Seq(Mail) /\ \A n \in 1 .. Len(ms) : ms[n] \in Acks \cup Results
    BY SeqMonotonic, ElementOfSeq DEF Mail
  <2>4. Len(ms) \in Nat
    BY LenProperties
  <2>a. /\ queue' \in Seq(Mail) /\ Len(queue') \in Nat
        /\ Len(queue') = IF session THEN Len(queue) + Len(ms) ELSE Len(queue)
        /\ \A n \in 1 .. Len(queue) : queue'[n] = queue[n]
        /\ \A n \in Len(queue) + 1 .. Len(queue') :
                n - Len(queue) \in 1 .. Len(ms) /\ queue'[n] = ms[n - Len(queue)]
    BY <2>2, <2>3, SentIs
  <2>b. Len(queue) <= Len(queue') /\ handled' \in 0 .. Len(queue')
    BY <1>0, <2>1, <2>4, <2>a DEF StationTypes
  <2>d. UNCHANGED <<now, numbered, timed, button, reports, boots, retained, handled, link, session, ringing, stored, commands,
                    unlocks, presses, rung>>
    BY <2>1 DEF I!service, I!history
  <2>5. StationTypes'
    BY <2>1, <2>a, <2>b, <2>d DEF StationTypes
  <2>6. ASSUME NEW n \in Len(queue) + 1 .. Len(queue') PROVE queue'[n].kind # "button"
    <3>1. queue'[n] \in Acks \cup Results
      BY <2>3, <2>a
    <3> QED
      BY <3>1 DEF Acks, Results
  <2> QED
    BY <1>0, <2>5, <2>6, <2>a, <2>b, <2>d, OrderStays DEF InOrder
<1>13. ASSUME NEW r \in Requests, I!CreateCommand(r) \/ I!PublishCommand(r) \/ I!MarkPublishFailed(r)
       PROVE  StationTypes' /\ InOrder'
  <2>1. /\ UNCHANGED <<now, I!device, retained, queue, handled, link, session, ringing, stored, presses, rung>>
        /\ cuts' = cuts /\ failures' \in Nat
    BY <1>13 DEF I!CreateCommand, I!PublishCommand, I!MarkPublishFailed, I!FailsFor, I!Fails, I!broker,
       I!history, I!bounds, StationTypes
  <2>2. commands' \in [Requests -> Rows]
    <3>1. I!CreateCommand(r) => [status |-> "pending", expires |-> now + TTL] \in Rows
      BY DEF Rows, StationTypes, StationIsKnown
    <3>2. CASE I!CreateCommand(r)
      BY <3>1, <3>2 DEF I!CreateCommand, StationTypes
    <3>3. CASE I!PublishCommand(r) \/ I!MarkPublishFailed(r)
      <4>1. commands' = commands \/ commands' = [commands EXCEPT ![r].status = "publish_failed"]
        BY <3>3 DEF I!PublishCommand, I!MarkPublishFailed
      <4> QED
        BY <4>1 DEF StationTypes, Rows
    <3> QED
      BY <1>13, <3>2, <3>3
  <2>3. unlocks' \in [Requests -> Calling] /\ wire' \subseteq Requests
    BY <1>13 DEF I!CreateCommand, I!PublishCommand, I!MarkPublishFailed, I!broker, StationTypes, Calling
  <2>4. StationTypes'
    BY <2>1, <2>2, <2>3 DEF StationTypes, I!device
  <2> QED
    BY <1>0, <2>1, <2>4, OrderStays DEF InOrder
<1> QED
  BY <1>1, <1>2, <1>3, <1>4, <1>5, <1>6, <1>7, <1>8, <1>9, <1>10, <1>11, <1>12, <1>13 DEF I!Next

(* A message that was handled waits no more; the others do as before.        *)
LEMMA WaitsPasses ==
    ASSUME StationTypes, InOrder, handled < Len(queue), I!Done
    PROVE  /\ \A i : Waits(i)' => Waits(i)
           /\ \A i : Waits(i) => Waits(i)' \/ (queue[handled + 1].kind = "button" /\ queue[handled + 1].press = i)
           /\ \A i : queue[handled + 1].kind = "button" /\ queue[handled + 1].press = i => ~Waits(i)'
<1>1. Len(queue) \in Nat /\ handled \in Nat
  BY LenProperties DEF StationTypes
<1>2. PICK d \in {0, 1} :
        /\ Len(queue') = Len(queue) - d /\ handled' = handled + 1 - d
        /\ \A n \in 1 .. Len(queue') : queue'[n] = queue[n + d]
  BY DoneIs
<1>3. ASSUME NEW n \in handled' + 1 .. Len(queue')
      PROVE  n + d \in handled + 2 .. Len(queue) /\ queue'[n] = queue[n + d]
  BY <1>1, <1>2
<1>4. ASSUME NEW n \in handled + 2 .. Len(queue)
      PROVE  n - d \in handled' + 1 .. Len(queue') /\ queue'[n - d] = queue[n]
  <2>1. CASE d = 0
    BY <1>1, <1>2, <2>1
  <2>2. CASE d = 1
    <3>1. n - 1 \in 1 .. Len(queue') /\ n - 1 \in handled' + 1 .. Len(queue') /\ (n - 1) + 1 = n
      BY <1>1, <1>2, <2>2
    <3> QED
      BY <1>2, <2>2, <3>1
  <2> QED
    BY <2>1, <2>2
<1>5. ASSUME NEW i, Waits(i)' PROVE \E n \in handled + 2 .. Len(queue) : queue[n].kind = "button" /\ queue[n].press = i
  BY <1>3, <1>5 DEF Waits
<1>6. ASSUME NEW i, Waits(i), ~(queue[handled + 1].kind = "button" /\ queue[handled + 1].press = i)
      PROVE  Waits(i)'
  <2>1. PICK n \in handled + 1 .. Len(queue) : queue[n].kind = "button" /\ queue[n].press = i
    BY <1>6 DEF Waits
  <2>2. n \in handled + 2 .. Len(queue)
    BY <1>1, <1>6, <2>1
  <2> QED
    BY <1>4, <2>1, <2>2 DEF Waits
<1>7. ASSUME NEW i, queue[handled + 1].kind = "button", queue[handled + 1].press = i, Waits(i)' PROVE FALSE
  <2>1. PICK n \in handled + 2 .. Len(queue) : queue[n].kind = "button" /\ queue[n].press = i
    BY <1>5, <1>7
  <2>2. n \in 1 .. Len(queue) /\ handled + 1 \in 1 .. n - 1 /\ handled + 1 \in 1 .. Len(queue)
    BY <1>1, <2>1
  <2>3. i < i /\ i \in Nat
    BY <1>7, <2>1, <2>2 DEF InOrder
  <2> QED
    BY <2>3
<1>8. ASSUME NEW i, Waits(i)' PROVE Waits(i)
  <2>1. PICK n \in handled + 2 .. Len(queue) : queue[n].kind = "button" /\ queue[n].press = i
    BY <1>5, <1>8
  <2>2. n \in handled + 1 .. Len(queue)
    BY <1>1, <2>1
  <2> QED
    BY <2>1, <2>2 DEF Waits
<1> QED
  BY <1>6, <1>7, <1>8

(* A range that begins earlier and ends later.                               *)
LEMMA RangeGrows ==
    \A a, c, d \in Nat : c <= d => \A b \in 0 .. a : \A n \in a + 1 .. c : n \in b + 1 .. d
OBVIOUS

(* What comes behind the queue and is no button does not make a press wait.  *)
LEMMA WaitsStays ==
    ASSUME StationTypes, Len(queue') \in Nat, Len(queue) <= Len(queue'), handled' \in 0 .. handled,
           \A n \in 1 .. Len(queue) : queue'[n] = queue[n],
           \A n \in Len(queue) + 1 .. Len(queue') : queue'[n].kind # "button"
    PROVE  /\ \A i : Waits(i) => Waits(i)'
           /\ handled' = handled => \A i : Waits(i)' => Waits(i)
<1>1. Len(queue) \in Nat /\ handled \in Nat
  BY LenProperties DEF StationTypes
<1>2. ASSUME NEW i, Waits(i) PROVE Waits(i)'
  <2>1. PICK n \in handled + 1 .. Len(queue) : queue[n].kind = "button" /\ queue[n].press = i
    BY <1>2 DEF Waits
  <2>3. n \in 1 .. Len(queue)
    BY <1>1, <2>1
  <2>2. n \in handled' + 1 .. Len(queue') /\ queue'[n] = queue[n]
    <3>1. queue'[n] = queue[n]
      BY <2>3
    <3>3. n \in handled' + 1 .. Len(queue')
      BY <1>1, <2>1, RangeGrows
    <3> QED
      BY <3>1, <3>3
  <2> QED
    BY <2>1, <2>2 DEF Waits
<1>3. ASSUME NEW i, Waits(i)', handled' = handled PROVE Waits(i)
  <2>1. PICK n \in handled' + 1 .. Len(queue') : queue'[n].kind = "button" /\ queue'[n].press = i
    BY <1>3 DEF Waits
  <2>2. n \in handled + 1 .. Len(queue) /\ queue'[n] = queue[n]
    BY <1>1, <1>3, <2>1
  <2> QED
    BY <2>1, <2>2 DEF Waits
<1> QED
  BY <1>2, <1>3

(* What was handled stays so.                                                *)
LEMMA TakenGrows ==
    ASSUME taken \subseteq taken', timed' = timed
    PROVE  /\ \A i, t : Given(i, t) => Given(i, t)'
           /\ \A i, j : Alike(i, j) => Alike(i, j)'
           /\ \A i : Varied(i) => Varied(i)'
<1>1. \A i, t : Given(i, t) => Given(i, t)'
  BY DEF Given
<1>2. ASSUME NEW i, NEW j, Alike(i, j) PROVE Alike(i, j)'
  <2>1. PICK x \in taken : x[1] = i /\ <<j, x[2]>> \in taken
    BY <1>2 DEF Alike
  <2>2. x \in taken' /\ <<j, x[2]>> \in taken'
    BY <2>1
  <2> QED
    BY <2>1, <2>2 DEF Alike
<1>3. ASSUME NEW i, Varied(i) PROVE Varied(i)'
  <2>1. PICK x, y \in taken : x[1] = i /\ x[2] # y[2] /\ (timed <=> y[1] # i)
    BY <1>3 DEF Varied
  <2>2. x \in taken' /\ y \in taken' /\ (timed' <=> y[1] # i)
    BY <2>1
  <2> QED
    BY <2>1, <2>2 DEF Varied
<1> QED
  BY <1>1, <1>2, <1>3

(* Presses are accounted for while none is made, announced or counted.       *)
LEMMA PressStays ==
    ASSUME StationTypes, InOrder, PressInv, UNCHANGED <<numbered, timed, presses, rung>>,
           stored'.lastAt = stored.lastAt, stored'.lastButton = stored.lastButton,
           broken \subseteq broken', taken \subseteq taken', cuts' \in Nat, cuts <= cuts',
           ringing' = ringing \/ (ringing' = 0 /\ ringing \in broken'),
           cuts' = 0 => \A i : Waits(i)' => Waits(i),
           \A i : Waits(i) => Waits(i)' \/ Explained(i)'
    PROVE  PressInv'
<1>a. \A i, t : Given(i, t) => Given(i, t)'
  BY TakenGrows
<1>b. \A i, j : Alike(i, j) => Alike(i, j)'
  BY TakenGrows
<1>c. \A i : Varied(i) => Varied(i)'
  BY TakenGrows
<1>1. \A i : I!Rang(i)' <=> I!Rang(i)
  BY DEF I!Rang
<1>2. \A i : I!RangTwice(i)' <=> I!RangTwice(i)
  BY DEF I!RangTwice
<1>3. \A i \in 1 .. Len(presses) : Announced(i)' => Announced(i)
  BY <1>1 DEF Announced
<1>4. \A i \in 1 .. Len(presses) : Announced(i) => Announced(i)' \/ i \in broken'
  BY <1>1 DEF Announced
<1>5. \A i : Excused(i) => Excused(i)'
  BY <1>c DEF Excused, StationTypes
<1>6. ASSUME NEW i \in 1 .. Len(presses), Explained(i) PROVE Explained(i)'
  BY <1>b, <1>4, <1>6 DEF Explained
<1>7. ASSUME NEW i \in 1 .. Len(presses), Fresh(i) PROVE Explained(i)' \/ Fresh(i)'
  BY <1>7 DEF Fresh
<1>8. ASSUME NEW i \in 1 .. Len(presses)
      PROVE  /\ Announced(i)' => stored'.lastAt # 0 /\ presses'[i].seq <= stored'.lastButton
             /\ Announced(i)' => \E t : Given(i, t)'
             /\ (cuts' = 0 /\ I!Rang(i)') => ~(Waits(i)')
             /\ I!RangTwice(i)' \/ (I!Rang(i)' /\ ringing' = i) => Excused(i)'
             /\ Explained(i)' \/ Fresh(i)'
  <2>1. /\ Announced(i) => stored.lastAt # 0 /\ presses[i].seq <= stored.lastButton
        /\ Announced(i) => \E t : Given(i, t)
        /\ cuts = 0 /\ I!Rang(i) => ~Waits(i)
        /\ I!RangTwice(i) \/ (I!Rang(i) /\ ringing = i) => Excused(i)
        /\ Explained(i) \/ Fresh(i)
    BY DEF PressInv
  <2>2. cuts' = 0 => cuts = 0
    BY DEF StationTypes
  <2>3. ringing' = i => ringing = i
    OBVIOUS
  <2> QED
    BY <1>a, <1>1, <1>2, <1>3, <1>5, <1>6, <1>7, <2>1, <2>2, <2>3
<1>9. stored'.lastAt # 0 => \E j \in 1 .. Len(presses) :
         Given(j, stored.lastAt)' /\ (Announced(j)' \/ j \in broken')
  BY <1>a, <1>4 DEF PressInv
<1>10. /\ \A i \in 1 .. Len(presses) : presses[i].seq > 0 <=> numbered
       /\ \A n \in 1 .. Len(rung) : rung[n] \in 1 .. Len(presses)
       /\ stored.lastButton > 0 => \E j \in 1 .. Len(presses) : presses[j].seq = stored.lastButton
  BY DEF PressInv
<1>11. UNCHANGED <<presses, rung, numbered, timed>>
  OBVIOUS
<1> HIDE DEF PressInv
<1> QED
  BY <1>8, <1>9, <1>10, <1>11 DEF PressInv


(* A new press waits, or the broker had no session to keep it.               *)
LEMMA PressedIsAccounted ==
    ASSUME StationIsKnown, StationTypes, InOrder, PressInv, NEW ahead \in BOOLEAN, I!Press(ahead)
    PROVE  PressInv'
<1> DEFINE L == Len(presses)
           p == [seq |-> I!Number(button + 1), at |-> IF timed THEN now + 1 ELSE I!None, ahead |-> ahead, heard |-> session]
           b == [kind |-> "button", press |-> L + 1]
<1>0. Len(queue) \in Nat /\ handled \in Nat /\ handled <= Len(queue) /\ L \in Nat
  BY LenProperties DEF StationTypes
<1>1. /\ presses' = Append(presses, p) /\ I!Sent(<<b>>)
      /\ UNCHANGED <<numbered, timed, handled, session, ringing, stored, rung, taken, broken, cuts>>
  BY DEF I!Press, I!service, I!bounds
<1>2. /\ p \in Heard /\ (p.seq > 0 <=> numbered) /\ p.heard = session
      /\ b \in Buttons /\ b.kind = "button" /\ b.press = L + 1
  BY <1>0 DEF I!Number, I!None, StationTypes, Heard, Buttons
<1> HIDE DEF p, b
<1>3. Len(presses') = L + 1 /\ presses'[L + 1] = p /\ \A i \in 1 .. L : presses'[i] = presses[i]
  BY <1>1, <1>2, AppendProperties DEF StationTypes
<1>4. <<b>> \in Seq(Mail) /\ Len(<<b>>) = 1 /\ <<b>>[1] = b
  BY <1>2 DEF Mail
<1>5. /\ Len(queue') = IF session THEN Len(queue) + 1 ELSE Len(queue)
      /\ \A n \in 1 .. Len(queue) : queue'[n] = queue[n]
      /\ \A n \in Len(queue) + 1 .. Len(queue') : n - Len(queue) \in 1 .. 1 /\ queue'[n] = <<b>>[n - Len(queue)]
  BY <1>1, <1>4, SentIs
<1>6. ASSUME session PROVE queue'[Len(queue) + 1] = b /\ Len(queue) + 1 \in handled + 1 .. Len(queue')
  <2>1. Len(queue) + 1 \in Len(queue) + 1 .. Len(queue') /\ (Len(queue) + 1) - Len(queue) = 1
    BY <1>0, <1>5, <1>6
  <2>2. queue'[Len(queue) + 1] = <<b>>[(Len(queue) + 1) - Len(queue)]
    BY <1>5, <2>1
  <2> QED
    BY <1>0, <1>4, <2>1, <2>2
<1>7. \A i \in 1 .. L : Waits(i)' <=> Waits(i)
  <2>1. ASSUME NEW i \in 1 .. L, Waits(i) PROVE Waits(i)'
    <3>1. PICK n \in handled + 1 .. Len(queue) : queue[n].kind = "button" /\ queue[n].press = i
      BY <2>1 DEF Waits
    <3>2. n \in 1 .. Len(queue) /\ n \in handled' + 1 .. Len(queue')
      BY <1>0, <1>1, <1>5, <3>1
    <3> QED
      BY <1>5, <3>1, <3>2 DEF Waits
  <2>2. ASSUME NEW i \in 1 .. L, Waits(i)' PROVE Waits(i)
    <3>1. PICK n \in handled + 1 .. Len(queue') : queue'[n].kind = "button" /\ queue'[n].press = i
      BY <1>1, <2>2 DEF Waits
    <3>2. ASSUME n > Len(queue) PROVE FALSE
      <4>1. session /\ n = Len(queue) + 1
        BY <1>0, <1>5, <3>1, <3>2
      <4> QED
        BY <1>0, <1>2, <1>6, <3>1, <4>1
    <3>3. n \in 1 .. Len(queue) /\ n \in handled + 1 .. Len(queue)
      BY <1>0, <1>5, <3>1, <3>2
    <3> QED
      BY <1>5, <3>1, <3>3 DEF Waits
  <2> QED
    BY <2>1, <2>2
<1>a. \A i, t : Given(i, t) => Given(i, t)'
  BY <1>1, TakenGrows
<1>b. \A i, j : Alike(i, j) => Alike(i, j)'
  BY <1>1, TakenGrows
<1>c. \A i : Varied(i) => Varied(i)'
  BY <1>1, TakenGrows
<1>8. \A i : (I!Rang(i)' <=> I!Rang(i)) /\ (I!RangTwice(i)' <=> I!RangTwice(i)) /\ (Announced(i)' <=> Announced(i))
  BY <1>1 DEF I!Rang, I!RangTwice, Announced
<1>9. ASSUME NEW i \in 1 .. L, Explained(i) PROVE Explained(i)'
  <2>1. CASE Announced(i) \/ presses[i].ahead \/ ~presses[i].heard \/ i \in broken
    BY <1>1, <1>3, <1>8, <2>1 DEF Explained
  <2>2. ASSUME NEW j \in (1 .. L) \ {i}, IF numbered THEN j < i /\ presses[j].seq >= presses[i].seq
                                            ELSE Alike(i, j)
        PROVE  Explained(i)'
    <3>1. j \in (1 .. Len(presses')) \ {i} /\ presses'[j] = presses[j] /\ presses'[i] = presses[i]
      BY <1>0, <1>3
    <3> QED
      BY <1>b, <1>1, <2>2, <3>1 DEF Explained
  <2> QED
    BY <1>9, <2>1, <2>2 DEF Explained
<1>10. ASSUME NEW i \in 1 .. L, Fresh(i) PROVE Fresh(i)'
  <2>1. ASSUME stored'.lastButton > 0 PROVE \E j \in 1 .. i - 1 : presses'[j].seq = stored'.lastButton
    <3>1. PICK j \in 1 .. i - 1 : presses[j].seq = stored.lastButton
      BY <1>1, <1>10, <2>1 DEF Fresh
    <3>2. j \in 1 .. L
      BY <1>0, <3>1
    <3> QED
      BY <1>1, <1>3, <3>1, <3>2
  <2> QED
    BY <1>7, <1>10, <2>1 DEF Fresh
<1>11. ASSUME NEW i, Excused(i) PROVE Excused(i)'
  BY <1>c, <1>1, <1>11 DEF Excused
<1>12. ASSUME NEW i \in 1 .. L
       PROVE  /\ Announced(i)' => stored'.lastAt # 0 /\ presses'[i].seq <= stored'.lastButton
              /\ Announced(i)' => \E t : Given(i, t)'
              /\ (cuts' = 0 /\ I!Rang(i)') => ~(Waits(i)')
              /\ I!RangTwice(i)' \/ (I!Rang(i)' /\ ringing' = i) => Excused(i)'
              /\ Explained(i)' \/ Fresh(i)'
  BY <1>a, <1>1, <1>3, <1>7, <1>8, <1>9, <1>10, <1>11 DEF PressInv
<1>13. ASSUME NEW i, i = L + 1
       PROVE  /\ Announced(i)' => stored'.lastAt # 0 /\ presses'[i].seq <= stored'.lastButton
              /\ Announced(i)' => \E t : Given(i, t)'
              /\ (cuts' = 0 /\ I!Rang(i)') => ~(Waits(i)')
              /\ I!RangTwice(i)' \/ (I!Rang(i)' /\ ringing' = i) => Excused(i)'
              /\ Explained(i)' \/ Fresh(i)'
  <2>1. ~I!Rang(i) /\ ~I!RangTwice(i)
    <3>1. DOMAIN rung = 1 .. Len(rung)
      BY LenProperties DEF StationTypes
    <3>2. \A n \in DOMAIN rung : rung[n] \in 1 .. L
      BY <3>1 DEF PressInv
    <3>3. \A n \in DOMAIN rung : rung[n] # i
      BY <1>0, <1>13, <3>2
    <3> QED
      BY <3>3 DEF I!Rang, I!RangTwice
  <2>2. ringing # i
    <3>1. ringing # 0 => ringing \in 1 .. L
      BY <1>0 DEF InOrder
    <3> QED
      BY <1>0, <1>13, <3>1
  <2>3. Explained(i)' \/ Fresh(i)'
    <3>1. CASE ~session
      BY <1>2, <1>3, <1>13, <3>1 DEF Explained
    <3>2. CASE session
      <4>1. Waits(i)'
        BY <1>1, <1>2, <1>6, <1>13, <3>2 DEF Waits
      <4>2. ASSUME stored'.lastButton > 0 PROVE \E j \in 1 .. i - 1 : presses'[j].seq = stored'.lastButton
        <5>1. PICK j \in 1 .. L : presses[j].seq = stored.lastButton
          BY <1>1, <4>2 DEF PressInv
        <5> QED
          BY <1>0, <1>1, <1>3, <1>13, <5>1
      <4> QED
        BY <4>1, <4>2 DEF Fresh
    <3> QED
      BY <3>1, <3>2 DEF StationTypes
  <2> QED
    BY <1>1, <1>8, <2>1, <2>2, <2>3 DEF Announced
<1>14. ASSUME stored'.lastButton > 0 PROVE \E j \in 1 .. L + 1 : presses'[j].seq = stored'.lastButton
  <2>1. PICK j \in 1 .. L : presses[j].seq = stored.lastButton
    BY <1>1, <1>14 DEF PressInv
  <2> QED
    BY <1>0, <1>1, <1>3, <2>1
<1>15. ASSUME stored'.lastAt # 0
       PROVE  \E j \in 1 .. L + 1 : Given(j, stored.lastAt)' /\ (Announced(j)' \/ j \in broken')
  <2>1. PICK j \in 1 .. L : Given(j, stored.lastAt) /\ (Announced(j) \/ j \in broken)
    BY <1>1, <1>15 DEF PressInv
  <2> QED
    BY <1>a, <1>0, <1>1, <1>3, <1>8, <2>1
<1>16. \A i \in 1 .. L + 1 : presses'[i].seq > 0 <=> numbered'
  BY <1>0, <1>1, <1>2, <1>3 DEF PressInv
<1>17. \A n \in 1 .. Len(rung') : rung'[n] \in 1 .. L + 1
  BY <1>0, <1>1 DEF PressInv
<1>18. \A i \in 1 .. L + 1 : i \in 1 .. L \/ i = L + 1
  BY <1>0
<1> QED
  BY <1>3, <1>12, <1>13, <1>14, <1>15, <1>16, <1>17, <1>18 DEF PressInv


(* An event about to be published is one of a press that nothing before      *)
(* announced, or could not be told from one that something did.              *)
LEMMA IngestedIsAccounted ==
    ASSUME StationIsKnown, StationTypes, InOrder, Taking, PressInv, I!IngestButton
    PROVE  PressInv'
<1> DEFINE b == I!Message.press
           p == presses[b]
<1>0. Len(queue) \in Nat /\ handled \in Nat /\ Len(presses) \in Nat /\ handled < Len(queue) /\ ringing = 0
  BY LenProperties DEF StationTypes, I!IngestButton, I!Delivered, I!None
<1>1. /\ b \in 1 .. Len(presses) /\ I!Message = queue[handled + 1] /\ I!Message.kind = "button"
      /\ handled + 1 \in 1 .. Len(queue)
  BY <1>0 DEF I!IngestButton, InOrder, I!Message
<1>2. p \in Heard /\ (p.seq > 0 <=> numbered) /\ \A i \in 1 .. Len(presses) : presses[i] \in Heard
  BY <1>1, ElementOfSeq DEF PressInv, StationTypes
<1>3. UNCHANGED <<numbered, timed, presses, rung, cuts>>
  BY DEF I!IngestButton, I!service, I!bounds, I!device, I!FailsFor, I!Fails
<1>4. /\ Explained(b) \/ Fresh(b)
      /\ cuts = 0 /\ I!Rang(b) => ~Waits(b)
      /\ Announced(b) => stored.lastAt # 0 /\ p.seq <= stored.lastButton
      /\ Announced(b) => \E t : Given(b, t)
  BY <1>1 DEF PressInv
<1>5. stored \in Observed /\ stored.lastButton \in Nat
  BY DEF StationTypes, Observed
<1>6. Waits(b)
  BY <1>0, <1>1 DEF Waits
<1>7. CASE /\ I!Done /\ UNCHANGED I!service /\ broken \subseteq broken' /\ taken \subseteq taken'
           /\ p.ahead \/ (I!Repeated(p) /\ <<b, I!At(p)>> \in taken') \/ b \in broken'
  <2>2. stored' = stored /\ ringing' = ringing
    BY <1>7 DEF I!service
  <2>3. ASSUME NEW i, i = b, Explained(b) PROVE Explained(i)'
    <3>1. \A j : Alike(i, j) => Alike(i, j)'
      BY <1>3, <1>7, TakenGrows
    <3> QED
      BY <1>3, <1>7, <2>2, <2>3, <3>1 DEF Explained, Announced, I!Rang
  <2>1. ASSUME NEW i, i = b, I!Repeated(p), <<b, I!At(p)>> \in taken' PROVE Explained(i)'
    <3>1. CASE numbered
      <4>1. p.seq > 0 /\ p.seq <= stored.lastButton
        BY <1>2, <2>1, <3>1 DEF I!Repeated
      <4>2. CASE Fresh(b)
        <5>1. PICK j \in 1 .. b - 1 : presses[j].seq = stored.lastButton
          BY <1>2, <1>5, <4>1, <4>2 DEF Fresh, Heard
        <5>2. j \in (1 .. Len(presses)) \ {b} /\ j < b /\ presses[j].seq >= p.seq
          BY <1>0, <1>1, <1>2, <1>5, <4>1, <5>1 DEF Heard
        <5>3. Explained(b)
          BY <3>1, <5>2 DEF Explained
        <5> QED
          BY <2>1, <2>3, <5>3
      <4> QED
        BY <1>4, <2>1, <2>3, <4>2
    <3>2. CASE ~numbered
      <4>1. I!At(p) = stored.lastAt /\ stored.lastAt # 0
        <5>1. I!At(p) = stored.lastAt
          BY <1>2, <2>1, <3>2 DEF I!Repeated, Heard
        <5>2. I!At(p) # 0
          BY <1>2 DEF I!At, I!None, StationTypes, Heard
        <5> QED
          BY <5>1, <5>2
      <4>2. PICK j \in 1 .. Len(presses) : Given(j, stored.lastAt) /\ (Announced(j) \/ j \in broken)
        BY <4>1 DEF PressInv
      <4>3. CASE j = b
        <5>1. Explained(b)
          BY <4>2, <4>3 DEF Explained
        <5> QED
          BY <2>1, <2>3, <5>1
      <4>4. CASE j # b
        <5>1. <<i, stored.lastAt>> \in taken' /\ <<j, stored.lastAt>> \in taken'
          BY <1>7, <2>1, <4>1, <4>2 DEF Given
        <5>2. Alike(i, j)'
          BY <5>1 DEF Alike
        <5>3. j \in (1 .. Len(presses')) \ {i} /\ ~numbered'
          BY <1>3, <2>1, <3>2, <4>2, <4>4
        <5> QED
          BY <5>2, <5>3 DEF Explained
      <4> QED
        BY <4>3, <4>4
    <3> QED
      BY <3>1, <3>2
  <2>7. ASSUME NEW i, i = b PROVE Explained(i)'
    <3>1. p.ahead \/ b \in broken' => Explained(i)'
      BY <1>3, <2>7 DEF Explained
    <3>2. Explained(b) => Explained(i)'
      BY <2>3, <2>7
    <3> QED
      BY <1>7, <2>1, <2>7, <3>1
  <2>4. \A i : Waits(i) => Waits(i)' \/ Explained(i)'
    BY <1>0, <1>1, <1>7, <2>7, WaitsPasses
  <2>5. \A i : Waits(i)' => Waits(i)
    BY <1>0, <1>7, WaitsPasses
  <2>6. cuts' \in Nat /\ cuts <= cuts'
    BY <1>3 DEF StationTypes
  <2> QED
    BY <1>3, <1>7, <2>2, <2>4, <2>5, <2>6, PressStays
<1>8. CASE /\ ~p.ahead /\ ~I!Repeated(p) /\ ringing' = b /\ UNCHANGED <<broken, queue, handled>>
           /\ stored'.lastAt = I!At(p) /\ taken' = taken \cup {<<b, I!At(p)>>}
           /\ stored'.lastButton = IF p.seq > stored.lastButton THEN p.seq ELSE stored.lastButton
  <2>1. /\ stored'.lastAt # 0 /\ stored'.lastButton \in Nat /\ p.seq \in Nat
        /\ stored.lastButton <= stored'.lastButton /\ p.seq <= stored'.lastButton
    BY <1>2, <1>5, <1>8 DEF Heard, I!At, I!None, StationTypes
  <2>2. \A i : (I!Rang(i)' <=> I!Rang(i)) /\ (I!RangTwice(i)' <=> I!RangTwice(i)) /\ (Waits(i)' <=> Waits(i))
    BY <1>3, <1>8 DEF I!Rang, I!RangTwice, Waits
  <2>3. \A i \in 1 .. Len(presses) : Announced(i)' <=> I!Rang(i) \/ i = b
    BY <1>8, <2>2 DEF Announced
  <2>14. /\ I!At(p) \in Nat /\ (timed => I!At(p) = p.at) /\ (~timed => I!At(p) = now + 1) /\ now \in Nat
         /\ stored.lastAt \in Nat
    BY <1>1, <1>2, <1>5 DEF I!At, I!None, Taking, StationTypes, Heard, Observed
  <2>4. ASSUME NEW i, i = b, I!Rang(b) PROVE Excused(i)'
    <3>1. stored.lastAt # 0 /\ p.seq <= stored.lastButton
      BY <1>4, <2>4 DEF Announced
    <3>2. ~numbered /\ p.seq = 0 /\ I!At(p) # stored.lastAt
      BY <1>2, <1>8, <2>1, <3>1 DEF I!Repeated
    <3>3. cuts > 0
      BY <1>4, <1>6, <2>4 DEF StationTypes
    <3>4. <<b, I!At(p)>> \in taken' /\ taken \subseteq taken'
      BY <1>8
    <3>5. CASE timed
      <4>1. PICK j \in 1 .. Len(presses) : Given(j, stored.lastAt)
        BY <3>1 DEF PressInv
      <4>2. j # b
        <5>1. ASSUME j = b PROVE stored.lastAt = p.at
          BY <3>5, <4>1, <5>1 DEF Taking, Given
        <5> QED
          BY <2>14, <3>2, <3>5, <5>1
      <4>3. <<i, I!At(p)>> \in taken' /\ <<j, stored.lastAt>> \in taken' /\ (timed' <=> j # i)
        BY <1>3, <2>4, <3>4, <3>5, <4>1, <4>2 DEF Given
      <4>4. Varied(i)'
        BY <3>2, <4>3 DEF Varied
      <4> QED
        BY <1>3, <3>2, <3>3, <4>4 DEF Excused
    <3>6. CASE ~timed
      <4>1. PICK t : Given(b, t)
        BY <1>4, <2>4 DEF Announced
      <4>2. t \in 0 .. stored.lastAt /\ stored.lastAt <= now + 1
        BY <3>2, <3>6, <4>1 DEF Taking, Given
      <4>3. t # I!At(p)
        BY <2>14, <3>2, <3>6, <4>2
      <4>5. <<i, I!At(p)>> \in taken' /\ <<i, t>> \in taken' /\ (timed' <=> i # i)
        BY <1>3, <2>4, <3>4, <3>6, <4>1 DEF Given
      <4>4. Varied(i)'
        BY <4>3, <4>5 DEF Varied
      <4> QED
        BY <1>3, <3>2, <3>3, <4>4 DEF Excused
    <3> QED
      BY <3>5, <3>6
  <2>5. ASSUME NEW i \in 1 .. Len(presses), I!RangTwice(i)' \/ (I!Rang(i)' /\ ringing' = i) PROVE Excused(i)'
    <3>1. CASE I!RangTwice(i)
      <4>1. Excused(i)
        BY <3>1 DEF PressInv
      <4> QED
        BY <1>3, <1>8, <4>1, TakenGrows DEF Excused
    <3>2. CASE I!Rang(i) /\ i = b
      BY <2>4, <3>2
    <3> QED
      BY <1>8, <2>2, <2>5, <3>1, <3>2
  <2>15. /\ \A i, t : Given(i, t) => Given(i, t)'
         /\ \A i, j : Alike(i, j) => Alike(i, j)'
    BY <1>3, <1>8, TakenGrows
  <2>16. ASSUME NEW i, i = b PROVE Given(i, stored.lastAt)'
    BY <1>8, <2>16 DEF Given
  <2>6. ASSUME NEW i \in 1 .. Len(presses), Explained(i) PROVE Explained(i)'
    <3>1. Announced(i) => Announced(i)'
      BY <1>0, <1>1, <2>2 DEF Announced
    <3> QED
      BY <1>3, <1>8, <2>6, <2>15, <3>1 DEF Explained
  <2>7. ASSUME NEW i \in 1 .. Len(presses), Fresh(i), i # b PROVE Fresh(i)'
    <3>1. PICK n \in handled + 1 .. Len(queue) : queue[n].kind = "button" /\ queue[n].press = i
      BY <2>7 DEF Fresh, Waits
    <3>2. n # handled + 1
      BY <1>1, <2>7, <3>1
    <3>3. n \in 1 .. Len(queue) /\ handled + 1 \in 1 .. n - 1
      BY <1>0, <3>1, <3>2
    <3>4. b < i
      BY <1>1, <3>1, <3>3 DEF InOrder
    <3>5. ASSUME stored'.lastButton > 0 PROVE \E j \in 1 .. i - 1 : presses[j].seq = stored'.lastButton
      <4>1. CASE stored'.lastButton = p.seq
        BY <1>0, <1>1, <3>4, <4>1
      <4>2. CASE stored'.lastButton = stored.lastButton
        BY <2>7, <3>5, <4>2 DEF Fresh
      <4> QED
        BY <1>8, <4>1, <4>2
    <3> QED
      BY <1>3, <2>2, <2>7, <3>5 DEF Fresh
  <2>8. ASSUME NEW i \in 1 .. Len(presses), i = b PROVE Explained(i)'
    BY <2>3, <2>8 DEF Explained
  <2>9. ASSUME NEW i \in 1 .. Len(presses)
        PROVE  /\ Announced(i)' => stored'.lastAt # 0 /\ presses'[i].seq <= stored'.lastButton
               /\ Announced(i)' => \E t : Given(i, t)'
               /\ (cuts' = 0 /\ I!Rang(i)') => ~(Waits(i)')
               /\ I!RangTwice(i)' \/ (I!Rang(i)' /\ ringing' = i) => Excused(i)'
               /\ Explained(i)' \/ Fresh(i)'
    <3>1. I!Rang(i) => presses[i].seq <= stored.lastButton
      BY DEF PressInv, Announced
    <3>2. presses[i].seq \in Nat
      BY <1>2 DEF Heard
    <3>3. Announced(i)' => stored'.lastAt # 0 /\ presses'[i].seq <= stored'.lastButton
      BY <1>3, <1>5, <2>1, <2>3, <3>1, <3>2
    <3>4. (cuts' = 0 /\ I!Rang(i)') => ~(Waits(i)')
      BY <1>3, <2>2 DEF PressInv
    <3>5. Explained(i)' \/ Fresh(i)'
      BY <2>6, <2>7, <2>8 DEF PressInv
    <3>6. Announced(i)' => \E t : Given(i, t)'
      <4>1. CASE I!Rang(i)
        BY <2>15, <4>1 DEF PressInv, Announced
      <4>2. CASE i = b
        BY <2>16, <4>2
      <4> QED
        BY <2>3, <4>1, <4>2
    <3> QED
      BY <2>5, <3>3, <3>4, <3>5, <3>6
  <2>10. ASSUME stored'.lastButton > 0 PROVE \E j \in 1 .. Len(presses) : presses[j].seq = stored'.lastButton
    <3>1. CASE stored'.lastButton = p.seq
      BY <1>1, <3>1
    <3>2. CASE stored'.lastButton = stored.lastButton
      BY <2>10, <3>2 DEF PressInv
    <3> QED
      BY <1>8, <3>1, <3>2
  <2>11. \E j \in 1 .. Len(presses) : Given(j, stored.lastAt)' /\ (Announced(j)' \/ j \in broken')
    BY <1>1, <2>3, <2>16
  <2>12. /\ \A i \in 1 .. Len(presses) : presses[i].seq > 0 <=> numbered
         /\ \A n \in 1 .. Len(rung) : rung[n] \in 1 .. Len(presses)
    BY DEF PressInv
  <2>13. UNCHANGED <<presses, rung, numbered, timed>>
    BY <1>3
  <2> QED
    BY <2>9, <2>10, <2>11, <2>12, <2>13 DEF PressInv
<1>9. ASSUME ~p.ahead, ~I!Repeated(p), UNCHANGED <<I!broker, broken>>, ringing' = b,
             taken' = taken \cup {<<b, I!At(p)>>},
             stored' = [stored EXCEPT !.lastAt = I!At(p), !.lastButton = IF p.seq > @ THEN p.seq ELSE @]
      PROVE  PressInv'
  <2>1. /\ stored'.lastAt = I!At(p)
        /\ stored'.lastButton = IF p.seq > stored.lastButton THEN p.seq ELSE stored.lastButton
    BY <1>5, <1>9 DEF Observed
  <2>2. UNCHANGED <<broken, queue, handled>>
    BY <1>9 DEF I!broker
  <2> QED
    BY <1>8, <1>9, <2>1, <2>2
<1> QED
  BY <1>7, <1>9 DEF I!IngestButton, I!FailsFor


(* An event that is published is that of the press about to be announced.    *)
LEMMA PublishedIsAccounted ==
    ASSUME StationIsKnown, StationTypes, InOrder, PressInv, I!PublishButton
    PROVE  PressInv'
<1> DEFINE b == ringing
<1>0. /\ b # 0 /\ ringing' = 0 /\ rung' = Append(rung, b) /\ I!Done
      /\ UNCHANGED <<numbered, timed, presses, stored, taken, broken, cuts>>
  BY DEF I!PublishButton, I!None, I!bounds, I!device
<1>1. /\ handled < Len(queue) /\ queue[handled + 1].kind = "button" /\ queue[handled + 1].press = b
      /\ b \in 1 .. Len(presses)
  <2>1. Len(queue) \in Nat /\ handled \in Nat
    BY LenProperties DEF StationTypes
  <2> QED
    BY <1>0, <2>1 DEF InOrder
<1>2. /\ Len(rung) \in Nat /\ DOMAIN rung = 1 .. Len(rung) /\ DOMAIN rung' = 1 .. Len(rung) + 1
      /\ Len(rung') = Len(rung) + 1
      /\ rung'[Len(rung) + 1] = b /\ \A n \in 1 .. Len(rung) : rung'[n] = rung[n]
  <2>1. rung \in Seq(Nat) /\ b \in Nat
    BY DEF StationTypes
  <2>2. rung' \in Seq(Nat) /\ Len(rung') = Len(rung) + 1
    BY <1>0, <2>1, AppendProperties
  <2> QED
    BY <1>0, <2>1, <2>2, AppendProperties, LenProperties
<1>3. \A i : I!Rang(i)' <=> I!Rang(i) \/ i = b
  <2>1. ASSUME NEW i, I!Rang(i) PROVE I!Rang(i)'
    BY <1>2, <2>1 DEF I!Rang
  <2>2. ASSUME NEW i, i = b PROVE I!Rang(i)'
    BY <1>2, <2>2 DEF I!Rang
  <2>3. ASSUME NEW i, I!Rang(i)', i # b PROVE I!Rang(i)
    BY <1>2, <2>3 DEF I!Rang
  <2> QED
    BY <2>1, <2>2, <2>3
<1>4. \A i : I!RangTwice(i)' => I!RangTwice(i) \/ (I!Rang(i) /\ i = b)
  <2>1. ASSUME NEW i, I!RangTwice(i)', ~I!RangTwice(i) PROVE I!Rang(i) /\ i = b
    <3>1. PICK m, n \in 1 .. Len(rung) + 1 : m # n /\ rung'[m] = i /\ rung'[n] = i
      BY <1>2, <2>1 DEF I!RangTwice
    <3>2. m = Len(rung) + 1 \/ n = Len(rung) + 1
      <4>1. ASSUME m # Len(rung) + 1, n # Len(rung) + 1 PROVE FALSE
        <5>1. m \in 1 .. Len(rung) /\ n \in 1 .. Len(rung)
          BY <1>2, <3>1, <4>1
        <5> QED
          BY <1>2, <2>1, <3>1, <5>1 DEF I!RangTwice
      <4> QED
        BY <4>1
    <3>3. CASE m = Len(rung) + 1
      <4>1. n \in 1 .. Len(rung)
        BY <1>2, <3>1, <3>3
      <4> QED
        BY <1>2, <3>1, <3>3, <4>1 DEF I!Rang
    <3>4. CASE n = Len(rung) + 1
      <4>1. m \in 1 .. Len(rung)
        BY <1>2, <3>1, <3>4
      <4> QED
        BY <1>2, <3>1, <3>4, <4>1 DEF I!Rang
    <3> QED
      BY <3>2, <3>3, <3>4
  <2> QED
    BY <2>1
<1>a. \A i, t : Given(i, t) => Given(i, t)'
  BY <1>0, TakenGrows
<1>b. \A i, j : Alike(i, j) => Alike(i, j)'
  BY <1>0, TakenGrows
<1>c. \A i : Varied(i) => Varied(i)'
  BY <1>0, TakenGrows
<1>5. \A i \in 1 .. Len(presses) : Announced(i)' <=> Announced(i)
  BY <1>0, <1>3 DEF Announced
<1>6. ASSUME NEW i \in 1 .. Len(presses), Explained(i) PROVE Explained(i)'
  BY <1>b, <1>0, <1>5, <1>6 DEF Explained
<1>7. \A i \in 1 .. Len(presses) : Fresh(i) => Explained(i)' \/ Fresh(i)'
  <2>1. ASSUME NEW i \in 1 .. Len(presses), Fresh(i), i # b PROVE Fresh(i)'
    <3>1. Waits(i)'
      BY <1>0, <1>1, <2>1, WaitsPasses DEF Fresh
    <3> QED
      BY <1>0, <2>1, <3>1 DEF Fresh
  <2>2. ASSUME NEW i \in 1 .. Len(presses), i = b PROVE Explained(i)'
    BY <1>3, <2>2 DEF Explained, Announced
  <2> QED
    BY <2>1, <2>2
<1>8. \A i : Excused(i) => Excused(i)'
  BY <1>c, <1>0 DEF Excused
<1>9. ASSUME NEW i \in 1 .. Len(presses)
      PROVE  /\ Announced(i)' => stored'.lastAt # 0 /\ presses'[i].seq <= stored'.lastButton
             /\ Announced(i)' => \E t : Given(i, t)'
             /\ (cuts' = 0 /\ I!Rang(i)') => ~(Waits(i)')
             /\ I!RangTwice(i)' \/ (I!Rang(i)' /\ ringing' = i) => Excused(i)'
             /\ Explained(i)' \/ Fresh(i)'
  <2>1. /\ Announced(i) => stored.lastAt # 0 /\ presses[i].seq <= stored.lastButton
        /\ Announced(i) => \E t : Given(i, t)
        /\ cuts = 0 /\ I!Rang(i) => ~Waits(i)
        /\ I!RangTwice(i) \/ (I!Rang(i) /\ b = i) => Excused(i)
        /\ Explained(i) \/ Fresh(i)
    BY DEF PressInv
  <2>2. ringing' # i
    BY <1>0
  <2>3. (Waits(i)' => Waits(i)) /\ (i = b => ~(Waits(i)'))
    BY <1>0, <1>1, WaitsPasses
  <2> QED
    BY <1>a, <1>0, <1>3, <1>4, <1>5, <1>6, <1>7, <1>8, <2>1, <2>2, <2>3
<1>10. stored'.lastAt # 0 => \E j \in 1 .. Len(presses) :
          Given(j, stored.lastAt)' /\ (Announced(j)' \/ j \in broken')
  BY <1>a, <1>0, <1>5 DEF PressInv
<1>11. \A n \in 1 .. Len(rung') : rung'[n] \in 1 .. Len(presses)
  <2>1. ASSUME NEW n \in 1 .. Len(rung) + 1 PROVE rung'[n] \in 1 .. Len(presses)
    <3>1. CASE n = Len(rung) + 1
      BY <1>1, <1>2, <3>1
    <3>2. CASE n \in 1 .. Len(rung)
      BY <1>2, <3>2 DEF PressInv
    <3> QED
      BY <1>2, <3>1, <3>2
  <2> QED
    BY <1>2, <2>1
<1>12. /\ \A i \in 1 .. Len(presses) : presses[i].seq > 0 <=> numbered
       /\ stored'.lastButton > 0 => \E j \in 1 .. Len(presses) : presses[j].seq = stored'.lastButton
  BY <1>0 DEF PressInv
<1>13. UNCHANGED <<presses, numbered, timed>>
  BY <1>0
<1> QED
  BY <1>9, <1>10, <1>11, <1>12, <1>13 DEF PressInv

(* Every press is accounted for, whatever is done.                           *)
LEMMA PressesStep ==
    ASSUME StationIsKnown, StationTypes, InOrder, Taking, PressInv, [I!Next]_(I!vars)
    PROVE  PressInv'
<1>0. Len(queue) \in Nat /\ queue \in Seq(Mail) /\ handled \in Nat /\ handled \in 0 .. handled /\ cuts \in Nat
  BY LenProperties DEF StationTypes
<1>1. ASSUME UNCHANGED <<numbered, timed, presses, rung, taken>>, stored' = stored, broken \subseteq broken',
             cuts' = cuts \/ cuts' = cuts + 1,
             ringing' = ringing \/ (ringing' = 0 /\ ringing \in broken'),
             handled' = handled \/ (handled' = 0 /\ cuts' = cuts + 1),
             Len(queue') \in Nat, Len(queue) <= Len(queue'),
             \A n \in 1 .. Len(queue) : queue'[n] = queue[n],
             \A n \in Len(queue) + 1 .. Len(queue') : queue'[n].kind # "button"
      PROVE  PressInv'
  <2>1. handled' \in 0 .. handled /\ cuts' \in Nat /\ cuts <= cuts' /\ (cuts' = 0 => handled' = handled)
    BY <1>0, <1>1
  <2>2. \A i : Waits(i) => Waits(i)'
    BY <1>1, <2>1, WaitsStays
  <2>3. cuts' = 0 => \A i : Waits(i)' => Waits(i)
    BY <1>1, <2>1, WaitsStays
  <2> QED
    BY <1>1, <2>1, <2>2, <2>3, PressStays
<1>2. ASSUME UNCHANGED <<numbered, timed, presses, rung, taken>>, stored' = stored, broken \subseteq broken',
             cuts' = cuts \/ cuts' = cuts + 1,
             ringing' = ringing \/ (ringing' = 0 /\ ringing \in broken'),
             handled' = handled \/ (handled' = 0 /\ cuts' = cuts + 1), queue' = queue
      PROVE  PressInv'
  BY <1>0, <1>1, <1>2
<1>3. CASE UNCHANGED I!vars \/ I!Tick \/ I!Restart \/ I!Connect \/ I!Cut \/ I!Crash
  <2>1. UNCHANGED <<numbered, timed, presses, rung, taken>> /\ stored' = stored /\ broken \subseteq broken' /\ queue' = queue
    BY <1>3 DEF I!vars, I!Tick, I!Restart, I!Connect, I!Cut, I!Crash, I!device, I!broker, I!service, I!history
  <2>2. /\ cuts' = cuts \/ cuts' = cuts + 1
        /\ ringing' = ringing \/ (ringing' = 0 /\ ringing \in broken')
        /\ handled' = handled \/ (handled' = 0 /\ cuts' = cuts + 1)
    BY <1>3 DEF I!vars, I!Tick, I!Restart, I!Connect, I!Cut, I!Crash, I!device, I!broker, I!service, I!history,
       I!bounds, I!None, StationTypes
  <2> QED
    BY <1>2, <2>1, <2>2
<1>4. CASE I!Subscribe
  <2>1. /\ UNCHANGED <<numbered, timed, presses, rung, taken, stored, broken, cuts, ringing, handled>>
    BY <1>4 DEF I!Subscribe, I!device, I!service, I!history, I!bounds
  <2>2. /\ Len(queue') \in Nat /\ Len(queue) <= Len(queue')
        /\ \A n \in 1 .. Len(queue) : queue'[n] = queue[n]
        /\ \A n \in Len(queue) + 1 .. Len(queue') : queue'[n].kind # "button"
    BY <1>4, SubscribeIs DEF States
  <2> QED
    BY <1>1, <2>1, <2>2
<1>5. ASSUME NEW ms \in Seq(Mail), I!Sent(ms), \A n \in 1 .. Len(ms) : ms[n].kind # "button",
             UNCHANGED <<numbered, timed, presses, rung, taken, stored, broken, cuts, ringing, handled>>
      PROVE  PressInv'
  <2>1. /\ Len(queue') \in Nat /\ Len(queue) <= Len(queue')
        /\ \A n \in 1 .. Len(queue) : queue'[n] = queue[n]
        /\ \A n \in Len(queue) + 1 .. Len(queue') : queue'[n].kind # "button"
    <3>1. Len(ms) \in Nat
      BY LenProperties
    <3> QED
      BY <1>0, <1>5, <3>1, SentIs
  <2> QED
    BY <1>1, <1>5, <2>1
<1>6. ASSUME NEW k \in StateKeys, I!Report(k) PROVE PressInv'
  <2> DEFINE m == [kind |-> "state", key |-> k, seq |-> I!Number(reports[k] + 1),
                   seen |-> <<boots, reports[k] + 1>>]
  <2>1. m \in Mail /\ m.kind = "state"
    BY DEF States, I!Number, StationTypes, Mail
  <2>2. I!Sent(<<m>>) /\ UNCHANGED <<numbered, timed, presses, rung, taken, stored, broken, cuts, ringing, handled>>
    BY <1>6 DEF I!Report, I!service, I!history
  <2> HIDE DEF m
  <2>3. <<m>> \in Seq(Mail) /\ \A n \in 1 .. Len(<<m>>) : <<m>>[n].kind # "button"
    BY <2>1
  <2> QED
    BY <1>5, <2>2, <2>3
<1>7. ASSUME NEW r \in Requests, I!Execute(r) PROVE PressInv'
  <2>1. UNCHANGED <<numbered, timed, presses, rung, taken, stored, broken, cuts, ringing, handled>>
    BY <1>7 DEF I!Execute, I!Fails, I!bounds, I!service, I!history
  <2>2. PICK ms \in Seq(Acks \cup Results) : I!Sent(ms)
    BY <1>7, AnswersAre
  <2>3. ms \in Seq(Mail) /\ \A n \in 1 .. Len(ms) : ms[n].kind # "button"
    BY SeqMonotonic, ElementOfSeq DEF Mail, Acks, Results
  <2> QED
    BY <1>5, <2>1, <2>2, <2>3
<1>8. ASSUME NEW r \in Requests, I!CreateCommand(r) \/ I!PublishCommand(r) \/ I!MarkPublishFailed(r) PROVE PressInv'
  <2>1. /\ UNCHANGED <<numbered, timed, presses, rung, taken, stored, cuts, ringing, handled, queue>> /\ broken \subseteq broken'
    BY <1>8 DEF I!CreateCommand, I!PublishCommand, I!MarkPublishFailed, I!FailsFor, I!Fails, I!broker, I!history,
       I!bounds, I!device
  <2> QED
    BY <1>2, <2>1
<1>9. CASE I!IngestState \/ I!UpdateAck \/ I!UpdateResult
  <2>1. handled < Len(queue) /\ I!Done /\ queue[handled + 1].kind # "button"
    BY <1>9 DEF I!IngestState, I!UpdateAck, I!UpdateResult, I!Delivered, I!Message
  <2>2. /\ UNCHANGED <<numbered, timed, presses, rung, taken, ringing, cuts>> /\ broken \subseteq broken'
        /\ stored'.lastAt = stored.lastAt /\ stored'.lastButton = stored.lastButton
    BY <1>9 DEF I!IngestState, I!UpdateAck, I!UpdateResult, I!FailsFor, I!Fails, I!bounds, I!device, I!history,
       StationTypes, Observed
  <2>3. /\ \A i : Waits(i)' => Waits(i)
        /\ \A i : Waits(i) => Waits(i)'
    BY <2>1, WaitsPasses
  <2> QED
    BY <1>0, <2>2, <2>3, PressStays
<1> QED
  BY <1>3, <1>4, <1>6, <1>7, <1>8, <1>9, PressedIsAccounted, IngestedIsAccounted, PublishedIsAccounted DEF I!Next

(* What a press is given for its time.                                       *)
LEMMA TakingStays ==
    ASSUME StationTypes, Taking, UNCHANGED <<numbered, timed, presses, taken>>,
           stored'.lastAt = stored.lastAt, now' \in Nat, now <= now'
    PROVE  Taking'
<1>1. stored.lastAt \in Nat /\ now \in Nat
  BY DEF StationTypes, Observed
<1>2. stored.lastAt <= now + 1 => stored'.lastAt <= now' + 1
  BY <1>1
<1> QED
  BY <1>2 DEF Taking

(* A press is dated by a device that dates, and given its date.              *)
LEMMA TakingStep ==
    ASSUME StationIsKnown, StationTypes, InOrder, Taking, PressInv, [I!Next]_(I!vars)
    PROVE  Taking'
<1>0. /\ Len(presses) \in Nat /\ presses \in Seq(Heard) /\ now \in Nat /\ stored \in Observed /\ stored.lastAt \in Nat
      /\ timed \in BOOLEAN
  BY LenProperties DEF StationTypes, Observed
<1>1. ASSUME NEW ahead \in BOOLEAN, I!Press(ahead) PROVE Taking'
  <2> DEFINE p == [seq |-> I!Number(button + 1), at |-> IF timed THEN now + 1 ELSE I!None, ahead |-> ahead, heard |-> session]
  <2>1. presses' = Append(presses, p) /\ UNCHANGED <<numbered, timed, taken, stored, now>>
    BY <1>1 DEF I!Press, I!service
  <2>2. p \in Heard /\ (p.at # 0 <=> timed)
    BY <1>0 DEF I!Number, I!None, StationTypes, Heard
  <2> HIDE DEF p
  <2>3. /\ Len(presses') = Len(presses) + 1 /\ presses'[Len(presses) + 1] = p
        /\ \A i \in 1 .. Len(presses) : presses'[i] = presses[i]
    BY <1>0, <2>1, <2>2, AppendProperties
  <2>4. \A i \in 1 .. Len(presses') : presses'[i].at # 0 <=> timed'
    BY <1>0, <2>1, <2>2, <2>3 DEF Taking
  <2>5. timed' => \A x \in taken' : x[1] \in 1 .. Len(presses') /\ x[2] = presses'[x[1]].at
    BY <1>0, <2>1, <2>3 DEF Taking
  <2> QED
    BY <2>1, <2>4, <2>5 DEF Taking
<1>2. ASSUME I!IngestButton PROVE Taking'
  <2> DEFINE b == I!Message.press
             p == presses[b]
             t == I!At(p)
  <2>1. b \in 1 .. Len(presses)
    <3>1. handled + 1 \in 1 .. Len(queue)
      BY <1>2, LenProperties DEF I!IngestButton, I!Delivered, StationTypes
    <3> QED
      BY <1>2, <3>1 DEF I!IngestButton, InOrder, I!Message
  <2>2. p \in Heard /\ (p.seq > 0 <=> numbered) /\ (p.at # 0 <=> timed)
    BY <1>0, <2>1, ElementOfSeq DEF PressInv, Taking
  <2>3. UNCHANGED <<numbered, timed, presses, now>>
    BY <1>2 DEF I!IngestButton, I!device
  <2>4. t \in Nat /\ (timed => t = p.at) /\ (~timed => t = now + 1)
    BY <1>0, <2>2 DEF I!At, I!None, Heard
  <2>5. CASE taken' = taken /\ stored' = stored
    BY <1>0, <2>3, <2>5, TakingStays
  <2>6. CASE taken' = taken \cup {<<b, t>>} /\ (stored'.lastAt = t \/ (I!Repeated(p) /\ stored' = stored))
    <3>1. timed => \A x \in taken' : x[1] \in 1 .. Len(presses) /\ x[2] = presses[x[1]].at
      BY <2>1, <2>4, <2>6 DEF Taking
    <3>2. ASSUME ~timed, ~numbered
          PROVE  stored'.lastAt <= now + 1 /\ \A x \in taken' : x[2] \in 0 .. stored'.lastAt
      <4>1. stored'.lastAt = now + 1 /\ t = now + 1
        BY <2>2, <2>4, <2>6, <3>2 DEF I!Repeated, Heard
      <4>2. \A x \in taken : x[2] \in 0 .. stored.lastAt /\ stored.lastAt <= now + 1
        BY <3>2 DEF Taking
      <4>3. ASSUME NEW x \in taken' PROVE x[2] \in 0 .. now + 1
        BY <1>0, <2>6, <4>1, <4>2, <4>3
      <4> QED
        BY <1>0, <4>1, <4>3
    <3> QED
      BY <2>3, <3>1, <3>2 DEF Taking
  <2>7. stored.lastAt = t \/ ~(I!Repeated(p)) \/ numbered
    BY <2>2 DEF I!Repeated, Heard
  <2>8. stored' = [stored EXCEPT !.lastAt = t, !.lastButton = IF p.seq > @ THEN p.seq ELSE @] => stored'.lastAt = t
    BY <1>0 DEF Observed
  <2> QED
    BY <1>2, <2>5, <2>6, <2>8 DEF I!IngestButton, I!service
<1>3. CASE UNCHANGED I!vars \/ I!Tick \/ I!Restart \/ I!Connect \/ I!Cut \/ I!Crash \/ I!Subscribe \/ I!PublishButton
  <2>1. UNCHANGED <<numbered, timed, presses, taken, stored>> /\ now' \in Nat /\ now <= now'
    BY <1>0, <1>3 DEF I!vars, I!Tick, I!Restart, I!Connect, I!Cut, I!Crash, I!Subscribe, I!PublishButton, I!device,
       I!broker, I!service, I!history, I!bounds
  <2> QED
    BY <2>1, TakingStays
<1>4. CASE I!IngestState \/ I!UpdateAck \/ I!UpdateResult
  <2>1. UNCHANGED <<numbered, timed, presses, taken, now>> /\ stored'.lastAt = stored.lastAt
    BY <1>0, <1>4 DEF I!IngestState, I!UpdateAck, I!UpdateResult, I!device, I!history, Observed
  <2> QED
    BY <1>0, <2>1, TakingStays
<1>5. ASSUME NEW k \in StateKeys, I!Report(k) PROVE Taking'
  BY <1>0, <1>5, TakingStays DEF I!Report, I!service, I!history
<1>6. ASSUME NEW r \in Requests, I!Execute(r) \/ I!CreateCommand(r) \/ I!PublishCommand(r) \/ I!MarkPublishFailed(r)
      PROVE  Taking'
  <2>1. UNCHANGED <<numbered, timed, presses, taken, now, stored>>
    BY <1>6 DEF I!Execute, I!CreateCommand, I!PublishCommand, I!MarkPublishFailed, I!device, I!service, I!history
  <2> QED
    BY <1>0, <2>1, TakingStays
<1> QED
  BY <1>1, <1>2, <1>3, <1>4, <1>5, <1>6 DEF I!Next

(* What was said stays true.                                                 *)
LEMMA SaidCarries ==
    ASSUME StationTypes, NEW r \in Requests, NEW d \in {0, 1}, Carried(d, r), Said(r),
           unlocks[r] # "idle" => unlocks'[r] # "idle", r \in opened => r \in opened',
           boots' = 0 => boots = 0,
           boots' = 0 => (r \in served => r \in served') /\ (r \in opened' => r \in opened),
           Late(r) => Late(r)'
    PROVE  Said(r)'
<1>1. Len(queue) \in Nat
  BY LenProperties DEF StationTypes
<1>2. ASSUME NEW n \in 1 .. Len(queue')
      PROVE  /\ Speaks(n, r)' => unlocks'[r] # "idle"
             /\ Opens(n, r)' /\ queue'[n].success => r \in opened'
             /\ boots' = 0 => /\ Opens(n, r)' => r \in served'
                              /\ Opens(n, r)' /\ ~queue'[n].success => r \notin opened'
                              /\ Refuses(n, r)' => r \in served' \/ Late(r)'
  <2>1. CASE n + d <= Len(queue)
    <3>1. n + d \in 1 .. Len(queue) /\ queue'[n] = queue[n + d]
      BY <1>1, <2>1 DEF Carried
    <3>2. /\ Speaks(n, r)' => Speaks(n + d, r)
          /\ Opens(n, r)' => Opens(n + d, r)
          /\ Refuses(n, r)' => Refuses(n + d, r)
          /\ queue'[n].success = queue[n + d].success
      BY <3>1 DEF Speaks, Opens, Refuses
    <3> QED
      BY <3>1, <3>2 DEF Said
  <2>2. CASE ~(n + d <= Len(queue))
    <3>1. ~(queue'[n].kind \in {"ack", "result"} /\ queue'[n].request = r)
      BY <2>2 DEF Carried
    <3> QED
      BY <3>1 DEF Speaks, Opens, Refuses
  <2> QED
    BY <2>1, <2>2
<1> QED
  BY <1>2 DEF Said

(* What is behind the message that was handled, one place nearer.            *)
LEMMA Shifted ==
    \A h, k, l, m, n \in Nat : \A d \in {0, 1} :
      h + 1 <= n /\ n <= l /\ l <= m + d /\ k + d <= h + 1 /\ (k + d = h + 1 => n # h + 1)
        => k + d < n /\ n - d \in k + 1 .. m /\ n - d \in 1 .. m
OBVIOUS

(* An answer under way stays that.                                           *)
LEMMA UnderwayCarries ==
    ASSUME StationTypes, NEW r \in Requests, NEW d \in {0, 1}, Carried(d, r), Underway(r)
    PROVE  Underway(r)'
<1>1. Len(queue) \in Nat /\ handled \in Nat
  BY LenProperties DEF StationTypes
<1>2. PICK n \in handled + 1 .. Len(queue) : Opens(n, r) /\ \A m \in 1 .. n - 1 : ~Refuses(m, r)
  BY DEF Underway
<1>3. n \in Nat /\ handled + 1 <= n /\ n <= Len(queue)
  BY <1>1, <1>2
<1>4. /\ handled' \in Nat /\ Len(queue') \in Nat
      /\ Len(queue) <= Len(queue') + d /\ handled' + d <= handled + 1
      /\ handled' + d = handled + 1 => ~Opens(handled + 1, r)
  BY DEF Carried
<1>5. d \in {0, 1}
  OBVIOUS
<1>6. handled' + d = handled + 1 => n # handled + 1
  BY <1>2, <1>4
<1>7. n - d \in handled' + 1 .. Len(queue') /\ n - d \in 1 .. Len(queue')
  BY <1>1, <1>3, <1>4, <1>5, <1>6, Shifted
<1>8. queue'[n - d] = queue[n]
  BY <1>1, <1>2, <1>7 DEF Carried
<1>9. ASSUME NEW m \in 1 .. (n - d) - 1 PROVE ~Refuses(m, r)'
  <2>1. m \in 1 .. Len(queue') /\ m + d <= Len(queue) /\ m + d \in 1 .. n - 1
    BY <1>1, <1>2, <1>3, <1>7, <1>9
  <2>2. queue'[m] = queue[m + d]
    BY <2>1 DEF Carried
  <2> QED
    BY <1>2, <2>1, <2>2 DEF Refuses
<1>10. ASSUME NEW k, k = n - d PROVE Opens(k, r)'
  BY <1>2, <1>8, <1>10 DEF Opens
<1> QED
  BY <1>7, <1>9, <1>10 DEF Underway

(* A request that no step is about stands as it stood.                       *)
LEMMA RequestStays ==
    ASSUME StationTypes, NEW r \in Requests, NEW d \in {0, 1}, Carried(d, r), RequestInv(r),
           commands'[r] = commands[r],
           unlocks'[r] = unlocks[r] \/ (unlocks[r] # "idle" /\ unlocks'[r] = "died"),
           r \in wire' => r \in wire, r \in opened' <=> r \in opened, unheard \subseteq unheard',
           broken \subseteq broken', now' \in Nat, now <= now', boots' \in Nat,
           boots' = 0 => boots = 0 /\ (r \in served => r \in served')
    PROVE  RequestInv(r)'
<1>1. commands[r].expires \in Nat /\ now \in Nat
  BY DEF StationTypes, Rows
<1>2. Late(r) => Late(r)'
  BY <1>1 DEF Late
<1>3. Said(r)'
  BY <1>2, SaidCarries DEF RequestInv
<1>4. Due(r) => Due(r)'
  BY UnderwayCarries DEF Due
<1>5. boots > 0 => boots' > 0
  BY DEF StationTypes
<1>6. r \in opened' => \/ commands'[r].status = "completed" \/ Late(r)' \/ Due(r)'
                      \/ r \in broken' \/ r \in unheard' \/ boots' > 0
  BY <1>2, <1>4, <1>5 DEF RequestInv
<1>7. boots' = 0 => /\ r \in opened' => r \in served'
                    /\ commands'[r].status = "rejected" => r \in served' \/ Late(r)'
  BY <1>2 DEF RequestInv
<1>8. /\ commands'[r].status = "none" <=> unlocks'[r] = "idle"
      /\ unlocks'[r] = "idle" => r \notin wire' /\ r \notin opened'
      /\ unlocks'[r] = "mark" \/ commands'[r].status = "publish_failed" => r \in broken'
      /\ commands'[r].status = "completed" => r \in opened'
  BY DEF RequestInv
<1> QED
  BY <1>3, <1>6, <1>7, <1>8 DEF RequestInv


(* A request whose command is executed, once at most while the device keeps  *)
(* count.                                                                    *)
LEMMA ExecutedIsExplained ==
    ASSUME StationIsKnown, StationTypes, NEW r \in Requests, RequestInv(r), I!Execute(r)
    PROVE  RequestInv(r)'
<1>0. Len(queue) \in Nat /\ handled \in 0 .. Len(queue) /\ queue \in Seq(Mail)
  BY LenProperties DEF StationTypes
<1>1. /\ r \in wire /\ wire' \subseteq wire
      /\ unheard' = IF session THEN unheard ELSE unheard \cup {r}
      /\ UNCHANGED <<now, boots, handled, session, commands, unlocks, broken>>
  BY DEF I!Execute, I!service, I!history
<1>2. unlocks[r] # "idle" /\ commands[r].status # "none"
  BY <1>1 DEF RequestInv
<1>3. Late(r)' <=> Late(r)
  BY <1>1 DEF Late
<1>4. CASE /\ r \in served \/ Late(r)
           /\ I!Sent(<<[kind |-> "ack", request |-> r, accepted |-> FALSE]>>)
           /\ UNCHANGED <<served, opened>>
  <2> DEFINE a == [kind |-> "ack", request |-> r, accepted |-> FALSE]
  <2>1. a \in Mail /\ a.kind = "ack"
    BY DEF Mail, Acks
  <2> HIDE DEF a
  <2>2. <<a>> \in Seq(Mail) /\ Len(<<a>>) = 1 /\ <<a>>[1] = a
    BY <2>1
  <2>3. /\ Len(queue') \in Nat /\ Len(queue) <= Len(queue')
        /\ \A n \in 1 .. Len(queue) : queue'[n] = queue[n]
        /\ \A n \in Len(queue) + 1 .. Len(queue') : queue'[n].kind = "ack"
    <3>1. I!Sent(<<a>>)
      BY <1>4 DEF a
    <3>2. \A n \in Len(queue) + 1 .. Len(queue') : n - Len(queue) \in 1 .. 1 /\ queue'[n] = <<a>>[n - Len(queue)]
      BY <2>2, <3>1, SentIs
    <3>3. ASSUME NEW n \in Len(queue) + 1 .. Len(queue') PROVE queue'[n].kind = "ack"
      <4>1. n - Len(queue) = 1 /\ queue'[n] = <<a>>[n - Len(queue)]
        BY <1>0, <3>2
      <4> QED
        BY <2>1, <2>2, <4>1
    <3>4. /\ Len(queue') \in Nat /\ Len(queue) <= Len(queue')
          /\ \A n \in 1 .. Len(queue) : queue'[n] = queue[n]
      <4>1. /\ Len(queue') \in Nat /\ \A n \in 1 .. Len(queue) : queue'[n] = queue[n]
            /\ Len(queue') = IF session THEN Len(queue) + 1 ELSE Len(queue)
        BY <2>2, <3>1, SentIs
      <4> QED
        BY <1>0, <4>1
    <3> QED
      BY <3>3, <3>4
  <2>4. Said(r)'
    <3>1. ASSUME NEW n \in 1 .. Len(queue')
          PROVE  /\ Speaks(n, r)' => unlocks'[r] # "idle"
                 /\ Opens(n, r)' /\ queue'[n].success => r \in opened'
                 /\ boots' = 0 => /\ Opens(n, r)' => r \in served'
                                  /\ Opens(n, r)' /\ ~queue'[n].success => r \notin opened'
                                  /\ Refuses(n, r)' => r \in served' \/ Late(r)'
      <4>1. CASE n \in 1 .. Len(queue)
        <5>1. queue'[n] = queue[n]
          BY <2>3, <4>1
        <5>2. /\ Opens(n, r)' => Opens(n, r)
              /\ Refuses(n, r)' => Refuses(n, r)
          BY <5>1 DEF Opens, Refuses
        <5> QED
          BY <1>1, <1>2, <1>3, <1>4, <4>1, <5>1, <5>2 DEF RequestInv, Said
      <4>2. CASE n \in Len(queue) + 1 .. Len(queue')
        <5>1. ~(Opens(n, r)')
          BY <2>3, <4>2 DEF Opens
        <5> QED
          BY <1>1, <1>2, <1>3, <1>4, <5>1
      <4> QED
        BY <1>0, <2>3, <4>1, <4>2
    <3> QED
      BY <3>1 DEF Said
  <2>5. Underway(r) => Underway(r)'
    <3>1. ASSUME NEW n \in handled + 1 .. Len(queue), Opens(n, r), \A m \in 1 .. n - 1 : ~Refuses(m, r)
          PROVE  Underway(r)'
      <4>1. n \in 1 .. Len(queue) /\ n \in handled' + 1 .. Len(queue')
        BY <1>0, <1>1, <2>3
      <4>2. queue'[n] = queue[n] /\ \A m \in 1 .. n - 1 : queue'[m] = queue[m]
        BY <1>0, <2>3, <4>1
      <4>3. Opens(n, r)' /\ \A m \in 1 .. n - 1 : ~(Refuses(m, r)')
        BY <3>1, <4>2 DEF Opens, Refuses
      <4> QED
        BY <4>1, <4>3 DEF Underway
    <3> QED
      BY <3>1 DEF Underway
  <2> QED
    BY <1>1, <1>2, <1>3, <1>4, <2>4, <2>5 DEF RequestInv, Due
<1>5. ASSUME NEW works \in BOOLEAN, r \notin served, ~Late(r), served' = served \cup {r},
             opened' = IF works THEN opened \cup {r} ELSE opened,
             I!Sent(<<[kind |-> "ack", request |-> r, accepted |-> TRUE],
                    [kind |-> "result", request |-> r, success |-> works]>>)
      PROVE  RequestInv(r)'
  <2> DEFINE a == [kind |-> "ack", request |-> r, accepted |-> TRUE]
             b == [kind |-> "result", request |-> r, success |-> works]
             L == Len(queue)
  <2>1. /\ a \in Mail /\ a.kind = "ack" /\ a.accepted
        /\ b \in Mail /\ b.kind = "result" /\ b.success = works /\ b.request = r
    BY DEF Mail, Acks, Results
  <2>2. I!Sent(<<a, b>>)
    BY <1>5
  <2> HIDE DEF a, b
  <2>3. <<a, b>> \in Seq(Mail) /\ Len(<<a, b>>) = 2 /\ <<a, b>>[1] = a /\ <<a, b>>[2] = b
    BY <2>1
  <2>4. /\ Len(queue') \in Nat /\ Len(queue') = IF session THEN L + 2 ELSE L
        /\ \A n \in 1 .. L : queue'[n] = queue[n]
        /\ \A n \in L + 1 .. Len(queue') : n - L \in 1 .. 2 /\ queue'[n] = <<a, b>>[n - L]
    BY <2>2, <2>3, SentIs
  <2>5. session => queue'[L + 1] = a /\ queue'[L + 2] = b
    <3>1. ASSUME session PROVE L + 1 \in L + 1 .. Len(queue') /\ L + 2 \in L + 1 .. Len(queue')
      BY <1>0, <2>4, <3>1
    <3>2. (L + 1) - L = 1 /\ (L + 2) - L = 2
      BY <1>0
    <3> QED
      BY <2>3, <2>4, <3>1, <3>2
  <2>6. \A n \in 1 .. Len(queue') : n \in 1 .. L \/ (session /\ (n = L + 1 \/ n = L + 2))
    BY <1>0, <2>4
  <2>7. boots = 0 => r \notin opened /\ \A n \in 1 .. L : ~Opens(n, r) /\ ~Refuses(n, r)
    BY <1>5 DEF RequestInv, Said
  <2>8. Said(r)'
    <3>1. ASSUME NEW n \in 1 .. Len(queue')
          PROVE  /\ Speaks(n, r)' => unlocks'[r] # "idle"
                 /\ Opens(n, r)' /\ queue'[n].success => r \in opened'
                 /\ boots' = 0 => /\ Opens(n, r)' => r \in served'
                                  /\ Opens(n, r)' /\ ~queue'[n].success => r \notin opened'
                                  /\ Refuses(n, r)' => r \in served' \/ Late(r)'
      <4>1. CASE n \in 1 .. L
        <5>1. queue'[n] = queue[n]
          BY <2>4, <4>1
        <5>2. Opens(n, r)' => Opens(n, r)
          BY <5>1 DEF Opens
        <5> QED
          BY <1>1, <1>2, <1>5, <2>7, <4>1, <5>1, <5>2 DEF RequestInv, Said
      <4>2. CASE session /\ n = L + 1
        <5>1. ~(Opens(n, r)') /\ ~(Refuses(n, r)')
          BY <2>1, <2>5, <4>2 DEF Opens, Refuses
        <5> QED
          BY <1>1, <1>2, <5>1
      <4>3. CASE session /\ n = L + 2
        <5>1. queue'[n] = b
          BY <2>5, <4>3
        <5>2. ~(Refuses(n, r)')
          BY <2>1, <5>1 DEF Refuses
        <5> QED
          BY <1>1, <1>2, <1>5, <2>1, <2>7, <5>1, <5>2
      <4> QED
        BY <2>6, <4>1, <4>2, <4>3
    <3> QED
      BY <3>1 DEF Said
  <2>9. ASSUME session, boots = 0 PROVE Underway(r)'
    <3>1. ASSUME NEW n, n = L + 2 PROVE Opens(n, r)' /\ n \in handled' + 1 .. Len(queue')
      BY <1>0, <1>1, <2>1, <2>4, <2>5, <2>9, <3>1 DEF Opens
    <3>2. ASSUME NEW m \in 1 .. (L + 2) - 1 PROVE ~(Refuses(m, r)')
      <4>1. m \in 1 .. L \/ m = L + 1
        BY <1>0
      <4>2. CASE m \in 1 .. L
        BY <2>4, <2>7, <2>9, <4>2 DEF Refuses
      <4>3. CASE m = L + 1
        BY <2>1, <2>5, <2>9, <4>3 DEF Refuses
      <4> QED
        BY <4>1, <4>2, <4>3
    <3> QED
      BY <3>1, <3>2 DEF Underway
  <2>10. commands[r].status \in {"pending", "acknowledged", "rejected", "completed", "publish_failed"}
    BY <1>2 DEF StationTypes, Rows
  <2>11. boots = 0 => commands[r].status # "rejected"
    BY <1>5 DEF RequestInv
  <2>12. r \in opened' => \/ commands'[r].status = "completed" \/ Late(r)' \/ Due(r)'
                          \/ r \in broken' \/ r \in unheard' \/ boots' > 0
    <3>1. CASE boots # 0
      BY <1>1, <3>1 DEF StationTypes
    <3>2. CASE ~session
      BY <1>1, <3>2
    <3>3. CASE boots = 0 /\ session
      BY <1>1, <2>9, <2>10, <2>11, <3>3 DEF RequestInv, Due
    <3> QED
      BY <3>1, <3>2, <3>3 DEF StationTypes
  <2> QED
    BY <1>1, <1>2, <1>3, <1>5, <2>8, <2>11, <2>12 DEF RequestInv
<1> QED
  <2>1. Late(r) <=> ~(now <= commands[r].expires)
    BY DEF Late, StationTypes, Rows
  <2> QED
    BY <1>4, <1>5, <2>1 DEF I!Execute, Late


(* A request whose ack or result the handler works on.                       *)
LEMMA AnsweredIsExplained ==
    ASSUME StationIsKnown, StationTypes, NEW r \in Requests, RequestInv(r),
           I!UpdateAck \/ I!UpdateResult, I!Message.request = r
    PROVE  RequestInv(r)'
<1>0. /\ Len(queue) \in Nat /\ handled \in Nat /\ handled < Len(queue) /\ handled + 1 \in 1 .. Len(queue)
      /\ queue \in Seq(Mail) /\ I!Message = queue[handled + 1] /\ I!Message \in Mail
  <2>1. /\ Len(queue) \in Nat /\ handled \in Nat /\ handled < Len(queue) /\ queue \in Seq(Mail)
    BY LenProperties DEF StationTypes, I!UpdateAck, I!UpdateResult, I!Delivered
  <2> QED
    BY <2>1, ElementOfSeq DEF I!Message
<1>1. /\ I!Done /\ broken \subseteq broken'
      /\ UNCHANGED <<now, boots, served, opened, unheard, wire, unlocks>>
  BY DEF I!UpdateAck, I!UpdateResult, I!FailsFor, I!Done, I!device
<1>2. PICK d \in {0, 1} :
        /\ Len(queue') = Len(queue) - d /\ handled' = handled + 1 - d
        /\ \A n \in 1 .. Len(queue') : queue'[n] = queue[n + d]
  BY <1>0, <1>1, DoneIs
<1>3. /\ I!Message.kind \in {"ack", "result"} /\ Speaks(handled + 1, r)
      /\ I!Message.kind = "result" <=> Opens(handled + 1, r)
  BY <1>0 DEF Speaks, Opens, I!UpdateAck, I!UpdateResult
<1>4. unlocks[r] # "idle" /\ commands[r].status # "none"
  BY <1>0, <1>3 DEF RequestInv, Said
<1>5. /\ \A n \in 1 .. Len(queue') : n + d \in 1 .. Len(queue) /\ queue'[n] = queue[n + d]
      /\ Len(queue') \in Nat
  BY <1>0, <1>2
<1>6. commands'[r].expires = commands[r].expires
  BY DEF I!UpdateAck, I!UpdateResult, I!Moves, I!FailsFor, StationTypes, Rows
<1>7. (Late(r)' <=> Late(r)) /\ (Late(r) <=> ~(now <= commands[r].expires))
  BY <1>1, <1>6 DEF Late, StationTypes, Rows
<1>8. Said(r)'
  <2>1. ASSUME NEW n \in 1 .. Len(queue')
        PROVE  /\ Speaks(n, r)' => unlocks'[r] # "idle"
               /\ Opens(n, r)' /\ queue'[n].success => r \in opened'
               /\ boots' = 0 => /\ Opens(n, r)' => r \in served'
                                /\ Opens(n, r)' /\ ~queue'[n].success => r \notin opened'
                                /\ Refuses(n, r)' => r \in served' \/ Late(r)'
    <3>1. n + d \in 1 .. Len(queue) /\ queue'[n] = queue[n + d]
      BY <1>5
    <3>2. /\ Opens(n, r)' => Opens(n + d, r)
          /\ Refuses(n, r)' => Refuses(n + d, r)
      BY <3>1 DEF Opens, Refuses
    <3> QED
      BY <1>1, <1>4, <1>7, <3>1, <3>2 DEF RequestInv, Said
  <2> QED
    BY <2>1 DEF Said
<1>9. ASSUME ~Opens(handled + 1, r), Underway(r) PROVE Underway(r)'
  <2>1. Carried(d, r)
    BY <1>0, <1>2, <1>5, <1>9 DEF Carried
  <2> QED
    BY <1>9, <2>1, UnderwayCarries
<1>10. ASSUME NEW to \in {"none", "pending", "acknowledged", "rejected", "completed", "publish_failed"},
              commands'[r].status = to,
              to = commands[r].status \/ to \in {"acknowledged", "rejected", "completed"},
              to = "completed" => r \in opened,
              boots = 0 /\ to = "rejected" => r \in served \/ Late(r),
              r \in opened => \/ to = "completed" \/ Late(r) \/ (to \in {"pending", "acknowledged"} /\ Underway(r)')
                             \/ r \in broken' \/ r \in unheard \/ boots > 0
       PROVE  RequestInv(r)'
  BY <1>1, <1>4, <1>7, <1>8, <1>10 DEF RequestInv, Due
<1>11. commands[r].status \in {"none", "pending", "acknowledged", "rejected", "completed", "publish_failed"}
       /\ commands[r] \in Rows /\ commands \in [Requests -> Rows]
  BY DEF StationTypes, Rows
<1>12. ASSUME commands' = commands, r \in broken' PROVE RequestInv(r)'
  BY <1>10, <1>11, <1>12 DEF RequestInv
<1>13. CASE I!UpdateAck
  <2> DEFINE to == IF I!Message.accepted THEN "acknowledged" ELSE "rejected"
  <2>1. I!Message.kind = "ack" /\ ~Opens(handled + 1, r)
    BY <1>3, <1>13 DEF I!UpdateAck
  <2>2. ~I!Message.accepted => Refuses(handled + 1, r)
    BY <1>0, <2>1 DEF Refuses
  <2>3. ASSUME commands[r].status = "pending", ~Late(r), commands' = [commands EXCEPT ![r].status = to]
        PROVE  RequestInv(r)'
    <3>1. commands'[r].status = to
      BY <1>11, <2>3 DEF Rows
    <3>2. boots = 0 /\ to = "rejected" => r \in served \/ Late(r)
      BY <1>0, <2>2 DEF RequestInv, Said
    <3>3. Underway(r) => to # "rejected"
      <4>1. ASSUME Underway(r), Refuses(handled + 1, r) PROVE FALSE
        <5>1. PICK n \in handled + 1 .. Len(queue) : Opens(n, r) /\ \A m \in 1 .. n - 1 : ~Refuses(m, r)
          BY <4>1 DEF Underway
        <5>2. n # handled + 1
          BY <2>1, <5>1
        <5>3. handled + 1 \in 1 .. n - 1
          BY <1>0, <5>1, <5>2
        <5> QED
          BY <4>1, <5>1, <5>3
      <4> QED
        BY <2>2, <4>1
    <3>4. r \in opened => \/ (to \in {"pending", "acknowledged"} /\ Underway(r)')
                          \/ r \in broken' \/ r \in unheard \/ boots > 0
      BY <1>1, <1>9, <2>1, <2>3, <3>3 DEF RequestInv, Due
    <3>5. to # "completed" /\ to \in {"acknowledged", "rejected"}
      OBVIOUS
    <3> HIDE DEF to
    <3> QED
      BY <1>10, <3>1, <3>2, <3>4, <3>5
  <2>4. ASSUME commands' = commands PROVE RequestInv(r)'
    <3>1. r \in opened => \/ commands[r].status = "completed" \/ Late(r)
                          \/ (commands[r].status \in {"pending", "acknowledged"} /\ Underway(r)')
                          \/ r \in broken' \/ r \in unheard \/ boots > 0
      BY <1>1, <1>9, <2>1 DEF RequestInv, Due
    <3> QED
      BY <1>10, <1>11, <2>4, <3>1 DEF RequestInv
  <2> QED
    BY <1>7, <1>13, <2>3, <2>4 DEF I!UpdateAck, I!Moves
<1>14. CASE I!UpdateResult
  <2> DEFINE to == IF I!Message.success THEN "completed" ELSE "rejected"
  <2>1. Opens(handled + 1, r) /\ I!Message = queue[handled + 1]
    BY <1>0, <1>3, <1>14 DEF I!UpdateResult
  <2>2. /\ I!Message.success => r \in opened
        /\ boots = 0 => r \in served /\ (~I!Message.success => r \notin opened)
    BY <1>0, <2>1 DEF RequestInv, Said
  <2>3. ASSUME commands' = [commands EXCEPT ![r].status = to] PROVE RequestInv(r)'
    <3>1. commands'[r].status = to
      BY <1>11, <2>3 DEF Rows
    <3>2. (to = "completed" => r \in opened) /\ (boots = 0 /\ to = "rejected" => r \in served)
      BY <2>2
    <3>3. r \in opened => to = "completed" \/ boots > 0
      BY <2>2 DEF StationTypes
    <3>4. to \in {"completed", "rejected"}
      OBVIOUS
    <3> HIDE DEF to
    <3> QED
      BY <1>10, <3>1, <3>2, <3>3, <3>4
  <2>4. ASSUME commands' = commands, Late(r) \/ commands[r].status \notin {"pending", "acknowledged"}
        PROVE RequestInv(r)'
    <3>1. r \in opened => \/ commands[r].status = "completed" \/ Late(r)
                          \/ r \in broken' \/ r \in unheard \/ boots > 0
      BY <1>1, <2>4 DEF RequestInv, Due
    <3> QED
      BY <1>10, <1>11, <2>4, <3>1 DEF RequestInv
  <2> QED
    BY <1>7, <1>12, <1>14, <2>3, <2>4 DEF I!UpdateResult, I!Moves, I!MayComplete, I!FailsFor
<1> QED
  BY <1>13, <1>14


(* Every request is accounted for, whatever is done.                         *)
LEMMA CommandStep ==
    ASSUME StationIsKnown, StationTypes, InOrder, CommandInv, [I!Next]_(I!vars)
    PROVE  CommandInv'
<1>0. Len(queue) \in Nat /\ queue \in Seq(Mail) /\ handled \in Nat /\ now \in Nat /\ boots \in Nat
  BY LenProperties DEF StationTypes
<1>1. ASSUME NEW r \in Requests, queue' = queue, handled' = handled \/ handled' = 0 PROVE Carried(0, r)
  BY <1>0, <1>1 DEF Carried
<1>2. ASSUME NEW r \in Requests, handled < Len(queue), I!Done, ~Opens(handled + 1, r)
      PROVE  \E d \in {0, 1} : Carried(d, r)
  <2>1. PICK d \in {0, 1} :
          /\ Len(queue') = Len(queue) - d /\ handled' = handled + 1 - d
          /\ \A n \in 1 .. Len(queue') : queue'[n] = queue[n + d]
    BY <1>2, DoneIs
  <2>2. \A n \in 1 .. Len(queue') : n + d <= Len(queue)
    BY <1>0, <2>1
  <2> QED
    BY <1>0, <1>2, <2>1, <2>2 DEF Carried
<1>3. ASSUME NEW r \in Requests, handled' = handled, Len(queue') \in Nat, Len(queue) <= Len(queue'),
             \A n \in 1 .. Len(queue) : queue'[n] = queue[n],
             \A n \in Len(queue) + 1 .. Len(queue') :
               ~(queue'[n].kind \in {"ack", "result"} /\ queue'[n].request = r)
      PROVE  Carried(0, r)
  <2>1. ASSUME NEW n \in 1 .. Len(queue')
        PROVE  IF n + 0 <= Len(queue) THEN queue'[n] = queue[n + 0]
               ELSE ~(queue'[n].kind \in {"ack", "result"} /\ queue'[n].request = r)
    <3>1. n \in 1 .. Len(queue) \/ n \in Len(queue) + 1 .. Len(queue')
      BY <1>0, <1>3
    <3> QED
      BY <1>0, <1>3, <3>1
  <2>2. Len(queue) <= Len(queue') + 0 /\ handled' + 0 <= handled + 1 /\ handled' + 0 # handled + 1
    BY <1>0, <1>3
  <2> QED
    BY <1>0, <1>3, <2>1, <2>2 DEF Carried
<1>4. ASSUME NEW r \in Requests, NEW d \in {0, 1}, Carried(d, r),
             UNCHANGED <<commands, unlocks, wire, opened, unheard, now, boots, served>>, broken \subseteq broken'
      PROVE  RequestInv(r)'
  <2>1. now' \in Nat /\ now <= now' /\ boots' \in Nat
    BY <1>0, <1>4
  <2> QED
    BY <1>4, <2>1, RequestStays DEF CommandInv
<1>5. ASSUME NEW r \in Requests PROVE RequestInv(r)'
  <2>1. CASE UNCHANGED I!vars \/ I!Tick \/ I!Restart \/ I!Connect \/ I!Cut \/ I!Crash
    <3>1. Carried(0, r)
      BY <1>1, <2>1 DEF I!vars, I!Tick, I!Restart, I!Connect, I!Cut, I!Crash, I!broker
    <3>2. /\ commands' = commands /\ wire' = wire /\ opened' = opened /\ unheard' = unheard /\ broken \subseteq broken'
          /\ unlocks'[r] = unlocks[r] \/ (unlocks[r] # "idle" /\ unlocks'[r] = "died")
      BY <2>1 DEF I!vars, I!Tick, I!Restart, I!Connect, I!Cut, I!Crash, I!device, I!broker, I!service, I!history,
         StationTypes
    <3>3. /\ now' \in Nat /\ now <= now' /\ boots' \in Nat
          /\ boots' = 0 => boots = 0 /\ (r \in served => r \in served')
      BY <1>0, <2>1 DEF I!vars, I!Tick, I!Restart, I!Connect, I!Cut, I!Crash, I!device
    <3> QED
      BY <3>1, <3>2, <3>3, RequestStays DEF CommandInv
  <2>2. CASE I!Subscribe
    <3>1. Carried(0, r)
      <4>1. \A n \in Len(queue) + 1 .. Len(queue') :
               ~(queue'[n].kind \in {"ack", "result"} /\ queue'[n].request = r)
        BY <2>2, SubscribeIs DEF States
      <4>2. handled' = handled
        BY <2>2 DEF I!Subscribe
      <4> QED
        BY <1>3, <2>2, <4>1, <4>2, SubscribeIs
    <3> QED
      BY <1>4, <2>2, <3>1 DEF I!Subscribe, I!device, I!service, I!history
  <2>3. ASSUME NEW m \in Mail, I!Sent(<<m>>), handled' = handled, m.kind \in {"button", "state"} PROVE Carried(0, r)
    <3>1. <<m>> \in Seq(Mail) /\ Len(<<m>>) = 1 /\ <<m>>[1] = m
      OBVIOUS
    <3>2. /\ Len(queue') \in Nat /\ \A n \in 1 .. Len(queue) : queue'[n] = queue[n]
          /\ Len(queue') = IF session THEN Len(queue) + 1 ELSE Len(queue)
          /\ \A n \in Len(queue) + 1 .. Len(queue') : n - Len(queue) \in 1 .. 1 /\ queue'[n] = <<m>>[n - Len(queue)]
      BY <2>3, <3>1, SentIs
    <3>3. ASSUME NEW n \in Len(queue) + 1 .. Len(queue') PROVE queue'[n] = m
      <4>1. n - Len(queue) = 1
        BY <1>0, <3>2
      <4> QED
        BY <3>1, <3>2, <4>1
    <3>4. Len(queue) <= Len(queue')
      BY <1>0, <3>2
    <3>5. \A n \in Len(queue) + 1 .. Len(queue') :
               ~(queue'[n].kind \in {"ack", "result"} /\ queue'[n].request = r)
      BY <2>3, <3>3
    <3> QED
      BY <1>3, <2>3, <3>2, <3>4, <3>5
  <2>4. ASSUME NEW ahead \in BOOLEAN, I!Press(ahead) PROVE RequestInv(r)'
    <3> DEFINE m == [kind |-> "button", press |-> Len(presses) + 1]
    <3>1. m \in Mail /\ m.kind = "button"
      BY LenProperties DEF Mail, Buttons, StationTypes
    <3>2. I!Sent(<<m>>) /\ handled' = handled
      BY <2>4 DEF I!Press
    <3>3. Carried(0, r)
      BY <2>3, <3>1, <3>2
    <3> QED
      BY <1>4, <2>4, <3>3 DEF I!Press, I!service
  <2>5. ASSUME NEW k \in StateKeys, I!Report(k) PROVE RequestInv(r)'
    <3> DEFINE m == [kind |-> "state", key |-> k, seq |-> I!Number(reports[k] + 1),
                     seen |-> <<boots, reports[k] + 1>>]
    <3>1. m \in Mail /\ m.kind = "state"
      BY DEF States, I!Number, StationTypes, Mail
    <3>2. I!Sent(<<m>>) /\ handled' = handled
      BY <2>5 DEF I!Report
    <3> HIDE DEF m
    <3>3. Carried(0, r)
      BY <2>3, <3>1, <3>2
    <3> QED
      BY <1>4, <2>5, <3>3 DEF I!Report, I!service, I!history
  <2>6. CASE I!IngestButton \/ I!PublishButton \/ I!IngestState
    <3>1. CASE UNCHANGED <<queue, handled>>
      <4>1. Carried(0, r)
        BY <1>1, <3>1
      <4> QED
        BY <1>4, <2>6, <4>1 DEF I!IngestButton, I!PublishButton, I!IngestState, I!FailsFor, I!Done, I!broker,
           I!device, I!service, I!history
    <3>2. CASE I!Done
      <4>1. handled < Len(queue) /\ ~Opens(handled + 1, r)
        BY <2>6 DEF I!IngestButton, I!PublishButton, I!IngestState, I!Delivered, I!Message, InOrder, Opens, I!None
      <4>2. PICK d \in {0, 1} : Carried(d, r)
        BY <1>2, <3>2, <4>1
      <4> QED
        BY <1>4, <2>6, <4>2 DEF I!IngestButton, I!PublishButton, I!IngestState, I!FailsFor, I!Done, I!broker,
           I!device, I!service, I!history
    <3> QED
      BY <2>6, <3>1, <3>2 DEF I!IngestButton, I!PublishButton, I!IngestState, I!broker
  <2>7. ASSUME NEW q \in Requests, I!Execute(q) PROVE RequestInv(r)'
    <3>1. CASE q = r
      BY <2>7, <3>1, ExecutedIsExplained DEF CommandInv
    <3>2. CASE q # r
      <4>1. PICK ms \in Seq(Acks \cup Results) : I!Sent(ms) /\ \A n \in 1 .. Len(ms) : ms[n].request = q
        BY <2>7, AnswersAre
      <4>2. ms \in Seq(Mail) /\ Len(ms) \in Nat
        BY SeqMonotonic, LenProperties DEF Mail
      <4>3. /\ Len(queue') \in Nat /\ \A n \in 1 .. Len(queue) : queue'[n] = queue[n]
            /\ Len(queue') = IF session THEN Len(queue) + Len(ms) ELSE Len(queue)
            /\ \A n \in Len(queue) + 1 .. Len(queue') : queue'[n].request = q
        BY <4>1, <4>2, SentIs
      <4>4. Len(queue) <= Len(queue')
        BY <1>0, <4>2, <4>3
      <4>5. handled' = handled
        BY <2>7 DEF I!Execute
      <4>6. Carried(0, r)
        BY <1>3, <3>2, <4>3, <4>4, <4>5
      <4>7. /\ UNCHANGED <<commands, unlocks, now, boots, broken>> /\ wire' \subseteq wire /\ unheard \subseteq unheard'
            /\ r \in opened' <=> r \in opened
            /\ r \in served => r \in served'
        BY <2>7, <3>2 DEF I!Execute, I!service, I!history
      <4>8. now' \in Nat /\ now <= now' /\ boots' \in Nat
        BY <1>0, <4>7
      <4> QED
        BY <4>6, <4>7, <4>8, RequestStays DEF CommandInv
    <3> QED
      BY <3>1, <3>2
  <2>8. CASE I!UpdateAck \/ I!UpdateResult
    <3>1. CASE I!Message.request = r
      BY <2>8, <3>1, AnsweredIsExplained DEF CommandInv
    <3>2. CASE I!Message.request # r
      <4>1. /\ handled < Len(queue) /\ I!Done /\ ~Opens(handled + 1, r) /\ I!Message = queue[handled + 1]
        BY <2>8, <3>2 DEF I!UpdateAck, I!UpdateResult, I!Delivered, I!Message, Opens
      <4>2. PICK d \in {0, 1} : Carried(d, r)
        BY <1>2, <4>1
      <4>3. commands'[r] = commands[r]
        BY <2>8, <3>2 DEF I!UpdateAck, I!UpdateResult, I!Moves, StationTypes
      <4>4. /\ UNCHANGED <<unlocks, wire, opened, unheard, now, boots, served>> /\ broken \subseteq broken'
        BY <2>8 DEF I!UpdateAck, I!UpdateResult, I!FailsFor, I!Done, I!device
      <4>5. now' \in Nat /\ now <= now' /\ boots' \in Nat
        BY <1>0, <4>4
      <4> QED
        BY <4>2, <4>3, <4>4, <4>5, RequestStays DEF CommandInv
    <3> QED
      BY <3>1, <3>2
  <2>9. ASSUME NEW q \in Requests, I!CreateCommand(q) \/ I!PublishCommand(q) \/ I!MarkPublishFailed(q)
        PROVE  RequestInv(r)'
    <3>1. /\ UNCHANGED <<queue, handled, opened, unheard, now, boots, served>> /\ broken \subseteq broken'
          /\ wire' \subseteq wire \cup {q}
      BY <2>9 DEF I!CreateCommand, I!PublishCommand, I!MarkPublishFailed, I!FailsFor, I!device, I!broker, I!history
    <3>2. Carried(0, r)
      BY <1>1, <3>1
    <3>3. now' \in Nat /\ now <= now' /\ boots' \in Nat
      BY <1>0, <3>1
    <3>4. CASE q # r
      <4>1. commands'[r] = commands[r] /\ unlocks'[r] = unlocks[r]
        BY <2>9, <3>4 DEF I!CreateCommand, I!PublishCommand, I!MarkPublishFailed, StationTypes
      <4> QED
        BY <3>1, <3>2, <3>3, <3>4, <4>1, RequestStays DEF CommandInv
    <3>5. CASE q = r
      <4>1. RequestInv(r) /\ commands[r] \in Rows /\ commands \in [Requests -> Rows] /\ unlocks \in [Requests -> Calling]
        BY DEF CommandInv, StationTypes
      <4>2. ASSUME unlocks'[r] # "idle", Late(r) => Late(r)' PROVE Said(r)'
        BY <3>1, <3>2, <4>1, <4>2, SaidCarries DEF RequestInv
      <4>3. CASE I!CreateCommand(r)
        <5>1. /\ unlocks[r] = "idle" /\ unlocks'[r] = "publish" /\ commands'[r].status = "pending" /\ wire' = wire
          BY <4>1, <4>3 DEF I!CreateCommand, I!broker
        <5>2. \A n \in 1 .. Len(queue) : ~Speaks(n, r)
          BY <4>1, <5>1 DEF RequestInv, Said
        <5>3. Said(r)'
          BY <3>1, <5>1, <5>2 DEF Said, Speaks, Opens, Refuses
        <5> QED
          BY <3>1, <4>1, <5>1, <5>3 DEF RequestInv
      <4>4. CASE I!PublishCommand(r)
        <5>1. /\ unlocks[r] = "publish" /\ unlocks'[r] \in {"done", "mark"} /\ commands' = commands
              /\ unlocks'[r] = "mark" => r \in broken'
          BY <4>1, <4>4 DEF I!PublishCommand, I!FailsFor
        <5>2. Late(r)' <=> Late(r)
          BY <3>1, <5>1 DEF Late
        <5>3. Said(r)' /\ (Underway(r) => Underway(r)')
          BY <3>2, <4>2, <5>1, <5>2, UnderwayCarries
        <5> QED
          BY <3>1, <4>1, <5>1, <5>2, <5>3 DEF RequestInv, Due
      <4>5. CASE I!MarkPublishFailed(r)
        <5>1. /\ unlocks[r] = "mark" /\ unlocks'[r] = "failed" /\ wire' = wire
              /\ commands'[r].expires = commands[r].expires
              /\ \/ commands'[r].status = commands[r].status
                 \/ commands[r].status = "pending" /\ commands'[r].status = "publish_failed"
          BY <4>1, <4>5 DEF I!MarkPublishFailed, I!broker, Rows
        <5>2. Late(r)' <=> Late(r)
          BY <3>1, <5>1 DEF Late
        <5>3. Said(r)'
          BY <4>2, <5>1, <5>2
        <5>4. r \in broken'
          BY <3>1, <4>1, <5>1 DEF RequestInv
        <5> QED
          BY <3>1, <4>1, <5>1, <5>2, <5>3, <5>4 DEF RequestInv
      <4> QED
        BY <2>9, <3>5, <4>3, <4>4, <4>5
    <3> QED
      BY <3>4, <3>5
  <2> QED
    BY <2>1, <2>2, <2>4, <2>5, <2>6, <2>7, <2>8, <2>9 DEF I!Next
<1> QED
  BY <1>5 DEF CommandInv


(* What holds of the door station in every state.                            *)
StationInv == StationTypes /\ InOrder /\ Taking /\ PressInv /\ CommandInv

(* At first nothing was pressed, sent or asked for.                          *)
LEMMA StationInit == I!Init => StationInv
<1> SUFFICES ASSUME I!Init PROVE StationInv
  OBVIOUS
<1>1. queue = <<>> /\ Len(queue) = 0 /\ presses = <<>> /\ Len(presses) = 0 /\ rung = <<>> /\ Len(rung) = 0
  BY EmptySeq DEF I!Init
<1>2. queue \in Seq(Mail) /\ presses \in Seq(Heard) /\ rung \in Seq(Nat)
  BY <1>1, EmptySeq
<1>3. stored \in Observed /\ commands \in [Requests -> Rows] /\ unlocks \in [Requests -> Calling]
  BY DEF I!Init, Observed, Rows, Calling, I!NoCommand, I!None
<1>4. StationTypes
  <2>1. /\ reports \in [StateKeys -> Nat] /\ retained \in [StateKeys -> States \cup {I!Unreported}]
        /\ wire \subseteq Requests
    BY DEF I!Init
  <2>2. /\ now = 0 /\ numbered \in BOOLEAN /\ timed \in BOOLEAN /\ button = 0 /\ boots = 0 /\ cuts = 0 /\ failures = 0
        /\ session \in BOOLEAN /\ handled = 0 /\ ringing = 0
    BY DEF I!Init, I!None
  <2>3. handled \in 0 .. Len(queue)
    BY <1>1, <2>2
  <2> QED
    BY <1>2, <1>3, <2>1, <2>2, <2>3 DEF StationTypes
<1>5. InOrder /\ Taking /\ PressInv
  BY <1>1, <1>3 DEF I!Init, InOrder, Taking, PressInv, I!None
<1>6. CommandInv
  BY <1>1 DEF I!Init, CommandInv, RequestInv, Said, I!NoCommand
<1> QED
  BY <1>4, <1>5, <1>6 DEF StationInv

(* And it stays so.                                                          *)
LEMMA StationKept == StationIsKnown /\ StationInv /\ [I!Next]_(I!vars) => StationInv'
BY StationStep, TakingStep, PressesStep, CommandStep DEF StationInv

(* A press is announced on the bus exactly once, unless a cause the service  *)
(* cannot tell from a repetition, or a failure, explains it (intercom/       *)
(* service.go: IngestMQTT).                                                  *)
THEOREM PressesRing ==
    ASSUME StationIsKnown
    PROVE  I!Spec => []PressRingsOnce
<1>1. StationInv => PressRingsOnce
  <2>1. ASSUME StationInv PROVE I!RungTwiceHasACause
    BY <2>1 DEF StationInv, PressInv, I!RungTwiceHasACause, Excused, Varied
  <2>2. ASSUME StationInv PROVE I!SilenceHasACause
    BY <2>2 DEF StationInv, PressInv, I!SilenceHasACause, Explained, Alike, Fresh, Waits, Announced, I!Coming
  <2> QED
    BY <2>1, <2>2 DEF I!PressRingsOnce, PressRingsOnce
<1> QED
  BY <1>1, StationInit, StationKept, PTL DEF I!Spec

(* A door that was opened is on record as completed, unless what became of   *)
(* its answers explains it, and what is on record was opened (intercom/      *)
(* commands.go: UpdateResult).                                               *)
THEOREM OpeningsAreExplained ==
    ASSUME StationIsKnown
    PROVE  I!Spec => []OpenedIsExplained
<1>1. StationInv => OpenedIsExplained
  <2>1. ASSUME StationInv, NEW r \in Requests
        PROVE  /\ commands[r].status = "completed" => r \in opened
               /\ r \in opened => \/ commands[r].status = "completed" \/ I!Answering(r)
                                  \/ Late(r) \/ r \in broken \/ r \in unheard \/ boots > 0
    <3>1. Due(r) => I!Answering(r)
      BY DEF Due, Underway, I!Answering, Opens
    <3> QED
      BY <2>1, <3>1 DEF StationInv, CommandInv, RequestInv
  <2> QED
    BY <2>1 DEF I!OpenedIsExplained, OpenedIsExplained, Late
<1> QED
  BY <1>1, StationInit, StationKept, PTL DEF I!Spec
=============================================================================
