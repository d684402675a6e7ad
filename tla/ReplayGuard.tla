---------------------------- MODULE ReplayGuard ----------------------------
(***************************************************************************)
(* internal/security/callback: admission of signed owner callbacks.        *)
(*                                                                         *)
(* Acceptor.Accept verifies a token with the keyring, compares its binding *)
(* with the route it arrived on and only then consumes it in the bounded   *)
(* in-memory ReplayGuard.  The guard is shared by every HTTP handler; its  *)
(* mutex covers Consume, while the clock that Consume is given is read     *)
(* before the mutex is taken.  Restart models a new process: OpenRuntime   *)
(* builds an empty guard, possibly with another set of keys.               *)
(*                                                                         *)
(* Signatures are abstract: a token carries the key id it was signed with  *)
(* and verifies exactly when the keyring still holds that key.             *)
(***************************************************************************)
EXTENDS Naturals, Sequences, FiniteSets

CONSTANTS
  Callers,       \* concurrent HTTP handlers calling Accept
  KeyIDs,        \* key identifiers a keyring may hold
  Nonces,
  Routes,        \* bindings (execution, node, event, action)
  Tokens,        \* signed claims: [kid, nonce, bind, iat, exp]
  Capacity,      \* ReplayGuard.max
  MaxTTL, ClockSkew,
  NoCall,        \* what a handler holds while it is not inside Accept
  MaxClock, MaxAdmissions, MaxRestarts    \* bounds of the model

Claims == [kid : KeyIDs, nonce : Nonces, bind : Routes, iat : Nat \ {0}, exp : Nat \ {0}]

ASSUME CapacityAssumption == Capacity \in Nat \ {0}
ASSUME TokensAssumption == Tokens \subseteq Claims
ASSUME NoCallAssumption == NoCall \notin [claims : Tokens, route : Routes]
ASSUME ClockAssumption == MaxTTL \in Nat /\ ClockSkew \in Nat /\ MaxClock \in Nat

Keys == KeyIDs \X Nonces
KeyOf(t) == <<t.kid, t.nonce>>
Entry == [key : Keys, exp : Nat \ {0}]

VARIABLES
  clock,      \* wall clock
  keyring,    \* key ids Verify accepts
  seen,       \* key -> expiry, 0 when the map has no such key
  ordered,    \* replay entries in admission order
  pc, tok, stamp,   \* per caller: where it is, its token, the time it read
  admitted,   \* history: the tokens Consume let through
  high,       \* history: the latest time Consume has been given
  epoch       \* history: number of restarts

vars == <<clock, keyring, seen, ordered, pc, tok, stamp, admitted, high, epoch>>

Admission == [key : Keys, exp : Nat, at : Nat, high : Nat, route : Routes, bind : Routes, epoch : Nat]

TypeOK ==
  /\ clock \in Nat
  /\ keyring \subseteq KeyIDs
  /\ seen \in [Keys -> Nat]
  /\ ordered \in Seq(Entry)
  /\ pc \in [Callers -> {"idle", "verified", "stamped"}]
  /\ tok \in [Callers -> [claims : Tokens, route : Routes] \cup {NoCall}]
  /\ \A c \in Callers : pc[c] # "idle" => tok[c] # NoCall
  /\ stamp \in [Callers -> Nat]
  /\ admitted \in Seq(Admission)
  /\ high \in Nat
  /\ epoch \in Nat

-----------------------------------------------------------------------------
\* Claims.validate: issued no later than now + skew, not expired by more than
\* the skew, and living no longer than the policy allows.
ValidAt(t, now) ==
  /\ t.exp > t.iat
  /\ t.iat <= now + ClockSkew
  /\ t.exp + ClockSkew > now
  /\ t.exp - t.iat <= MaxTTL

\* Keyring.Verify: the signing key is still configured and the claims are valid.
Verifies(t, now) == t.kid \in keyring /\ ValidAt(t, now)

\* Binding.Matches.
Matches(t, route) == t.bind = route

Init ==
  /\ clock = 1
  /\ keyring \in SUBSET KeyIDs \ {{}}
  /\ seen = [k \in Keys |-> 0]
  /\ ordered = <<>>
  /\ pc = [c \in Callers |-> "idle"]
  /\ tok = [c \in Callers |-> NoCall]
  /\ stamp = [c \in Callers |-> 0]
  /\ admitted = <<>>
  /\ high = 0
  /\ epoch = 0

\* Accept, first half: verification and the exact binding check.  When either
\* fails Accept returns its error and nothing has changed.
Verify(c, t, route) ==
  /\ pc[c] = "idle"
  /\ Verifies(t, clock)
  /\ Matches(t, route)
  /\ tok' = [tok EXCEPT ![c] = [claims |-> t, route |-> route]]
  /\ pc' = [pc EXCEPT ![c] = "verified"]
  /\ UNCHANGED <<clock, keyring, seen, ordered, stamp, admitted, high, epoch>>

\* Accept reads the clock for Consume.
ReadClock(c) ==
  /\ pc[c] = "verified"
  /\ stamp' = [stamp EXCEPT ![c] = clock]
  /\ pc' = [pc EXCEPT ![c] = "stamped"]
  /\ UNCHANGED <<clock, keyring, seen, ordered, tok, admitted, high, epoch>>

\* The number of entries at the head of the queue that have all expired.
ExpiredPrefix(o, now) ==
  Cardinality({n \in 1..Len(o) : \A i \in 1..n : o[i].exp <= now})

\* Fault: forgets a key whatever expiry the map has recorded for it since.
ForgetAnyExpiry(s, removed) ==
  [k \in Keys |-> IF \E e \in removed : e.key = k THEN 0 ELSE s[k]]

\* A key is deleted when its recorded expiry is that of a removed entry.
Forget(s, removed) ==
  [k \in Keys |-> IF \E e \in removed : e.key = k /\ e.exp = s[k] THEN 0 ELSE s[k]]

\* The guard without the n oldest entries of its queue.
Drop(g, n) ==
  [seen    |-> Forget(g.seen, {g.ordered[i] : i \in 1..n}),
   ordered |-> SubSeq(g.ordered, n + 1, Len(g.ordered))]

\* prune drops the expired head of the queue.
Pruned(now) ==
  Drop([seen |-> seen, ordered |-> ordered], ExpiredPrefix(ordered, now))

\* The tail of Consume: record the token and evict the oldest beyond Capacity.
Recorded(g, k, exp) ==
  LET r == [seen    |-> [g.seen EXCEPT ![k] = exp],
            ordered |-> Append(g.ordered, [key |-> k, exp |-> exp])]
  IN  IF Len(r.ordered) > Capacity THEN Drop(r, Len(r.ordered) - Capacity) ELSE r

MaxOf(a, b) == IF a >= b THEN a ELSE b

Return(c) ==
  /\ pc' = [pc EXCEPT ![c] = "idle"]
  /\ tok' = [tok EXCEPT ![c] = NoCall]
  /\ stamp' = [stamp EXCEPT ![c] = 0]

\* Consume returns ErrExpired before it takes the mutex.
RejectExpired(c) ==
  /\ pc[c] = "stamped"
  /\ tok[c].claims.exp <= stamp[c]
  /\ Return(c)
  /\ UNCHANGED <<clock, keyring, seen, ordered, admitted, high, epoch>>

\* Consume prunes, finds the key with a later expiry and returns ErrReplay.
RejectReplay(c) ==
  LET g == Pruned(stamp[c])
  IN  /\ pc[c] = "stamped"
      /\ tok[c].claims.exp > stamp[c]
      /\ g.seen[KeyOf(tok[c].claims)] > stamp[c]
      /\ seen' = g.seen
      /\ ordered' = g.ordered
      /\ high' = MaxOf(high, stamp[c])
      /\ Return(c)
      /\ UNCHANGED <<clock, keyring, admitted, epoch>>

\* Consume admits the token.
Admit(c) ==
  LET t == tok[c].claims
      g == Pruned(stamp[c])
      r == Recorded(g, KeyOf(t), t.exp)
  IN  /\ pc[c] = "stamped"
      /\ Len(admitted) < MaxAdmissions
      /\ t.exp > stamp[c]
      /\ g.seen[KeyOf(t)] <= stamp[c]
      /\ seen' = r.seen
      /\ ordered' = r.ordered
      /\ high' = MaxOf(high, stamp[c])
      /\ admitted' = Append(admitted,
           [key |-> KeyOf(t), exp |-> t.exp, at |-> stamp[c], high |-> MaxOf(high, stamp[c]),
            route |-> tok[c].route, bind |-> t.bind, epoch |-> epoch])
      /\ Return(c)
      /\ UNCHANGED <<clock, keyring, epoch>>

Tick ==
  /\ clock < MaxClock
  /\ clock' = clock + 1
  /\ UNCHANGED <<keyring, seen, ordered, pc, tok, stamp, admitted, high, epoch>>

\* The process dies and OpenRuntime starts a new one: a new keyring, an empty
\* guard, and no call in progress.
Restart ==
  /\ epoch < MaxRestarts
  /\ epoch' = epoch + 1
  /\ keyring' \in SUBSET KeyIDs \ {{}}
  /\ seen' = [k \in Keys |-> 0]
  /\ ordered' = <<>>
  /\ pc' = [c \in Callers |-> "idle"]
  /\ tok' = [c \in Callers |-> NoCall]
  /\ stamp' = [c \in Callers |-> 0]
  /\ high' = 0
  /\ UNCHANGED <<clock, admitted>>

Next ==
  \/ \E c \in Callers :
       \/ \E t \in Tokens, r \in Routes : Verify(c, t, r)
       \/ ReadClock(c)
       \/ RejectExpired(c)
       \/ RejectReplay(c)
       \/ Admit(c)
  \/ Tick
  \/ Restart

Spec == Init /\ [][Next]_vars

-----------------------------------------------------------------------------
\* The queue never outgrows the guard's capacity, whatever Consume interleaves.
Bounded == Len(ordered) <= Capacity

\* The map s and the queue o describe the same admissions: what the map records
\* is queued with that expiry, so that eviction and pruning will find it; what is
\* queued is in the map, with that expiry or a later one; and of two entries for
\* one key the later one expires later.
Agree(s, o) ==
  /\ \A k \in Keys : s[k] # 0 => \E i \in 1..Len(o) : o[i] = [key |-> k, exp |-> s[k]]
  /\ \A i \in 1..Len(o) : o[i].exp <= s[o[i].key]
  /\ \A i, j \in 1..Len(o) : i < j /\ o[i].key = o[j].key => o[i].exp < o[j].exp

\* seen and ordered agree and stay within Capacity: the eviction and prune paths
\* of Consume neither leak a key in the map nor forget a live one early.
GuardConsistent == Bounded /\ Agree(seen, ordered)

\* A repeated token passes a running guard before it expires only when Capacity
\* later admissions pushed it out, or when Consume had already been given a time
\* past its expiry.
ReplayNeedsEvictionOrLaterClock ==
  \A i, j \in 1..Len(admitted) :
    /\ i < j
    /\ admitted[i].key = admitted[j].key
    /\ admitted[i].epoch = admitted[j].epoch
    => j - i > Capacity \/ admitted[i].exp <= admitted[j].high

\* A token is consumed only on the route it was bound to, so presenting it
\* elsewhere never burns it (accept.go: replay state is consumed only after every
\* cryptographic and binding check).
ConsumedOnItsRouteOnly ==
  \A i \in 1..Len(admitted) : admitted[i].route = admitted[i].bind

\* replay.go: "this guard rejects repeated callback tokens before they reach the
\* workflow service".  Taken at its word, up to the capacity bound: a token that
\* one process has admitted is not admitted again while it is valid.
RejectsRepeatedTokens ==
  \A i, j \in 1..Len(admitted) :
    /\ i < j
    /\ admitted[i].key = admitted[j].key
    /\ admitted[i].epoch = admitted[j].epoch
    /\ admitted[j].at < admitted[i].exp
    => j - i > Capacity

=============================================================================
