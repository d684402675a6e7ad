----------------------------- MODULE NamedLocks -----------------------------
(***************************************************************************)
(* internal/locks: one mutex per key, created on demand and dropped with   *)
(* its last user.  Lock counts itself as a user under the mutex of the     *)
(* manager and waits for the mutex of the entry after leaving it; release  *)
(* frees the entry first and counts itself out afterwards.  An entry that  *)
(* is collected may be allocated again: Entries is the heap.               *)
(***************************************************************************)
EXTENDS Naturals, FiniteSets

CONSTANTS Processes, Keys, Entries, None

ASSUME ProcessesAreFinite == IsFiniteSet(Processes)
ASSUME NoneIsNothing == None \notin Entries \cup Processes
ASSUME HeapSuffices == IsFiniteSet(Entries) /\ Cardinality(Entries) >= Cardinality(Processes)

VARIABLES
  entries,    \* Manager.entries: key -> entry
  refs,       \* entry.refs
  locked,     \* entry.mu: the process that has it
  pc,         \* where each process is
  key, mine   \* its argument and the entry it found

vars == <<entries, refs, locked, pc, key, mine>>

Users(e) == {p \in Processes : pc[p] # "idle" /\ mine[p] = e}

TypeOK ==
  /\ entries \in [Keys -> Entries \cup {None}]
  /\ refs \in [Entries -> Nat]
  /\ locked \in [Entries -> Processes \cup {None}]
  /\ pc \in [Processes -> {"idle", "waiting", "holding", "releasing"}]
  /\ key \in [Processes -> Keys] /\ mine \in [Processes -> Entries]

Init ==
  /\ entries = [k \in Keys |-> None]
  /\ refs = [e \in Entries |-> 0]
  /\ locked = [e \in Entries |-> None]
  /\ pc = [p \in Processes |-> "idle"]
  /\ key \in [Processes -> Keys] /\ mine \in [Processes -> Entries]

-----------------------------------------------------------------------------
\* A new entry: any part of the heap nobody refers to.
Fresh(e) == (\A k \in Keys : entries[k] # e) /\ Users(e) = {}

\* The entry Lock works with under the mutex of the manager.
Found(k, e) == IF entries[k] = None THEN Fresh(e) ELSE e = entries[k]

\* Lock, up to m.mu.Unlock.
Lock(p, k, e) ==
  /\ pc[p] = "idle" /\ Found(k, e)
  /\ entries' = [entries EXCEPT ![k] = e]
  /\ refs' = [refs EXCEPT ![e] = (IF entries[k] = None THEN 0 ELSE @) + 1]
  /\ pc' = [pc EXCEPT ![p] = "waiting"]
  /\ key' = [key EXCEPT ![p] = k] /\ mine' = [mine EXCEPT ![p] = e]
  /\ locked' = IF entries[k] = None THEN [locked EXCEPT ![e] = None] ELSE locked

\* e.mu.Lock returns.
Enter(p) ==
  /\ pc[p] = "waiting" /\ locked[mine[p]] = None
  /\ locked' = [locked EXCEPT ![mine[p]] = p]
  /\ pc' = [pc EXCEPT ![p] = "holding"]
  /\ UNCHANGED <<entries, refs, key, mine>>

\* Fault: an entry without other users is about to be dropped and not worth unlocking.
UnlockIfShared(p) ==
  /\ pc[p] = "holding"
  /\ locked' = IF refs[mine[p]] = 1 THEN locked ELSE [locked EXCEPT ![mine[p]] = None]
  /\ pc' = [pc EXCEPT ![p] = "releasing"]
  /\ UNCHANGED <<entries, refs, key, mine>>

\* The release function, once: e.mu.Unlock ...
Unlock(p) ==
  /\ pc[p] = "holding"
  /\ locked' = [locked EXCEPT ![mine[p]] = None]
  /\ pc' = [pc EXCEPT ![p] = "releasing"]
  /\ UNCHANGED <<entries, refs, key, mine>>

\* ... and then, under the mutex of the manager, the count.
Drop(p) ==
  /\ pc[p] = "releasing"
  /\ refs' = [refs EXCEPT ![mine[p]] = @ - 1]
  /\ entries' = IF refs[mine[p]] = 1 THEN [entries EXCEPT ![key[p]] = None] ELSE entries
  /\ pc' = [pc EXCEPT ![p] = "idle"]
  /\ UNCHANGED <<locked, key, mine>>

Step(p) == (\E k \in Keys, e \in Entries : Lock(p, k, e)) \/ Enter(p) \/ Unlock(p) \/ Drop(p)

Next == \E p \in Processes : Step(p)

Spec == Init /\ [][Next]_vars

\* sync.Mutex hands itself to a starving waiter; a holder gives its lock back (every caller
\* defers the release), and a goroutine that can run does.
FairSpec ==
  Spec /\ \A p \in Processes : SF_vars(Enter(p)) /\ WF_vars(Unlock(p)) /\ WF_vars(Drop(p))

-----------------------------------------------------------------------------
\* The map holds an entry for exactly the keys in use, and it is the one all their users have:
\* an entry dropped too early splits the lock in two, one dropped too late leaks (ActiveKeys).
EntriesFollowUsers ==
  /\ \A p \in Processes : pc[p] # "idle" => entries[key[p]] = mine[p]
  /\ \A k \in Keys : entries[k] # None => \E p \in Users(entries[k]) : key[p] = k

\* Lock serializes the operations on one key, whatever entries came and went.
Mutex == INSTANCE KeyedMutex WITH holds <- {<<p, key[p]>> : p \in {q \in Processes : pc[q] = "holding"}}
ImplementsMutex == Mutex!MutexSpec

\* Whoever calls Lock gets it.
WaitersEnter == \A p \in Processes : pc[p] = "waiting" ~> pc[p] = "holding"
=============================================================================
