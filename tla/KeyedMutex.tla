----------------------------- MODULE KeyedMutex -----------------------------
(* What internal/locks promises: at most one holder for each key. *)
CONSTANTS Processes, Keys
VARIABLE holds      \* pairs <<process, key>> inside their critical section

MutexInit == holds = {}

Take(p, k) ==
  /\ \A q \in Processes : <<q, k>> \notin holds
  /\ holds' = holds \cup {<<p, k>>}

Give(p, k) ==
  /\ <<p, k>> \in holds
  /\ holds' = holds \ {<<p, k>>}

MutexNext == \E p \in Processes, k \in Keys : Take(p, k) \/ Give(p, k)

MutexSpec == MutexInit /\ [][MutexNext]_holds
=============================================================================
