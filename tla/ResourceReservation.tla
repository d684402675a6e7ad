------------------------ MODULE ResourceReservation ------------------------
(***************************************************************************)
(* What internal/orchestration/resourceguard promises to the door, siren   *)
(* and camera services: "a resource for the whole non-terminal execution". *)
(* An execution takes its resource when it is created, only while nobody   *)
(* holds it, gives it up when it ends, and never takes it again.           *)
(***************************************************************************)
EXTENDS Naturals

CONSTANTS Executions, ResourceOf    \* the resource each execution commands

VARIABLES
  held,      \* executions that hold their resource
  ended      \* executions that have given it up

vars == <<held, ended>>

Init == held = {} /\ ended = {}

Reserve(e) ==
  /\ e \notin held \cup ended
  /\ \A f \in held : ResourceOf[f] # ResourceOf[e]
  /\ held' = held \cup {e}
  /\ UNCHANGED ended

Release(e) ==
  /\ e \in held
  /\ held' = held \ {e}
  /\ ended' = ended \cup {e}

Next == \E e \in Executions : Reserve(e) \/ Release(e)

Spec == Init /\ [][Next]_vars
=============================================================================
