---------------------------- MODULE MCDoorAction ----------------------------
(* Small instances of DoorAction: two processes, of which one has two        *)
(* handlers, and two requests for one door.                                  *)
EXTENDS DoorAction

CONSTANTS p1, p2, t1, t2, t3, front, a, b

MCProcs == {p1, p2}
MCThreads == {t1, t2, t3}
MCProcOf == [t \in MCThreads |-> IF t = t3 THEN p2 ELSE p1]
OneDoor == {front}
LockFront == [id |-> a, door |-> front, desired |-> "locked"]
UnlockFront == [id |-> b, door |-> front, desired |-> "unlocked"]
FrontRequests == {LockFront, UnlockFront}
=============================================================================
