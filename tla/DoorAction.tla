----------------------------- MODULE DoorAction -----------------------------
(***************************************************************************)
(* internal/orchestration/action/door with resourceguard and topology:     *)
(* durable door commands.                                                  *)
(*                                                                         *)
(* A request is one execution (its id is a digest of the request).  The    *)
(* live execution itself is the reservation of its door: Start scans the   *)
(* store and creates the execution in two steps under startMu, and one     *)
(* process at a time owns the store (WriterGuard).  The apply node reads   *)
(* the lock, writes, and reads again; what it has done so far is lost with *)
(* the process, after which the engine runs it again under the same key.   *)
(* Nothing polls the store: Start only creates an execution, and its nodes *)
(* run inside a call of the host, Drive or the resolution of an approval   *)
(* or a reconciliation.  The engine (ADGO) and the lock are external.      *)
(* Doors can also be turned by hand.                                       *)
(***************************************************************************)
EXTENDS Naturals, FiniteSets

CONSTANTS
  Procs, Threads, ProcOf,   \* processes and their request handlers
  Doors,
  Requests,                 \* [id, door, desired]
  None,
  MaxCrashes, MaxManual, MaxRetries, MaxFaults    \* bounds of the model

Locks == {"locked", "unlocked"}

ASSUME RequestsAssumption ==
  \A r \in Requests : DOMAIN r = {"id", "door", "desired"} /\ r.door \in Doors /\ r.desired \in Locks
ASSUME ProcOfAssumption == ProcOf \in [Threads -> Procs]
ASSUME NoneAssumption == None \notin Procs /\ None \notin Threads /\ None \notin Requests

VARIABLES
  writer,     \* the process that holds the runtime root
  mutex,      \* per process: the thread in startMu
  pc, req,    \* per thread: where it is in Start, with which request
  driven,     \* the executions some call is running (RunLocal)
  st,         \* per request: the node its execution is at
  attempt,    \* per request: how far the worker's current attempt got
  lock,       \* the physical doors
  keys,       \* idempotency keys the lock's provider remembers
  approved, observed, confirmed,   \* history: sets of requests
  writes, retries, lost,   \* history: writes, operator retries, attempts lost after a write
  crashes, manual, faults  \* counters of the model's bounds

threadVars == <<mutex, pc, req>>
history == <<approved, observed, confirmed, writes, retries, lost>>
bounds == <<crashes, manual, faults>>
vars == <<writer, mutex, pc, req, driven, st, attempt, lock, keys, approved, observed, confirmed,
          writes, retries, lost, crashes, manual, faults>>

Terminal == {"completed", "denied", "aborted", "canceled", "failed"}
Nodes == {"absent", "created", "approval", "applying", "reconcile",
          "record-done", "record-denied", "record-aborted"} \cup Terminal
Attempts == {"none", "found", "write", "verify", "seen"}

TypeOK ==
  /\ writer \in Procs \cup {None}
  /\ mutex \in [Procs -> Threads \cup {None}]
  /\ pc \in [Threads -> {"idle", "entered", "admitted"}]
  /\ req \in [Threads -> Requests \cup {None}]
  /\ \A t \in Threads : pc[t] # "idle" => req[t] # None /\ mutex[ProcOf[t]] = t
  /\ driven \subseteq Requests
  /\ st \in [Requests -> Nodes]
  /\ attempt \in [Requests -> Attempts]
  /\ lock \in [Doors -> Locks]
  /\ keys \subseteq Requests
  /\ approved \subseteq Requests /\ observed \subseteq Requests /\ confirmed \subseteq Requests
  /\ writes \in [Requests -> Nat] /\ retries \in [Requests -> Nat] /\ lost \in [Requests -> Nat]
  /\ crashes \in Nat /\ manual \in Nat /\ faults \in Nat

Init ==
  /\ writer = None
  /\ mutex = [p \in Procs |-> None]
  /\ pc = [t \in Threads |-> "idle"]
  /\ req = [t \in Threads |-> None]
  /\ driven = {}
  /\ st = [r \in Requests |-> "absent"]
  /\ attempt = [r \in Requests |-> "none"]
  /\ lock \in [Doors -> Locks]
  /\ keys = {} /\ approved = {} /\ observed = {} /\ confirmed = {}
  /\ writes = [r \in Requests |-> 0]
  /\ retries = [r \in Requests |-> 0]
  /\ lost = [r \in Requests |-> 0]
  /\ crashes = 0 /\ manual = 0 /\ faults = 0

-----------------------------------------------------------------------------
\* A live execution holds its door, human waits and reconciliation included.
Live(r) == st[r] \notin Terminal \cup {"absent"}

\* AcquireWriter: refused while another process owns the runtime root.
AcquireWriter(p) ==
  /\ writer = None
  /\ writer' = p
  /\ UNCHANGED <<threadVars, driven, st, attempt, lock, keys, history, bounds>>

\* Start takes startMu.
Enter(t, r) ==
  /\ pc[t] = "idle" /\ ProcOf[t] = writer /\ mutex[ProcOf[t]] = None
  /\ pc' = [pc EXCEPT ![t] = "entered"]
  /\ req' = [req EXCEPT ![t] = r]
  /\ mutex' = [mutex EXCEPT ![ProcOf[t]] = t]
  /\ UNCHANGED <<writer, driven, st, attempt, lock, keys, history, bounds>>

Leave(t) ==
  /\ pc' = [pc EXCEPT ![t] = "idle"]
  /\ req' = [req EXCEPT ![t] = None]
  /\ mutex' = [mutex EXCEPT ![ProcOf[t]] = None]

\* Fault: only the execution that is being applied holds its door.
HeldWhileApplying(r) == \E q \in Requests \ {r} : q.door = r.door /\ st[q] = "applying"

\* Another live execution has reserved the door of r.
Held(r) == \E q \in Requests \ {r} : q.door = r.door /\ Live(q)

\* resourceguard.Check passes; the store is read, not changed.
CheckPasses(t) ==
  /\ pc[t] = "entered" /\ ~Held(req[t])
  /\ pc' = [pc EXCEPT ![t] = "admitted"]
  /\ UNCHANGED <<writer, mutex, req, driven, st, attempt, lock, keys, history, bounds>>

\* resourceguard.Check returns BusyError, or fails to read the store.
CheckFails(t) ==
  /\ pc[t] = "entered"
  /\ Leave(t)
  /\ UNCHANGED <<writer, driven, st, attempt, lock, keys, history, bounds>>

\* Load, and StartOrLoad when there is no such execution yet.
StartOrLoad(t) ==
  /\ pc[t] = "admitted"
  /\ st' = [st EXCEPT ![req[t]] = IF @ = "absent" THEN "created" ELSE @]
  /\ Leave(t)
  /\ UNCHANGED <<writer, driven, attempt, lock, keys, history, bounds>>

-----------------------------------------------------------------------------
\* Calls are made while some process owns the store.
Running == writer # None

\* The execution has ended, or waits for a person.
Settled(r) == st[r] \in Terminal \cup {"approval", "reconcile"}

\* A call that runs the execution: begun, or broken off because its context ends or
\* the store fails; an attempt it was at is made again by the next one.
Drives(r) == driven' = driven \cup {r}

Drive(r) ==
  /\ Running /\ st[r] # "absent" /\ ~Settled(r) /\ Drives(r)
  /\ UNCHANGED <<writer, threadVars, st, attempt, lock, keys, history, bounds>>

BreaksOff(r) ==
  /\ r \in driven /\ faults < MaxFaults
  /\ driven' = driven \ {r}
  /\ faults' = faults + 1
  /\ lost' = [lost EXCEPT ![r] = IF attempt[r] \in {"verify", "seen"} THEN @ + 1 ELSE @]
  /\ attempt' = [attempt EXCEPT ![r] = "none"]
  /\ UNCHANGED <<writer, threadVars, st, lock, keys, approved, observed, confirmed, writes, retries,
                 crashes, manual>>

Advance(r, from, to) == Running /\ st[r] = from /\ st' = [st EXCEPT ![r] = to]

\* Fault: unlocking is routed like locking.
RoutedToApply(r) == "applying"

\* routeRequestV1 and the edges of the route node.
RouteOf(r) == IF r.desired = "locked" THEN "applying" ELSE "approval"

\* validate-request and route-request.
Route(r) ==
  /\ Advance(r, "created", RouteOf(r))
  /\ UNCHANGED <<writer, threadVars, attempt, lock, keys, history, bounds>>

\* ResolveUnlockApproval: approve, reject or abort, and run the execution.
Approve(r) ==
  /\ Advance(r, "approval", "applying")
  /\ approved' = approved \cup {r} /\ Drives(r)
  /\ UNCHANGED <<writer, threadVars, attempt, lock, keys, observed, confirmed, writes, retries, lost, bounds>>

Deny(r) ==
  /\ Advance(r, "approval", "record-denied") \/ Advance(r, "approval", "record-aborted")
  /\ Drives(r)
  /\ UNCHANGED <<writer, threadVars, attempt, lock, keys, history, bounds>>

\* LockState before the write.  A read error is transient: the attempt is made
\* again or, when the retry policy gives up, the execution fails.
ReadBefore(r) ==
  /\ Running /\ st[r] = "applying" /\ attempt[r] = "none"
  /\ IF lock[r.door] = r.desired
       THEN attempt' = [attempt EXCEPT ![r] = "found"] /\ observed' = observed \cup {r}
       ELSE attempt' = [attempt EXCEPT ![r] = "write"] /\ UNCHANGED observed
  /\ UNCHANGED <<writer, threadVars, st, lock, keys, approved, confirmed, writes, retries, lost, bounds>>

GiveUpReading(r) ==
  /\ attempt[r] = "none" /\ faults < MaxFaults
  /\ Advance(r, "applying", "failed")
  /\ faults' = faults + 1
  /\ UNCHANGED <<writer, threadVars, attempt, lock, keys, history, crashes, manual>>

\* SetLockState answers: applied, already applied for this key, or ambiguous.
WriteAnswered(r) ==
  /\ Running /\ st[r] = "applying" /\ attempt[r] = "write"
  /\ \/ r \in keys /\ UNCHANGED <<lock, keys, faults>>
     \/ /\ r \notin keys
        /\ lock' = [lock EXCEPT ![r.door] = r.desired] /\ keys' = keys \cup {r}
        /\ UNCHANGED faults
     \/ /\ r \notin keys /\ faults < MaxFaults     \* EffectAmbiguous
        /\ \E l \in Locks : (l \in {r.desired, lock[r.door]}) /\ lock' = [lock EXCEPT ![r.door] = l]
        /\ faults' = faults + 1 /\ UNCHANGED keys
  /\ attempt' = [attempt EXCEPT ![r] = "verify"]
  /\ writes' = [writes EXCEPT ![r] = @ + 1]
  /\ UNCHANGED <<writer, threadVars, st, approved, observed, confirmed, retries, lost, crashes, manual>>

\* FailureAmbiguousSideEffect parks the node for an operator.
Ambiguous(r) == [node |-> "reconcile", attempt |-> "none"]

ParkAs(r, v) ==
  /\ st' = [st EXCEPT ![r] = v.node]
  /\ attempt' = [attempt EXCEPT ![r] = v.attempt]

\* SetLockState returns an error: the command may or may not have been carried out.
WriteLost(r) ==
  /\ Running /\ st[r] = "applying" /\ attempt[r] = "write" /\ faults < MaxFaults
  /\ \E l \in Locks, k \in SUBSET {r} :
       /\ l \in {r.desired, lock[r.door]}
       /\ r \in keys => l = lock[r.door]
       /\ lock' = [lock EXCEPT ![r.door] = l]
       /\ keys' = IF l = r.desired THEN keys \cup k ELSE keys
  /\ ParkAs(r, Ambiguous(r))
  /\ writes' = [writes EXCEPT ![r] = @ + 1]
  /\ faults' = faults + 1
  /\ UNCHANGED <<writer, threadVars, approved, observed, confirmed, retries, lost, crashes, manual>>

VerifiedState(r) == lock[r.door] = r.desired

\* LockState after the write: seen as desired, or ambiguous.
VerifySeen(r) ==
  /\ Running /\ st[r] = "applying" /\ attempt[r] = "verify" /\ VerifiedState(r)
  /\ attempt' = [attempt EXCEPT ![r] = "seen"]
  /\ observed' = IF lock[r.door] = r.desired THEN observed \cup {r} ELSE observed
  /\ UNCHANGED <<writer, threadVars, st, lock, keys, approved, confirmed, writes, retries, lost, bounds>>

VerifyFails(r) ==
  /\ Running /\ st[r] = "applying" /\ attempt[r] = "verify"
  /\ \/ lock[r.door] # r.desired /\ UNCHANGED faults
     \/ faults < MaxFaults /\ faults' = faults + 1
  /\ ParkAs(r, Ambiguous(r))
  /\ UNCHANGED <<writer, threadVars, lock, keys, history, crashes, manual>>

\* Fault: only a door found as desired completes, not one that was written.
CommitFound(r) ==
  /\ attempt[r] = "found"
  /\ Advance(r, "applying", "record-done")
  /\ attempt' = [attempt EXCEPT ![r] = "none"]
  /\ UNCHANGED <<writer, threadVars, lock, keys, history, bounds>>

\* The engine commits the completion of the apply node.
Commit(r) ==
  /\ attempt[r] \in {"found", "seen"}
  /\ Advance(r, "applying", "record-done")
  /\ attempt' = [attempt EXCEPT ![r] = "none"]
  /\ UNCHANGED <<writer, threadVars, lock, keys, history, bounds>>

\* ResolveReconciliation: confirm, retry or abort, and run the execution.
Confirm(r) ==
  /\ Advance(r, "reconcile", "record-done")
  /\ confirmed' = confirmed \cup {r} /\ Drives(r)
  /\ UNCHANGED <<writer, threadVars, attempt, lock, keys, approved, observed, writes, retries, lost, bounds>>

Retry(r) ==
  /\ retries[r] < MaxRetries
  /\ Advance(r, "reconcile", "applying")
  /\ retries' = [retries EXCEPT ![r] = @ + 1]
  /\ observed' = observed \ {r} /\ Drives(r)
  /\ UNCHANGED <<writer, threadVars, attempt, lock, keys, approved, confirmed, writes, lost, bounds>>

Abort(r) ==
  /\ Advance(r, "reconcile", "canceled")
  /\ UNCHANGED <<writer, threadVars, driven, attempt, lock, keys, history, bounds>>

\* recordResultV1 closes the execution.
Record(r) ==
  /\ \/ Advance(r, "record-done", "completed")
     \/ Advance(r, "record-denied", "denied")
     \/ Advance(r, "record-aborted", "aborted")
  /\ UNCHANGED <<writer, threadVars, attempt, lock, keys, history, bounds>>

\* Somebody turns the lock by hand.
TurnByHand(d) ==
  /\ manual < MaxManual
  /\ manual' = manual + 1
  /\ lock' = [lock EXCEPT ![d] = IF @ = "locked" THEN "unlocked" ELSE "locked"]
  /\ UNCHANGED <<writer, threadVars, driven, st, attempt, keys, history, crashes, faults>>

\* The owner dies.  The store keeps the executions; the threads, the mutex, the calls
\* and the attempts are gone, and the lease of a running node expires.
Crash ==
  /\ Running /\ crashes < MaxCrashes
  /\ crashes' = crashes + 1
  /\ writer' = None
  /\ mutex' = [p \in Procs |-> None]
  /\ pc' = [t \in Threads |-> "idle"]
  /\ req' = [t \in Threads |-> None]
  /\ driven' = {}
  /\ lost' = [r \in Requests |-> IF attempt[r] \in {"verify", "seen"} THEN lost[r] + 1 ELSE lost[r]]
  /\ attempt' = [r \in Requests |-> "none"]
  /\ UNCHANGED <<st, lock, keys, approved, observed, confirmed, writes, retries, manual, faults>>

\* A step of a call that runs the execution; it returns when the execution settles.
Worker(r) ==
  /\ r \in driven
  /\ \/ Route(r) \/ ReadBefore(r) \/ GiveUpReading(r) \/ WriteAnswered(r) \/ WriteLost(r)
     \/ VerifySeen(r) \/ VerifyFails(r) \/ Commit(r) \/ Record(r)
  /\ driven' = IF Settled(r)' THEN driven \ {r} ELSE driven

Call(r) == Drive(r) \/ BreaksOff(r)

Operator(r) == Approve(r) \/ Deny(r) \/ Confirm(r) \/ Retry(r) \/ Abort(r)

Caller(t) == CheckPasses(t) \/ CheckFails(t) \/ StartOrLoad(t)

Next ==
  \/ \E p \in Procs : AcquireWriter(p)
  \/ \E t \in Threads : Caller(t) \/ \E r \in Requests : Enter(t, r)
  \/ \E r \in Requests : Worker(r) \/ Operator(r) \/ Call(r)
  \/ \E d \in Doors : TurnByHand(d)
  \/ Crash

Spec == Init /\ [][Next]_vars

\* A call that runs an execution goes on with it.  That one is made, that a dead owner
\* is replaced and that a person answers is up to the host: nothing in the service.
FairSpec == Spec /\ \A r \in Requests : WF_vars(Worker(r))

-----------------------------------------------------------------------------
\* Two live executions never own one door, whoever starts them and whatever
\* crashes between the check and the creation (resourceguard, startMu, WriterGuard).
ReservationExclusive ==
  \A q, r \in Requests : q # r /\ q.door = r.door => ~(Live(q) /\ Live(r))

\* No unlock command is ever sent for an execution nobody approved.
NoUnlockWithoutApproval ==
  \A r \in Requests : r.desired = "unlocked" /\ writes[r] > 0 => r \in approved

\* Ambiguous writes are not blindly retried: each SetLockState after the first is
\* owed to an operator's retry, or to a crash or a call broken off that lost the answer.
NoBlindRetry == \A r \in Requests : writes[r] <= 1 + retries[r] + lost[r]

\* An execution that completed has seen the door in the desired state, or an
\* operator has vouched for it.
CompletedWasSeen ==
  \A r \in Requests : st[r] \in {"record-done", "completed"} => r \in observed \cup confirmed

\* A started execution ends or comes to wait for a person, unless from some time on
\* nobody runs it: no node, lost answer or broken call leaves it where calls do not
\* bring it on (Service.Drive over the nodes of handlers.go).
StartedSettles ==
  \A r \in Requests : st[r] = "created" ~> Settled(r) \/ [](r \notin driven)

\* The abstract reservation: what holds a door are the live executions.
Reservation == INSTANCE ResourceReservation WITH
  Executions <- Requests,
  ResourceOf <- [r \in Requests |-> r.door],
  held <- {r \in Requests : Live(r)},
  ended <- {r \in Requests : st[r] \in Terminal}

\* Every step of the door service reserves or releases a door as the guard
\* promises: for a whole execution, and once.
ReservesDoors == Reservation!Spec
=============================================================================
