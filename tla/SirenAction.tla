---------------------------- MODULE SirenAction ----------------------------
(***************************************************************************)
(* internal/orchestration/action/siren: bounded siren activation.          *)
(*                                                                         *)
(* A request is one execution: enable the siren, wait for the maximum      *)
(* activation time, disable it, record.  The enable node carries the       *)
(* compensation SirenEnsureDisabled, which the engine runs when Stop       *)
(* cancels the execution.  Both effect nodes read the siren, write and     *)
(* read again; a write whose outcome is unknown parks the node for         *)
(* reconciliation, and the siren service has no operation that resolves    *)
(* such a node.  The engine (ADGO) and the siren are external; a failing   *)
(* compensation is run again, and a cancellation takes effect between two  *)
(* attempts of a node.                                                     *)
(***************************************************************************)
EXTENDS Naturals, FiniteSets

CONSTANTS
  Threads,        \* callers of Start in one process
  Sirens,
  Requests,       \* [id, siren]
  None,
  Eager,          \* the engine compensates failed executions and enables of unknown outcome
  MaxCrashes, MaxManual, MaxFaults    \* bounds of the model

ASSUME RequestsAssumption == \A r \in Requests : DOMAIN r = {"id", "siren"} /\ r.siren \in Sirens
ASSUME EagerAssumption == Eager \in BOOLEAN
ASSUME NoneAssumption == None \notin Threads /\ None \notin Requests

VARIABLES
  mutex,      \* the thread in startMu
  pc, req,    \* per thread: where it is in Start, with which request
  st,         \* per request: the node its execution is at
  attempt,    \* per request: how far the worker's current attempt got
  enabled,    \* the sirens that sound
  keys,       \* idempotency keys the provider remembers: <<request, node>>
  owed,       \* requests whose enable node completed: compensation is due
  seenOff,    \* history: owed requests that have observed their siren off since
  enables, lost,            \* history: enable writes, and those whose answer a crash lost
  crashes, manual, faults   \* counters of the model's bounds

threadVars == <<mutex, pc, req>>
history == <<seenOff, enables, lost>>
bounds == <<crashes, manual, faults>>
vars == <<mutex, pc, req, st, attempt, enabled, keys, owed, seenOff, enables, lost,
          crashes, manual, faults>>

Terminal == {"completed", "canceled", "failed"}
Effects == {"enabling", "disabling", "compensating"}
Parked == {"reconcile-enable", "reconcile-disable"}
Nodes == {"absent", "created", "sounding", "recording"} \cup Effects \cup Parked \cup Terminal
Attempts == {"none", "found", "write", "verify", "seen"}

TypeOK ==
  /\ mutex \in Threads \cup {None}
  /\ pc \in [Threads -> {"idle", "entered", "admitted"}]
  /\ req \in [Threads -> Requests \cup {None}]
  /\ \A t \in Threads : pc[t] # "idle" => req[t] # None /\ mutex = t
  /\ st \in [Requests -> Nodes]
  /\ attempt \in [Requests -> Attempts]
  /\ enabled \subseteq Sirens
  /\ keys \subseteq Requests \X Effects
  /\ owed \subseteq Requests /\ seenOff \subseteq Requests
  /\ enables \in [Requests -> Nat] /\ lost \in [Requests -> Nat]
  /\ crashes \in Nat /\ manual \in Nat /\ faults \in Nat

Init ==
  /\ mutex = None
  /\ pc = [t \in Threads |-> "idle"]
  /\ req = [t \in Threads |-> None]
  /\ st = [r \in Requests |-> "absent"]
  /\ attempt = [r \in Requests |-> "none"]
  /\ enabled \in SUBSET Sirens
  /\ keys = {} /\ owed = {} /\ seenOff = {}
  /\ enables = [r \in Requests |-> 0]
  /\ lost = [r \in Requests |-> 0]
  /\ crashes = 0 /\ manual = 0 /\ faults = 0

-----------------------------------------------------------------------------
\* Start takes startMu.
Enter(t, r) ==
  /\ pc[t] = "idle" /\ mutex = None
  /\ mutex' = t
  /\ pc' = [pc EXCEPT ![t] = "entered"]
  /\ req' = [req EXCEPT ![t] = r]
  /\ UNCHANGED <<st, attempt, enabled, keys, owed, history, bounds>>

Leave(t) ==
  /\ pc' = [pc EXCEPT ![t] = "idle"]
  /\ req' = [req EXCEPT ![t] = None]
  /\ mutex' = None

\* A live execution holds its siren, the safety wait included.
Live(r) == st[r] \notin Terminal \cup {"absent"}

Held(r) == \E q \in Requests \ {r} : q.siren = r.siren /\ Live(q)

\* resourceguard.Check passes, or returns BusyError or a store error.
CheckPasses(t) ==
  /\ pc[t] = "entered" /\ ~Held(req[t])
  /\ pc' = [pc EXCEPT ![t] = "admitted"]
  /\ UNCHANGED <<mutex, req, st, attempt, enabled, keys, owed, history, bounds>>

CheckFails(t) ==
  /\ pc[t] = "entered"
  /\ Leave(t)
  /\ UNCHANGED <<st, attempt, enabled, keys, owed, history, bounds>>

\* Load, and StartOrLoad when there is no such execution yet.
StartOrLoad(t) ==
  /\ pc[t] = "admitted"
  /\ st' = [st EXCEPT ![req[t]] = IF @ = "absent" THEN "created" ELSE @]
  /\ Leave(t)
  /\ UNCHANGED <<attempt, enabled, keys, owed, history, bounds>>

-----------------------------------------------------------------------------
Advance(r, from, to) == st[r] = from /\ st' = [st EXCEPT ![r] = to]

\* validate-request.
Validate(r) ==
  /\ Advance(r, "created", "enabling")
  /\ UNCHANGED <<threadVars, attempt, enabled, keys, owed, history, bounds>>

At(r, step) == st[r] \in Effects /\ attempt[r] = step

\* setEnabled(true) for the enable node; false for disable and compensation.
Desired(r) == st[r] = "enabling"

Sounds(r) == r.siren \in enabled

\* The state that is read is the desired one.
AsDesired(r) == Sounds(r) = Desired(r)

Observed(r) == IF r \in owed /\ ~Sounds(r) THEN seenOff \cup {r} ELSE seenOff

\* Enabled is read before the write: already as desired, or a write is needed.
ReadBefore(r) ==
  /\ At(r, "none")
  /\ attempt' = [attempt EXCEPT ![r] = IF AsDesired(r) THEN "found" ELSE "write"]
  /\ seenOff' = Observed(r)
  /\ UNCHANGED <<threadVars, st, enabled, keys, owed, enables, lost, bounds>>

\* The reads of a node keep failing: the retry policy gives the execution up.
GiveUpReading(r) ==
  /\ At(r, "none") /\ st[r] # "compensating" /\ faults < MaxFaults
  /\ st' = [st EXCEPT ![r] = IF r \in owed /\ Eager THEN "compensating" ELSE "failed"]
  /\ faults' = faults + 1
  /\ UNCHANGED <<threadVars, attempt, enabled, keys, owed, history, crashes, manual>>

\* The siren after a SetEnabled that was carried out.
Carried(r) == IF Desired(r) THEN enabled \cup {r.siren} ELSE enabled \ {r.siren}

Counted(r) == enables' = IF Desired(r) THEN [enables EXCEPT ![r] = @ + 1] ELSE enables

\* SetEnabled answers: applied, or already applied for this key.
WriteAnswered(r) ==
  /\ At(r, "write")
  /\ IF <<r, st[r]>> \in keys
       THEN UNCHANGED <<enabled, keys>>
       ELSE enabled' = Carried(r) /\ keys' = keys \cup {<<r, st[r]>>}
  /\ attempt' = [attempt EXCEPT ![r] = "verify"]
  /\ Counted(r)
  /\ UNCHANGED <<threadVars, st, owed, seenOff, lost, bounds>>

\* Where an unknown outcome leaves the execution: FailureAmbiguousSideEffect
\* parks a node; an error of the compensation has the engine run it again.
Unknown(r) ==
  CASE st[r] = "enabling" -> "reconcile-enable"
    [] st[r] = "disabling" -> "reconcile-disable"
    [] st[r] = "compensating" -> "compensating"

Park(r) ==
  /\ st' = [st EXCEPT ![r] = Unknown(r)]
  /\ attempt' = [attempt EXCEPT ![r] = "none"]

\* SetEnabled returns an error: the command may or may not have been carried out.
WriteLost(r) ==
  /\ At(r, "write") /\ faults < MaxFaults
  /\ \/ UNCHANGED <<enabled, keys>>
     \/ <<r, st[r]>> \notin keys /\ enabled' = Carried(r) /\ keys' = keys \cup {<<r, st[r]>>}
  /\ Park(r)
  /\ Counted(r)
  /\ faults' = faults + 1
  /\ UNCHANGED <<threadVars, owed, seenOff, lost, crashes, manual>>

\* Enabled is read again: as desired, or the outcome is unknown.
VerifySeen(r) ==
  /\ At(r, "verify") /\ AsDesired(r)
  /\ attempt' = [attempt EXCEPT ![r] = "seen"]
  /\ seenOff' = Observed(r)
  /\ UNCHANGED <<threadVars, st, enabled, keys, owed, enables, lost, bounds>>

VerifyFails(r) ==
  /\ At(r, "verify")
  /\ \/ ~AsDesired(r) /\ UNCHANGED faults
     \/ faults < MaxFaults /\ faults' = faults + 1
  /\ Park(r)
  /\ UNCHANGED <<threadVars, enabled, keys, owed, history, crashes, manual>>

\* The node after an effect, as the edges of the plan have it; whatever was
\* compensated ends as canceled here.
After(node) ==
  CASE node = "enabling" -> "sounding"
    [] node = "disabling" -> "recording"
    [] node = "compensating" -> "canceled"

\* The engine commits the completion of an effect node or of the compensation.
Commit(r) ==
  /\ At(r, "found") \/ At(r, "seen")
  /\ st' = [st EXCEPT ![r] = After(@)]
  /\ attempt' = [attempt EXCEPT ![r] = "none"]
  /\ owed' = IF st[r] = "enabling" THEN owed \cup {r} ELSE owed
  /\ UNCHANGED <<threadVars, enabled, keys, history, bounds>>

\* Fault: the wait node has no deadline.
NoTimer(r) == FALSE /\ UNCHANGED vars

\* safety-timer: the wait is over after MaxActivationDuration.
SafetyTimer(r) ==
  /\ Advance(r, "sounding", "disabling")
  /\ UNCHANGED <<threadVars, attempt, enabled, keys, owed, history, bounds>>

\* record-result.
Record(r) ==
  /\ Advance(r, "recording", "completed")
  /\ UNCHANGED <<threadVars, attempt, enabled, keys, owed, history, bounds>>

\* Fault: cancelling does not compensate what was enabled.
JustCanceled(r) == "canceled"

\* What Cancel makes of an execution: the compensation of a completed enable
\* node, and of an enable of unknown outcome if the engine is eager.
CancelTo(r) ==
  IF r \in owed \/ (Eager /\ st[r] = "reconcile-enable") THEN "compensating" ELSE "canceled"

\* Stop: engine.Cancel between two attempts of a live execution.
Stop(r) ==
  /\ Live(r) /\ st[r] # "compensating" /\ attempt[r] = "none"
  /\ st' = [st EXCEPT ![r] = CancelTo(r)]
  /\ UNCHANGED <<threadVars, attempt, enabled, keys, owed, history, bounds>>

\* Somebody switches a siren by hand.
SwitchByHand(s) ==
  /\ manual < MaxManual
  /\ manual' = manual + 1
  /\ enabled' = IF s \in enabled THEN enabled \ {s} ELSE enabled \cup {s}
  /\ UNCHANGED <<threadVars, st, attempt, keys, owed, history, crashes, faults>>

\* The process dies and is started again: executions and timers are durable,
\* callers and attempts are not.
Crash ==
  /\ crashes < MaxCrashes
  /\ crashes' = crashes + 1
  /\ mutex' = None
  /\ pc' = [t \in Threads |-> "idle"]
  /\ req' = [t \in Threads |-> None]
  /\ lost' = [r \in Requests |-> IF st[r] = "enabling" /\ attempt[r] \in {"verify", "seen"}
                             THEN lost[r] + 1 ELSE lost[r]]
  /\ attempt' = [r \in Requests |-> "none"]
  /\ UNCHANGED <<st, enabled, keys, owed, seenOff, enables, manual, faults>>

Worker(r) ==
  \/ Validate(r) \/ ReadBefore(r) \/ GiveUpReading(r) \/ WriteAnswered(r) \/ WriteLost(r)
  \/ VerifySeen(r) \/ VerifyFails(r) \/ Commit(r) \/ SafetyTimer(r) \/ Record(r)

Caller(t) == CheckPasses(t) \/ CheckFails(t) \/ StartOrLoad(t)

Next ==
  \/ \E t \in Threads : Caller(t) \/ \E r \in Requests : Enter(t, r)
  \/ \E r \in Requests : Worker(r) \/ Stop(r)
  \/ \E s \in Sirens : SwitchByHand(s)
  \/ Crash

Spec == Init /\ [][Next]_vars

\* Service.Serve polls for as long as the process runs, timers included.
FairSpec == Spec /\ \A r \in Requests : WF_vars(Worker(r))

-----------------------------------------------------------------------------
\* An execution that completed, or was stopped after it had enabled the siren,
\* has seen the siren silent since: the disable node and the compensation
\* verify what they wrote, whatever crashed or was switched in between.
EndedInSilence ==
  \A r \in Requests :
    st[r] \in {"recording", "completed"} \/ (st[r] = "canceled" /\ r \in owed) => r \in seenOff

\* The siren is switched on once per execution: a second enable command is sent
\* only for an attempt whose answer a crash has lost.
EnabledOnce == \A r \in Requests : enables[r] <= 1 + lost[r]

\* docs/THREAT_MODEL.md: "Siren enable has a bounded deadline and ensure-disabled
\* compensation" - a siren that a request has switched on falls silent.
EnableIsBounded ==
  \A r \in Requests : (Live(r) /\ Sounds(r)) ~> ~Sounds(r)

\* The abstract reservation: what holds a siren are the live executions.
Reservation == INSTANCE ResourceReservation WITH
  Executions <- Requests,
  ResourceOf <- [r \in Requests |-> r.siren],
  held <- {r \in Requests : Live(r)},
  ended <- {r \in Requests : st[r] \in Terminal}

\* A siren belongs to one execution from its creation to its end, so no other
\* execution's disable can cut an activation short (resourceguard, startMu).
ReservesSirens == Reservation!Spec
=============================================================================
