--------------------------- MODULE CameraRecovery ---------------------------
(***************************************************************************)
(* internal/orchestration/recovery/camera: durable camera recovery.        *)
(*                                                                         *)
(* A request is one execution: probe the network and the stream, reconnect *)
(* once, verify, ask an operator, reconnect once more, verify.  Probes are *)
(* stored as facts that decision nodes read later, while the camera may    *)
(* change.  A reconnect whose outcome is unknown is parked for a           *)
(* reconciliation the service has no operation for.  The engine (ADGO) and *)
(* the camera are external.  Start is one step here: startMu serialises    *)
(* every creation, and all that can happen between its check and its       *)
(* creation is that executions end.                                        *)
(***************************************************************************)
EXTENDS Naturals, FiniteSets

CONSTANTS
  Cameras,
  Requests,       \* [id, camera]
  MaxCrashes, MaxFlaps, MaxFaults    \* bounds of the model

VARIABLES
  st,         \* per request: the node its execution is at
  attempt,    \* per request: how far the current attempt of a reconnect got
  facts,      \* per request: durable probe results
  net, stream,          \* cameras whose network, whose stream is up
  keys,                 \* idempotency keys the provider remembers: <<request, node>>
  calls, lost,          \* history: reconnect calls, and those a crash interrupted
  approved, verified,   \* history: operator approvals, streams seen up since the last reconnect
  crashes, flaps, faults

history == <<calls, lost, approved, verified>>
bounds == <<crashes, flaps, faults>>
world == <<net, stream, keys>>
vars == <<st, attempt, facts, net, stream, keys, calls, lost, approved, verified, crashes, flaps, faults>>

Outcomes == {"healthy", "recovered", "failed", "rejected", "canceled"}
RecordNode == [healthy |-> "record-healthy", recovered |-> "record-recovered", failed |-> "record-failed",
               rejected |-> "record-rejected", canceled |-> "record-canceled"]
Record(o) == RecordNode[o]
Records == {Record(o) : o \in Outcomes}
Terminal == Outcomes \cup {"gave-up"}
Probes == {"probe-network", "probe-stream", "verify-stream", "verify-after-operator"}
Decides == {"decide-network", "decide-stream", "decide-verify", "decide-final"}
Reconnects == {"reconnect", "reconnect-after-operator"}
Nodes == {"absent", "validate-request", "operator-recovery", "reconcile"}
           \cup Probes \cup Decides \cup Reconnects \cup Records \cup Terminal
Facts == {"network_ok", "stream_ok", "verify_ok", "verify_final_ok"}

Init ==
  /\ st = [r \in Requests |-> "absent"]
  /\ attempt = [r \in Requests |-> "none"]
  /\ facts = [r \in Requests |-> [f \in Facts |-> "none"]]
  /\ net \in SUBSET Cameras /\ stream \in SUBSET net
  /\ keys = {}
  /\ calls = [r \in Requests |-> 0] /\ lost = [r \in Requests |-> 0]
  /\ approved = {} /\ verified = {}
  /\ crashes = 0 /\ flaps = 0 /\ faults = 0

-----------------------------------------------------------------------------
Live(r) == st[r] \notin Terminal \cup {"absent"}

Held(r) == \E q \in Requests \ {r} : q.camera = r.camera /\ Live(q)

\* Start: resourceguard.Check, Load and StartOrLoad under startMu.
Start(r) ==
  /\ st[r] = "absent" /\ ~Held(r)
  /\ st' = [st EXCEPT ![r] = "validate-request"]
  /\ UNCHANGED <<attempt, facts, world, history, bounds>>

Goto(r, to) == st' = [st EXCEPT ![r] = to]

Validate(r) ==
  /\ st[r] = "validate-request" /\ Goto(r, "probe-network")
  /\ UNCHANGED <<attempt, facts, world, history, bounds>>

\* The fact a probe node produces, and the node after it.
Produces(node) ==
  CASE node = "probe-network" -> "network_ok"
    [] node = "probe-stream" -> "stream_ok"
    [] node = "verify-stream" -> "verify_ok"
    [] node = "verify-after-operator" -> "verify_final_ok"

AfterProbe(node) ==
  CASE node = "probe-network" -> "decide-network"
    [] node = "probe-stream" -> "decide-stream"
    [] node = "verify-stream" -> "decide-verify"
    [] node = "verify-after-operator" -> "decide-final"

\* probeNetwork and probeStream: the answer is stored as a fact.
Probe(r) ==
  /\ st[r] \in Probes
  /\ LET up == r.camera \in (IF st[r] = "probe-network" THEN net ELSE stream) IN
       /\ facts' = [facts EXCEPT ![r][Produces(st[r])] = IF up THEN "yes" ELSE "no"]
       /\ verified' = IF up /\ st[r] # "probe-network" THEN verified \cup {r} ELSE verified
  /\ Goto(r, AfterProbe(st[r]))
  /\ UNCHANGED <<attempt, world, calls, lost, approved, bounds>>

\* A probe keeps failing until the retry policy gives the execution up.
GiveUpProbing(r) ==
  /\ st[r] \in Probes /\ faults < MaxFaults
  /\ faults' = faults + 1
  /\ Goto(r, "gave-up")
  /\ UNCHANGED <<attempt, facts, world, history, crashes, flaps>>

-----------------------------------------------------------------------------
\* Fault: the first probe is looked at before the verifications.
DecideOldest(f) ==
  IF f["stream_ok"] # "none" THEN IF f["stream_ok"] = "yes" THEN "pass" ELSE "repair"
  ELSE IF f["verify_ok"] # "none" THEN IF f["verify_ok"] = "yes" THEN "pass" ELSE "human"
  ELSE IF f["verify_final_ok"] = "yes" THEN "pass" ELSE "human"

\* decideStream: one handler for three nodes, which takes the latest verification
\* that is stored.
DecideStream(f) ==
  IF f["verify_final_ok"] # "none" THEN IF f["verify_final_ok"] = "yes" THEN "pass" ELSE "human"
  ELSE IF f["verify_ok"] # "none" THEN IF f["verify_ok"] = "yes" THEN "pass" ELSE "human"
  ELSE IF f["stream_ok"] = "yes" THEN "pass" ELSE "repair"

Decision(r) ==
  IF st[r] = "decide-network"
    THEN IF facts[r]["network_ok"] = "yes" THEN "pass" ELSE "human"
    ELSE DecideStream(facts[r])

\* Fault: a stream that is still down after the reconnect counts as recovered.
NodeAfterLenient(node, outcome) ==
  { e[3] : e \in {x \in { <<"decide-network", "pass", "probe-stream">>,
    <<"decide-network", "human", "operator-recovery">>, <<"decide-stream", "pass", Record("healthy")>>,
    <<"decide-stream", "repair", "reconnect">>, <<"decide-verify", "pass", Record("recovered")>>,
    <<"decide-verify", "human", Record("recovered")>>, <<"decide-final", "pass", Record("recovered")>>,
    <<"decide-final", "human", Record("failed")>> } : x[1] = node /\ x[2] = outcome} }

\* The edges of the decision nodes; none for an outcome without an edge.
Edges ==
  { <<"decide-network", "pass", "probe-stream">>, <<"decide-network", "human", "operator-recovery">>,
    <<"decide-stream", "pass", Record("healthy")>>, <<"decide-stream", "repair", "reconnect">>,
    <<"decide-verify", "pass", Record("recovered")>>, <<"decide-verify", "human", "operator-recovery">>,
    <<"decide-final", "pass", Record("recovered")>>, <<"decide-final", "human", Record("failed")>> }

NodeAfter(node, outcome) == {e[3] : e \in {x \in Edges : x[1] = node /\ x[2] = outcome}}

Decide(r) ==
  /\ st[r] \in Decides
  /\ \E to \in NodeAfter(st[r], Decision(r)) : Goto(r, to)
  /\ UNCHANGED <<attempt, facts, world, history, bounds>>

\* ResolveOperator: retry, reject or abort, for a node that waits for it.
Approve(r) ==
  /\ st[r] = "operator-recovery" /\ Goto(r, "reconnect-after-operator")
  /\ approved' = approved \cup {r}
  /\ UNCHANGED <<attempt, facts, world, calls, lost, verified, bounds>>

Refuse(r) ==
  /\ st[r] = "operator-recovery" /\ \E o \in {"rejected", "canceled"} : Goto(r, Record(o))
  /\ UNCHANGED <<attempt, facts, world, history, bounds>>

-----------------------------------------------------------------------------
Calling(r) ==
  /\ st[r] \in Reconnects /\ attempt[r] = "none"
  /\ calls' = [calls EXCEPT ![r] = @ + 1]
  /\ verified' = verified \ {r}

\* A reconnect may bring the stream of a reachable camera up.
Reconnected(r) == stream' \in {stream} \cup (IF r.camera \in net THEN {stream \cup {r.camera}} ELSE {})

\* Reconnect answers: applied or already applied, or ambiguous.
ReconnectAnswers(r) ==
  /\ Calling(r)
  /\ \/ <<r, st[r]>> \in keys /\ UNCHANGED <<stream, keys, faults>> /\ attempt' = [attempt EXCEPT ![r] = "answered"]
     \/ /\ <<r, st[r]>> \notin keys /\ Reconnected(r) /\ keys' = keys \cup {<<r, st[r]>>}
        /\ attempt' = [attempt EXCEPT ![r] = "answered"] /\ UNCHANGED faults
     \/ /\ <<r, st[r]>> \notin keys /\ Reconnected(r) /\ UNCHANGED keys
        /\ faults < MaxFaults /\ faults' = faults + 1
        /\ attempt' = [attempt EXCEPT ![r] = "ambiguous"]
  /\ UNCHANGED <<st, facts, net, lost, approved, crashes, flaps>>

\* Fault: a reconnect of unknown outcome is made again.
TryAgain(r) == st[r]

\* FailureAmbiguousSideEffect parks the node.
Parked(r) == "reconcile"

\* Reconnect returns an error; it may have been carried out.
ReconnectLost(r) ==
  /\ Calling(r) /\ faults < MaxFaults
  /\ \/ Reconnected(r) /\ <<r, st[r]>> \notin keys /\ keys' = keys \cup {<<r, st[r]>>}
     \/ UNCHANGED <<stream, keys>>
  /\ Goto(r, Parked(r))
  /\ faults' = faults + 1
  /\ UNCHANGED <<attempt, facts, net, lost, approved, crashes, flaps>>

\* An ambiguous answer is settled by one probe of the stream.
SettleByProbe(r) ==
  /\ attempt[r] = "ambiguous"
  /\ IF r.camera \in stream
       THEN attempt' = [attempt EXCEPT ![r] = "answered"] /\ UNCHANGED st
       ELSE attempt' = [attempt EXCEPT ![r] = "none"] /\ Goto(r, Parked(r))
  /\ UNCHANGED <<facts, world, history, bounds>>

\* The engine commits the completion of the reconnect.
CommitReconnect(r) ==
  /\ attempt[r] = "answered"
  /\ attempt' = [attempt EXCEPT ![r] = "none"]
  /\ Goto(r, IF st[r] = "reconnect" THEN "verify-stream" ELSE "verify-after-operator")
  /\ UNCHANGED <<facts, world, history, bounds>>

\* record: the execution ends.
RecordOutcome(r) ==
  /\ \E o \in Outcomes : st[r] = Record(o) /\ Goto(r, o)
  /\ UNCHANGED <<attempt, facts, world, history, bounds>>

\* The camera's network and stream come and go.
Flap ==
  /\ flaps < MaxFlaps /\ flaps' = flaps + 1
  /\ \E c \in Cameras :
       \/ c \in net /\ net' = net \ {c} /\ stream' = stream \ {c}
       \/ c \notin net /\ net' = net \cup {c} /\ UNCHANGED stream
       \/ c \in stream /\ stream' = stream \ {c} /\ UNCHANGED net
       \/ c \in net \ stream /\ stream' = stream \cup {c} /\ UNCHANGED net
  /\ UNCHANGED <<st, attempt, facts, keys, history, crashes, faults>>

\* The process dies: a reconnect in progress runs again under the same key.
Crash ==
  /\ crashes < MaxCrashes /\ crashes' = crashes + 1
  /\ lost' = [r \in Requests |-> IF attempt[r] # "none" THEN lost[r] + 1 ELSE lost[r]]
  /\ attempt' = [r \in Requests |-> "none"]
  /\ UNCHANGED <<st, facts, world, calls, approved, verified, flaps, faults>>

Worker(r) ==
  \/ Validate(r) \/ Probe(r) \/ GiveUpProbing(r) \/ Decide(r) \/ ReconnectAnswers(r) \/ ReconnectLost(r)
  \/ SettleByProbe(r) \/ CommitReconnect(r) \/ RecordOutcome(r)

Next ==
  \/ \E r \in Requests : Start(r) \/ Worker(r) \/ Approve(r) \/ Refuse(r)
  \/ Flap
  \/ Crash

Spec == Init /\ [][Next]_vars

\* Service.Serve drives every execution for as long as the process runs.
Fairness == \A r \in Requests : WF_vars(Worker(r))

-----------------------------------------------------------------------------
\* What is recorded is what happened: a healthy camera was not touched, a
\* recovered one was reconnected and its stream seen up after the last reconnect,
\* a failed one had its operator attempt and was not.
RecordIsTrue ==
  \A r \in Requests :
    /\ st[r] \in {Record("healthy"), "healthy"} => calls[r] = 0 /\ r \in verified
    /\ st[r] \in {Record("recovered"), "recovered"} => calls[r] > 0 /\ r \in verified
    /\ st[r] \in {Record("failed"), "failed"} => r \in approved /\ r \notin verified

\* "bounded stateful camera recovery": one reconnect by the machine, and only for a
\* camera whose network answered, one more by an operator; anything above is a
\* call whose answer a crash has lost.
RepairIsBounded ==
  \A r \in Requests :
    /\ calls[r] <= lost[r] + (IF facts[r]["network_ok"] = "yes" THEN 1 ELSE 0)
                           + (IF r \in approved THEN 1 ELSE 0)
    /\ st[r] = "reconnect" => facts[r]["stream_ok"] = "no"

=============================================================================
