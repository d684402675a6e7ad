---------------------------- MODULE MCExecutions ----------------------------
(***************************************************************************)
(* Small instances of SirenAction (MCSirenAction), of CameraRecovery (two  *)
(* requests for one camera) and of the plans that outlive a release        *)
(* (ExecutionBundles).  They share no state: a behaviour is of one of      *)
(* them, which part names, and the others stay as they began.              *)
(***************************************************************************)
EXTENDS MCSirenAction

CONSTANTS
    yard, Cameras, CameraRequests, MaxFlaps, CameraCrashes,                             \* CameraRecovery
    Services, Executions, Releases, Active, Retained, Limits, MaxDeployments            \* ExecutionBundles

VARIABLES
    part,
    node, tried, facts, net, stream, tokens, calls, cut, allowed, verified, died, flaps, failed,
    service, release, limit, catalog, execution, deployments

OneCamera == {yard}
ForOneCamera == {[id |-> a, camera |-> yard], [id |-> b, camera |-> yard]}
\* A release of version 1, one that retains it beside version 2, one that does not.
ActiveVersions == <<1, 2, 2>>
RetainedVersions == <<{1}, {1, 2}, {2}>>

cameraVars == <<node, tried, facts, net, stream, tokens, calls, cut, allowed, verified, died, flaps, failed>>
bundleVars == <<service, release, limit, catalog, execution, deployments>>

C == INSTANCE CameraRecovery WITH
       Requests <- CameraRequests, MaxCrashes <- CameraCrashes,
       st <- node, attempt <- tried, keys <- tokens, lost <- cut, approved <- allowed,
       crashes <- died, faults <- failed
B == INSTANCE ExecutionBundles

MCInit ==
    /\ part \in {"siren", "camera", "bundles"}
    /\ Init /\ C!Init /\ B!Init
    /\ part # "siren" => enabled = {}
    /\ part # "camera" => net = {}
    /\ part # "bundles" => service = "door" /\ release = 1 /\ limit = 1
MCNext ==
    \/ part = "siren" /\ Next /\ UNCHANGED <<part, cameraVars, bundleVars>>
    \/ part = "camera" /\ C!Next /\ UNCHANGED <<part, vars, bundleVars>>
    \/ part = "bundles" /\ B!Next /\ UNCHANGED <<part, vars, cameraVars>>

(* The fairness of each part, which the others are not held to.              *)
MCFairness ==
    /\ \A r \in Requests : WF_vars(part = "siren" /\ Worker(r))
    /\ \A r \in CameraRequests : WF_cameraVars(part = "camera" /\ C!Worker(r))
    /\ WF_bundleVars(part = "bundles" /\ B!Open)
    /\ \A x \in Executions : WF_bundleVars(part = "bundles" /\ (B!Drive(x) \/ B!Answered(x)))
MCSpec == MCInit /\ [][MCNext]_<<part, vars, cameraVars, bundleVars>> /\ MCFairness

-----------------------------------------------------------------------------
(* What is recorded of a camera is what happened (CameraRecovery).           *)
RecordIsTrue == C!RecordIsTrue
(* Reconnects are bounded by the plan and the known causes (CameraRecovery). *)
RepairIsBounded == C!RepairIsBounded
(* An execution runs the plan it was started with (ExecutionBundles).        *)
FollowsItsPlan == B!FollowsItsPlan
(* Once its plan is retained again an execution comes to its end.            *)
StartedEnds == B!StartedEnds
(* An execution whose siren sounds does not wait for ever: it ends, or it is *)
(* parked because the outcome of the disable command is unknown.  It is      *)
(* claimed only where nobody switches sirens by hand: a provider that has    *)
(* answered a compensation does not carry it out again for the same key.     *)
(* And a recovery of a camera that was started ends or waits for a person.   *)
(* They are one property because nothing is due of the part that does not    *)
(* run (Service.Serve of both packages, the node safety-timer).              *)
Activation(id) == CHOOSE r \in Requests : r.id = id
Recovery(id) == CHOOSE r \in CameraRequests : r.id = id
Due(id) == st[Activation(id)] = "sounding" \/ node[Recovery(id)] = "validate-request"
Settled(id) ==
    IF part = "siren"
    THEN st[Activation(id)] \in Terminal \cup {"reconcile-disable"} \/ manual > 0
    ELSE node[Recovery(id)] \in C!Terminal \cup {"operator-recovery", "reconcile"}
ExecutionsSettle == \A id \in {a, b} : Due(id) ~> Settled(id)
=============================================================================
