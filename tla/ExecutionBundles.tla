-------------------------- MODULE ExecutionBundles --------------------------
(***************************************************************************)
(* Executions outlive the release, and the configuration, that started     *)
(* them.  Each service (orchestration/.../bundle.go) keeps a catalog of    *)
(* the plans it can run: door, camera and incident those its release       *)
(* retains, siren those it can compile again from the version that its     *)
(* unfinished executions bear.  A service that finds an unfinished         *)
(* execution of another plan does not open; one that is open runs every    *)
(* execution in the engine of the plan it was started with.  The services  *)
(* have a store each and know nothing of one another: a behaviour is of    *)
(* one of them.                                                            *)
(*                                                                         *)
(*   plan       [service, version, limit]: limit is the longest sounding   *)
(*              of a siren, 0 for the others                               *)
(*   execution  [plan, at, ran, status]: its next node, and those that ran *)
(***************************************************************************)
EXTENDS Naturals, SequencesExt

CONSTANTS
    Services,                   \* among "door", "camera", "incident", "siren"
    Executions,
    Releases,                   \* numbers
    Active, Retained,           \* Releases -> version, Releases -> SUBSET versions
    Limits,                     \* what MaxActivationDuration may be configured to
    MaxDeployments

VARIABLES
    service,
    release, limit,             \* what is installed and configured
    catalog,                    \* the plans the open service can run; {} if it is closed
    execution, deployments

vars == <<service, release, limit, catalog, execution, deployments>>
Unstarted == [none |-> TRUE]

-----------------------------------------------------------------------------
(* The plans: what follows each node, and at which nodes a person answers    *)

DoorPlan == [route |-> {"approve", "apply"}, approve |-> {"apply", "record"}, apply |-> {"record"}, record |-> {}]
CameraPlan == [probe |-> {"operator", "record"}, operator |-> {"record"}, record |-> {}]
SirenPlan == [enable |-> {"safety"}, safety |-> {"disable"}, disable |-> {"record"}, record |-> {}]
IncidentV1 == [assess |-> {"notify"}, notify |-> {"await"}, await |-> {"archive"}, archive |-> {}]
IncidentV2 ==
    [assess |-> {"archive", "medium", "high"}, medium |-> {"ack"}, ack |-> {"archive"},
     high |-> {"decide"}, decide |-> {"archive"}, archive |-> {}]

Graph(plan) ==
    CASE plan.service = "door" -> DoorPlan
      [] plan.service = "camera" -> CameraPlan
      [] plan.service = "siren" -> SirenPlan
      [] plan.service = "incident" -> IF plan.version = 1 THEN IncidentV1 ELSE IncidentV2
Initial == [door |-> "route", camera |-> "probe", siren |-> "enable", incident |-> "assess"]

(* executionBindings: the operations of a bundle and the nodes they resolve. *)
NoBindings == [x \in {} |-> x]
Bindings(plan) ==
    CASE plan.service = "door" -> [approval |-> "approve"]
      [] plan.service = "camera" -> [operator |-> "operator"]
      [] plan.service = "siren" -> NoBindings
      [] plan.service = "incident" -> IF plan.version = 1 THEN [response |-> "await"]
                                      ELSE [response |-> "ack", decision |-> "decide"]
Operations == {"approval", "operator", "response", "decision"}
Asks(plan) == Range(Bindings(plan))

-----------------------------------------------------------------------------
Live(x) == execution[x] # Unstarted /\ execution[x].status = "live"
LiveOnes == {x \in Executions : Live(x)}
ActivePlan ==
    [service |-> service, version |-> Active[release], limit |-> IF service = "siren" THEN limit ELSE 0]

Init ==
    /\ service \in Services /\ release \in Releases /\ limit \in Limits
    /\ catalog = {}
    /\ execution = [x \in Executions |-> Unstarted]
    /\ deployments = 0

(* The process ends, and another release or configuration is installed.      *)
Deploy ==
    /\ deployments < MaxDeployments /\ deployments' = deployments + 1
    /\ release' \in Releases /\ limit' \in Limits
    /\ catalog' = {}
    /\ UNCHANGED <<service, execution>>

(* newBundleCatalog; what the siren compiles bears the version it is asked   *)
(* for, and is the persisted plan only if this release compiles it alike.    *)
RetainedPlans == [service : {service}, version : Retained[release], limit : {0}]
Reconstructed == {p \in {execution[x].plan : x \in LiveOnes} : p.version = Active[release]}
Registered == IF service = "siren" THEN {ActivePlan} \cup Reconstructed ELSE RetainedPlans

Validated == LiveOnes
Open ==
    /\ catalog = {}
    /\ \A x \in Validated : execution[x].plan \in Registered
    /\ catalog' = Registered
    /\ UNCHANGED <<service, release, limit, execution, deployments>>

-----------------------------------------------------------------------------
(* An open service *)

OnlyTheActive(x) == ActivePlan              \* a slip: there is but one engine
BundleFor(x) == execution[x].plan
Serves(x) == Live(x) /\ BundleFor(x) \in catalog

Start(x) ==
    /\ catalog # {} /\ execution[x] = Unstarted
    /\ execution' = [execution EXCEPT ![x] =
           [plan |-> ActivePlan, at |-> Initial[service], ran |-> <<>>, status |-> "live"]]
    /\ UNCHANGED <<service, release, limit, catalog, deployments>>

(* A node has run; the engine goes on to one of those its plan has next.     *)
Moved(x) ==
    LET e == execution[x]
        next == Graph(BundleFor(x))[e.at]
    IN  /\ IF next = {}
           THEN execution' = [execution EXCEPT ![x].ran = Append(@, e.at), ![x].status = "completed"]
           ELSE \E n \in next : execution' = [execution EXCEPT ![x].ran = Append(@, e.at), ![x].at = n]
        /\ UNCHANGED <<service, release, limit, catalog, deployments>>
Drive(x) ==
    /\ Serves(x)
    /\ execution[x].at \in DOMAIN Graph(BundleFor(x)) \ Asks(BundleFor(x))
    /\ Moved(x)

(* Approval, operator, owner: an operation the bundle has, for its node.     *)
NewestBindings(x) ==                        \* a slip: the bindings of the newest plan
    Bindings([execution[x].plan EXCEPT !.version = 2])
BindingsOf(x) == Bindings(BundleFor(x))
Resolve(x, operation) ==
    /\ Serves(x) /\ operation \in DOMAIN BindingsOf(x)
    /\ execution[x].at = BindingsOf(x)[operation]
    /\ Moved(x)
Answered(x) == \E operation \in Operations : Resolve(x, operation)

(* Siren: canceled by the engine of its plan, which makes it silent.         *)
Stop(x) ==
    /\ service = "siren" /\ Serves(x)
    /\ execution' = [execution EXCEPT ![x].status = "canceled"]
    /\ UNCHANGED <<service, release, limit, catalog, deployments>>

Next ==
    \/ Deploy
    \/ Open
    \/ \E x \in Executions : Start(x) \/ Drive(x) \/ Stop(x) \/ Answered(x)

(* A service that can open does, what can run runs - by the service's loop   *)
(* (Serve), or of a door by a host that calls Drive - and people answer what *)
(* they are asked by every operation there is for it.                        *)
Fairness ==
    /\ WF_vars(Open)
    /\ \A x \in Executions : WF_vars(Drive(x) \/ Answered(x))
Spec == Init /\ [][Next]_vars /\ Fairness
-----------------------------------------------------------------------------
(* Properties *)

(* Whatever was deployed meanwhile, an execution runs a path of the plan it  *)
(* was started with, to the end if it completed (Drive: "the exact engine    *)
(* pinned by the execution's persisted PlanDigest").                         *)
FollowsItsPlan ==
    \A x \in Executions : execution[x] # Unstarted =>
        LET e == execution[x]
            graph == Graph(e.plan)
            path == IF e.status = "live" THEN Append(e.ran, e.at) ELSE e.ran
        IN  /\ \A i \in 1 .. Len(path) - 1 : path[i + 1] \in graph[path[i]]
            /\ e.status = "completed" => graph[Last(path)] = {}

(* Once the installed releases retain its plan, an execution that was        *)
(* started comes to its end, and the answers to it are understood, whichever *)
(* releases it has lived through.                                            *)
Understood(x) ==
    Live(x) => execution[x].plan.version \in
                   IF service = "siren" THEN {Active[release]} ELSE Retained[release]
StartedEnds ==
    <>[](\A x \in Executions : Understood(x)) => \A x \in Executions : Live(x) ~> ~Live(x)
=============================================================================
