--------------------------- MODULE OwnerCallback ---------------------------
(***************************************************************************)
(* internal/orchestration/incident: how an owner's signed callback reaches *)
(* a parked incident.                                                      *)
(*                                                                         *)
(* CallbackIngress authorises a delivery (token, user, audit entry) and    *)
(* hands it to the durable workflow.  Two executions are parked:           *)
(*   - a medium-risk incident waits for incident.owner.response; the       *)
(*     engine's SeenEvents drops repeated signals;                         *)
(*   - a high-risk incident waits for a human decision; the decision is    *)
(*     stored together with a receipt (event, subject, decision, digest)   *)
(*     that later deliveries are compared with.                            *)
(* Deliveries are concurrent HTTP requests, may be repeated, reordered and *)
(* cut off by a crash.  The executions, the audit log and the users are    *)
(* durable.  The engine (ADGO) is external; ResolveHuman and Signal are    *)
(* atomic commits, and a retried human node is parked again by Drive.      *)
(***************************************************************************)
EXTENDS Naturals, Sequences, FiniteSets

CONSTANTS
  Deliveries,     \* concurrent requests
  Users,
  Messages,       \* what a request carries: [kind, event, user, decision, input]
  None,           \* no message, no receipt
  InitRole,       \* role of every user at the start
  MaxRequests, MaxCrashes, MaxRoleChanges    \* bounds of the model

Kinds == {"response", "decision"}
Decisions == {"approve", "reject", "retry", "abort", "unsupported"}
Roles == {"viewer", "operator", "admin", "disabled"}

ASSUME MessagesAssumption ==
  \A m \in Messages :
    /\ DOMAIN m = {"kind", "event", "user", "decision", "input"}
    /\ m.kind \in Kinds /\ m.user \in Users /\ m.decision \in Decisions
ASSUME NoneAssumption == None \notin Messages
ASSUME RoleAssumption == InitRole \in [Users -> Roles]

VARIABLES
  role,       \* Users store
  audit,      \* audit log: [msg, role, result]
  human,      \* high-risk execution: status of the decision node
  receipt,    \* durable callback receipt of that execution
  ack,        \* medium-risk execution: status of the wait node
  seenEvents, \* its SeenEvents
  pc, msg, read,    \* per delivery: where it is, its message, what it has read
  applied,    \* history: decisions ResolveHuman committed, in order
  replies,    \* history: [msg, result] returned to clients
  requests, crashes, changes    \* counters of the model's bounds

durable == <<human, receipt, ack, seenEvents>>
bounds == <<requests, crashes, changes>>
vars == <<role, audit, human, receipt, ack, seenEvents, pc, msg, read, applied, replies,
          requests, crashes, changes>>

Steps == {"idle", "bound", "accepted", "known", "authorised", "fresh", "stale", "drive"}
HumanStates == {"parked", "retrying", "approved", "rejected", "canceled",
                "archived-approved", "archived-rejected", "archived-canceled"}
AckStates == {"parked", "acknowledged", "archived"}
Results == {"ok", "denied", "audit-failed", "unsupported", "conflict", "stale"}

TypeOK ==
  /\ role \in [Users -> Roles]
  /\ audit \subseteq [msg : Messages, role : Roles, result : {"allowed", "denied"}]
  /\ human \in HumanStates
  /\ receipt \in Messages \cup {None}
  /\ ack \in AckStates
  /\ seenEvents \subseteq {m.event : m \in Messages}
  /\ pc \in [Deliveries -> Steps]
  /\ msg \in [Deliveries -> Messages \cup {None}]
  /\ \A d \in Deliveries : msg[d] = None <=> pc[d] = "idle"
  /\ \A d \in Deliveries :
       pc[d] \in {"fresh", "stale"} => msg[d].kind = "decision" /\ msg[d].decision # "unsupported"
  /\ read \in [Deliveries -> Roles]
  /\ applied \in Seq(Messages)
  /\ replies \subseteq [msg : Messages, result : Results]
  /\ requests \in Nat /\ crashes \in Nat /\ changes \in Nat

-----------------------------------------------------------------------------

\* authz.Allowed for incident:ack and incident:resolve, and user.Disabled.
Allowed(r, kind) == r = "admin" \/ (r = "operator" /\ kind = "response")

Init ==
  /\ role = InitRole
  /\ audit = {}
  /\ human = "parked" /\ receipt = None
  /\ ack = "parked" /\ seenEvents = {}
  /\ pc = [d \in Deliveries |-> "idle"]
  /\ msg = [d \in Deliveries |-> None]
  /\ read = [d \in Deliveries |-> "disabled"]
  /\ applied = <<>>
  /\ replies = {}
  /\ requests = 0 /\ crashes = 0 /\ changes = 0

Goto(d, step) == pc' = [pc EXCEPT ![d] = step]

Reply(d, result) ==
  /\ pc' = [pc EXCEPT ![d] = "idle"]
  /\ msg' = [msg EXCEPT ![d] = None]
  /\ read' = [read EXCEPT ![d] = "disabled"]
  /\ replies' = replies \cup {[msg |-> msg[d], result |-> result]}

Keep == UNCHANGED <<msg, read, replies>>

\* OwnerResponse / ResolveOwnerDecision: the route resolves the node the
\* execution's bundle binds and builds the expected binding.
Request(d, m) ==
  /\ pc[d] = "idle" /\ requests < MaxRequests
  /\ pc' = [pc EXCEPT ![d] = "bound"]
  /\ msg' = [msg EXCEPT ![d] = m]
  /\ requests' = requests + 1
  /\ UNCHANGED <<role, audit, human, receipt, ack, seenEvents, read, applied, replies, crashes, changes>>

\* authorize: Accept succeeds, or reports a replay that may be reconciled.
AcceptToken(d) ==
  /\ pc[d] = "bound" /\ Goto(d, "accepted")
  /\ Keep /\ UNCHANGED <<role, audit, applied>> /\ UNCHANGED durable /\ UNCHANGED bounds

\* Users.GetByID.
LoadUser(d) ==
  /\ pc[d] = "accepted" /\ Goto(d, "known")
  /\ read' = [read EXCEPT ![d] = role[msg[d].user]]
  /\ UNCHANGED <<role, audit, msg, applied, replies>> /\ UNCHANGED durable /\ UNCHANGED bounds

Entry(d, result) == [msg |-> msg[d], role |-> read[d], result |-> result]

\* The token is refused, or the user may not do this: the denial is audited
\* (when the audit store answers) and the call returns the denial either way.
Deny(d) ==
  /\ pc[d] = "bound" \/ (pc[d] = "known" /\ ~Allowed(read[d], msg[d].kind))
  /\ audit' \in {audit, audit \cup {Entry(d, "denied")}}
  /\ Reply(d, "denied")
  /\ UNCHANGED <<role, applied>> /\ UNCHANGED durable /\ UNCHANGED bounds

\* The allowed call is audited before the workflow sees it.
AuditAllowed(d) ==
  /\ pc[d] = "known" /\ Allowed(read[d], msg[d].kind)
  /\ audit' = audit \cup {Entry(d, "allowed")}
  /\ Goto(d, "authorised")
  /\ Keep /\ UNCHANGED <<role, applied>> /\ UNCHANGED durable /\ UNCHANGED bounds

\* The audit store fails: the call fails closed.
AuditFails(d) ==
  /\ pc[d] = "known" /\ Allowed(read[d], msg[d].kind)
  /\ Reply(d, "audit-failed")
  /\ UNCHANGED <<role, audit, applied>> /\ UNCHANGED durable /\ UNCHANGED bounds

\* Service.OwnerResponse: engine.Signal deduplicates by event id, then Drive.
Signal(d) ==
  /\ pc[d] = "authorised" /\ msg[d].kind = "response"
  /\ seenEvents' = seenEvents \cup {msg[d].event}
  /\ ack' = IF ack = "parked" /\ msg[d].event \notin seenEvents THEN "acknowledged" ELSE ack
  /\ Goto(d, "drive")
  /\ Keep /\ UNCHANGED <<role, audit, human, receipt, applied>> /\ UNCHANGED bounds

\* mapDecision rejects the decision.
RejectUnsupported(d) ==
  /\ pc[d] = "authorised" /\ msg[d].kind = "decision" /\ msg[d].decision = "unsupported"
  /\ Reply(d, "unsupported")
  /\ UNCHANGED <<role, audit, applied>> /\ UNCHANGED durable /\ UNCHANGED bounds

\* Fault: a receipt of the same event is taken for the same decision.
SameEvent(left, right) == left.event = right.event

\* sameCallbackDecision: subject, decision and digest of the input too.
SameDecision(left, right) == left = right

HasReceiptOf(d) == receipt # None /\ receipt.event = msg[d].event

\* ResolveOwnerCallbackDecision compares the delivery with the durable receipt.
Preflight(d) ==
  /\ pc[d] = "authorised" /\ msg[d].kind = "decision" /\ msg[d].decision # "unsupported"
  /\ \/ ~HasReceiptOf(d) /\ Goto(d, "fresh") /\ Keep
     \/ HasReceiptOf(d) /\ SameDecision(receipt, msg[d]) /\ Goto(d, "drive") /\ Keep
     \/ HasReceiptOf(d) /\ ~SameDecision(receipt, msg[d]) /\ Reply(d, "conflict")
  /\ UNCHANGED <<role, audit, applied>> /\ UNCHANGED durable /\ UNCHANGED bounds

\* How ResolveHuman routes the decision node.
Routed(decision) ==
  CASE decision = "approve" -> "approved"
    [] decision = "reject" -> "rejected"
    [] decision = "abort" -> "canceled"
    [] decision = "retry" -> "retrying"

\* Fault: a stale task is overwritten as long as the execution is not archived.
NotArchived(h) == h \in {"parked", "retrying", "approved", "rejected", "canceled"}

\* ResolveHuman accepts a resolution only for a node that is parked.
Resolvable(h) == h = "parked"

ResolveHuman(d) ==
  /\ pc[d] = "fresh" /\ Resolvable(human)
  /\ human' = Routed(msg[d].decision)
  /\ receipt' = msg[d]
  /\ applied' = Append(applied, msg[d])
  /\ Goto(d, "drive")
  /\ Keep /\ UNCHANGED <<role, audit, ack, seenEvents>> /\ UNCHANGED bounds

ResolveStale(d) ==
  /\ pc[d] = "fresh" /\ ~Resolvable(human)
  /\ Goto(d, "stale")
  /\ Keep /\ UNCHANGED <<role, audit, applied>> /\ UNCHANGED durable /\ UNCHANGED bounds

\* finishStaleCallbackDecision re-reads the receipt and converges on it.
FinishStale(d) ==
  /\ pc[d] = "stale"
  /\ \/ ~HasReceiptOf(d) /\ Reply(d, "stale")
     \/ HasReceiptOf(d) /\ SameDecision(receipt, msg[d]) /\ Goto(d, "drive") /\ Keep
     \/ HasReceiptOf(d) /\ ~SameDecision(receipt, msg[d]) /\ Reply(d, "conflict")
  /\ UNCHANGED <<role, audit, applied>> /\ UNCHANGED durable /\ UNCHANGED bounds

\* Fault: the branch that archives a canceled incident is missing.
DrivenNoCancel(h) ==
  CASE h = "retrying" -> "parked"
    [] h = "approved" -> "archived-approved"
    [] h = "rejected" -> "archived-rejected"
    [] OTHER -> h

\* What the engine does with a resolved decision node: the edges of the plan.
Driven(h) ==
  CASE h = "retrying" -> "parked"
    [] h = "approved" -> "archived-approved"
    [] h = "rejected" -> "archived-rejected"
    [] h = "canceled" -> "archived-canceled"
    [] OTHER -> h

DrivenAck(a) == IF a = "acknowledged" THEN "archived" ELSE a

\* Service.Drive, run by the request for its own execution.
Drive(d) ==
  /\ pc[d] = "drive"
  /\ IF msg[d].kind = "decision"
       THEN human' = Driven(human) /\ UNCHANGED ack
       ELSE ack' = DrivenAck(ack) /\ UNCHANGED human
  /\ Reply(d, "ok")
  /\ UNCHANGED <<role, audit, receipt, seenEvents, applied>> /\ UNCHANGED bounds

\* Service.Serve: the resilient coordinator drives any runnable execution.
Serve ==
  /\ human' = Driven(human) /\ ack' = DrivenAck(ack)
  /\ <<human', ack'>> # <<human, ack>>
  /\ UNCHANGED <<role, audit, receipt, seenEvents, pc, applied>> /\ Keep /\ UNCHANGED bounds

\* An administrator changes a user while deliveries are in flight.
ChangeRole(u, r) ==
  /\ changes < MaxRoleChanges /\ r # role[u]
  /\ role' = [role EXCEPT ![u] = r]
  /\ changes' = changes + 1
  /\ UNCHANGED <<audit, pc, applied, requests, crashes>> /\ Keep /\ UNCHANGED durable

\* The process dies: deliveries are lost, durable state stays.
Crash ==
  /\ crashes < MaxCrashes
  /\ crashes' = crashes + 1
  /\ pc' = [d \in Deliveries |-> "idle"]
  /\ msg' = [d \in Deliveries |-> None]
  /\ read' = [d \in Deliveries |-> "disabled"]
  /\ UNCHANGED <<role, audit, applied, replies, requests, changes>> /\ UNCHANGED durable

Step(d) ==
  \/ AcceptToken(d) \/ LoadUser(d) \/ Deny(d) \/ AuditAllowed(d) \/ AuditFails(d)
  \/ Signal(d) \/ RejectUnsupported(d) \/ Preflight(d)
  \/ ResolveHuman(d) \/ ResolveStale(d) \/ FinishStale(d) \/ Drive(d)

Next ==
  \/ \E d \in Deliveries : Step(d) \/ \E m \in Messages : Request(d, m)
  \/ Serve
  \/ \E u \in Users, r \in Roles : ChangeRole(u, r)
  \/ Crash

Spec == Init /\ [][Next]_vars

\* The coordinator polls for as long as the process runs.
FairSpec == Spec /\ WF_vars(Serve)

-----------------------------------------------------------------------------
\* No decision reaches the execution unless an audit entry says that this very
\* command was allowed, for a user whose role then had incident:resolve.
AppliedWasAudited ==
  \A i \in 1..Len(applied) :
    \E e \in audit : /\ e.msg = applied[i]
                     /\ e.result = "allowed"
                     /\ e.role = "admin"

\* A client that was told its decision succeeded has had exactly that decision
\* (subject, decision, reason and payload) committed, whoever won the race.
SuccessMeansApplied ==
  \A r \in replies : r.result = "ok" /\ r.msg.kind = "decision" =>
    \E i \in 1..Len(applied) : applied[i] = r.msg

\* A conflict is reported only when the event id really was used with other input.
ConflictMeansOtherInput ==
  \A r \in replies : r.result = "conflict" =>
    \E i \in 1..Len(applied) : applied[i].event = r.msg.event /\ applied[i] # r.msg

\* The decision that closes the incident is the last one ever applied: retries
\* may precede it, nothing follows it.
NothingFollowsFinalDecision ==
  \A i \in 1..Len(applied) : i < Len(applied) => applied[i].decision = "retry"

\* The archived branch is the one chosen by the decision of the stored receipt.
ArchiveMatchesReceipt ==
  /\ human \in {"approved", "archived-approved"} => receipt # None /\ receipt.decision = "approve"
  /\ human \in {"rejected", "archived-rejected"} => receipt # None /\ receipt.decision = "reject"
  /\ human \in {"canceled", "archived-canceled"} => receipt # None /\ receipt.decision = "abort"

\* A committed decision is carried to its archive node although the request that
\* committed it may have crashed before its own Drive.
CommittedDecisionIsArchived ==
  human \in {"approved", "rejected", "canceled"} ~>
    human \in {"archived-approved", "archived-rejected", "archived-canceled"}

\* callback_receipt.go: "the same event and semantic input return the
\* already-decided execution" - one event is applied at most once.
EventAppliedOnce ==
  \A i, j \in 1..Len(applied) : applied[i].event = applied[j].event => i = j
=============================================================================
