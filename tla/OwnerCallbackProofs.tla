------------------------ MODULE OwnerCallbackProofs ------------------------
(***************************************************************************)
(* Proofs about OwnerCallback for any number of deliveries, users and      *)
(* messages: decisions are audited before they are applied, answers agree  *)
(* with what was committed, and nothing follows the decision that closes   *)
(* an incident.                                                            *)
(***************************************************************************)
EXTENDS OwnerCallback, TLAPS

USE DEF Kinds, Decisions, Roles, Steps, HumanStates, AckStates, Results

(* The types hold at the start.                                              *)
LEMMA TypeInit == Init => TypeOK
BY RoleAssumption DEF Init, TypeOK

\* The steps of a delivery before the workflow is called change no durable state.
Authorize(d) == AcceptToken(d) \/ LoadUser(d) \/ Deny(d) \/ AuditAllowed(d) \/ AuditFails(d)

(* Authorisation keeps the types.                                            *)
LEMMA AuthorizeType ==
  ASSUME TypeOK, NEW d \in Deliveries, Authorize(d)
  PROVE  TypeOK'
<1>0. pc[d] # "idle" => msg[d] \in Messages
  BY DEF TypeOK
<1>1. CASE AcceptToken(d)
  BY <1>1 DEF AcceptToken, Goto, Keep, TypeOK, durable, bounds
<1>2. CASE LoadUser(d)
  <2>1. msg[d] \in Messages /\ role[msg[d].user] \in Roles
    BY <1>0, <1>2, MessagesAssumption DEF LoadUser, TypeOK
  <2> QED
    BY <1>2, <2>1 DEF LoadUser, Goto, TypeOK, durable, bounds
<1>3. CASE Deny(d)
  <2>1. Entry(d, "denied") \in [msg : Messages, role : Roles, result : {"allowed", "denied"}]
    BY <1>0, <1>3 DEF Deny, Entry, TypeOK
  <2>2. audit' \subseteq [msg : Messages, role : Roles, result : {"allowed", "denied"}]
    BY <1>3, <2>1 DEF Deny, TypeOK
  <2>3. [msg |-> msg[d], result |-> "denied"] \in [msg : Messages, result : Results]
    BY <1>0, <1>3 DEF Deny
  <2> QED
    BY <1>3, <2>2, <2>3, NoneAssumption DEF Deny, Reply, TypeOK, durable, bounds
<1>4. CASE AuditAllowed(d)
  <2>1. Entry(d, "allowed") \in [msg : Messages, role : Roles, result : {"allowed", "denied"}]
    BY <1>0, <1>4 DEF AuditAllowed, Entry, TypeOK
  <2> QED
    BY <1>4, <2>1 DEF AuditAllowed, Goto, Keep, TypeOK, durable, bounds
<1>5. CASE AuditFails(d)
  <2>1. [msg |-> msg[d], result |-> "audit-failed"] \in [msg : Messages, result : Results]
    BY <1>0, <1>5 DEF AuditFails
  <2> QED
    BY <1>5, <2>1, NoneAssumption DEF AuditFails, Reply, TypeOK, durable, bounds
<1> QED
  BY <1>1, <1>2, <1>3, <1>4, <1>5 DEF Authorize

\* The steps that end or move a delivery without a durable change.
Answer(d) == RejectUnsupported(d) \/ Preflight(d) \/ ResolveStale(d) \/ FinishStale(d)

(* An answer keeps the types.                                                *)
LEMMA AnswerType ==
  ASSUME TypeOK, NEW d \in Deliveries, Answer(d)
  PROVE  TypeOK'
<1>0. msg[d] \in Messages
  BY DEF TypeOK, Answer, RejectUnsupported, Preflight, ResolveStale, FinishStale
<1>1. ASSUME NEW result \in Results, Reply(d, result), UNCHANGED <<role, audit, applied, durable, bounds>>
      PROVE  TypeOK'
  <2>1. [msg |-> msg[d], result |-> result] \in [msg : Messages, result : Results]
    BY <1>0
  <2> QED
    BY <1>1, <2>1, NoneAssumption DEF Reply, TypeOK, durable, bounds
<1>2. ASSUME NEW step \in Steps \ {"idle"}, Goto(d, step), Keep, pc[d] # "idle",
             step \in {"fresh", "stale"} => msg[d].kind = "decision" /\ msg[d].decision # "unsupported",
             UNCHANGED <<role, audit, applied, durable, bounds>>
      PROVE  TypeOK'
  BY <1>2 DEF Goto, Keep, TypeOK, durable, bounds
<1>3. CASE RejectUnsupported(d)
  BY <1>1, <1>3 DEF RejectUnsupported
<1>4. CASE Preflight(d)
  BY <1>1, <1>2, <1>4 DEF Preflight
<1>5. CASE ResolveStale(d)
  BY <1>2, <1>5 DEF ResolveStale, TypeOK
<1>6. CASE FinishStale(d)
  BY <1>1, <1>2, <1>6 DEF FinishStale
<1> QED
  BY <1>3, <1>4, <1>5, <1>6 DEF Answer

(* A node that is driven on is a node.                                       *)
LEMMA DrivenType ==
  ASSUME NEW h \in HumanStates, NEW a \in AckStates
  PROVE  Driven(h) \in HumanStates /\ DrivenAck(a) \in AckStates
BY DEF Driven, DrivenAck

(* Every step keeps the types.                                               *)
LEMMA TypeNext == TypeOK /\ [Next]_vars => TypeOK'
<1> SUFFICES ASSUME TypeOK, [Next]_vars
             PROVE  TypeOK'
  OBVIOUS
<1>1. ASSUME NEW d \in Deliveries, NEW m \in Messages, Request(d, m)
      PROVE  TypeOK'
  BY <1>1, NoneAssumption DEF Request, TypeOK
<1>2. ASSUME NEW d \in Deliveries, Authorize(d)
      PROVE  TypeOK'
  BY <1>2, AuthorizeType
<1>3. ASSUME NEW d \in Deliveries, Answer(d)
      PROVE  TypeOK'
  BY <1>3, AnswerType
<1>4. ASSUME NEW d \in Deliveries, Signal(d)
      PROVE  TypeOK'
  <2>1. msg[d] \in Messages
    BY <1>4 DEF Signal, TypeOK
  <2> QED
    BY <1>4, <2>1 DEF Signal, Goto, Keep, TypeOK, bounds
<1>5. ASSUME NEW d \in Deliveries, ResolveHuman(d)
      PROVE  TypeOK'
  <2>1. msg[d] \in Messages
    BY <1>5 DEF ResolveHuman, TypeOK
  <2>2. human' \in HumanStates
    <3>1. msg[d].decision \in Decisions \ {"unsupported"}
      BY <1>5, <2>1, MessagesAssumption DEF ResolveHuman, TypeOK
    <3>2. human' = Routed(msg[d].decision)
      BY <1>5 DEF ResolveHuman
    <3> QED
      BY <3>1, <3>2, <1>5 DEF Routed, ResolveHuman
  <2>3. applied' \in Seq(Messages)
    BY <1>5, <2>1 DEF ResolveHuman, TypeOK
  <2> QED
    BY <1>5, <2>1, <2>2, <2>3 DEF ResolveHuman, Goto, Keep, TypeOK, bounds
<1>6. ASSUME NEW d \in Deliveries, Drive(d)
      PROVE  TypeOK'
  <2>1. msg[d] \in Messages
    BY <1>6 DEF Drive, TypeOK
  <2>2. human' \in HumanStates /\ ack' \in AckStates
    BY <1>6, DrivenType DEF Drive, TypeOK
  <2>3. [msg |-> msg[d], result |-> "ok"] \in [msg : Messages, result : Results]
    BY <2>1
  <2> QED
    BY <1>6, <2>1, <2>2, <2>3, NoneAssumption DEF Drive, Reply, TypeOK, bounds
<1>7. CASE Serve
  <2>1. human' \in HumanStates /\ ack' \in AckStates
    BY <1>7, DrivenType DEF Serve, TypeOK
  <2> QED
    BY <1>7, <2>1 DEF Serve, Keep, TypeOK, bounds
<1>8. ASSUME NEW u \in Users, NEW r \in Roles, ChangeRole(u, r)
      PROVE  TypeOK'
  BY <1>8 DEF ChangeRole, Keep, TypeOK, durable
<1>9. CASE Crash
  BY <1>9, NoneAssumption DEF Crash, TypeOK, durable
<1>10. CASE UNCHANGED vars
  BY <1>10 DEF vars, TypeOK
<1> QED
  BY <1>1, <1>2, <1>3, <1>4, <1>5, <1>6, <1>7, <1>8, <1>9, <1>10 DEF Next, Step, Authorize, Answer

\* Users, audit log, executions and deliveries keep their types.
THEOREM TypeCorrect == Spec => []TypeOK
BY TypeInit, TypeNext, PTL DEF Spec

-----------------------------------------------------------------------------
\* The stored receipt is the last decision, retries alone precede it, and the
\* execution is where that decision has sent it.
ReceiptInv ==
  /\ receipt = None => applied = <<>>
  /\ receipt # None => Len(applied) > 0 /\ receipt = applied[Len(applied)]
  /\ NothingFollowsFinalDecision
  /\ human \in {"parked", "retrying"} /\ receipt # None => receipt.decision = "retry"
  /\ ArchiveMatchesReceipt

(* Every step keeps what is said of the receipt.                             *)
LEMMA ReceiptNext == TypeOK /\ ReceiptInv /\ [Next]_vars => ReceiptInv'
<1> SUFFICES ASSUME TypeOK, ReceiptInv, [Next]_vars
             PROVE  ReceiptInv'
  OBVIOUS
<1>1. ASSUME NEW d \in Deliveries, ResolveHuman(d)
      PROVE  ReceiptInv'
  <2>1. /\ msg[d] \in Messages /\ msg[d].decision \in Decisions \ {"unsupported"}
        /\ human = "parked" /\ human' = Routed(msg[d].decision)
        /\ receipt' = msg[d] /\ applied' = Append(applied, msg[d])
    BY <1>1, MessagesAssumption DEF ResolveHuman, Resolvable, TypeOK
  <2>2. /\ Len(applied') = Len(applied) + 1 /\ applied'[Len(applied')] = msg[d]
        /\ \A i \in 1..Len(applied) : applied'[i] = applied[i]
        /\ Len(applied) \in Nat
    BY <2>1 DEF TypeOK
  <2>3. \A i \in 1..Len(applied) : applied[i].decision = "retry"
    <3>1. CASE receipt = None
      BY <3>1, <2>2 DEF ReceiptInv
    <3>2. CASE receipt # None
      BY <3>2, <2>1, <2>2 DEF ReceiptInv, NothingFollowsFinalDecision
    <3> QED
      BY <3>1, <3>2
  <2>4. NothingFollowsFinalDecision'
    <3> SUFFICES ASSUME NEW i \in 1..Len(applied'), i < Len(applied')
                 PROVE  applied'[i].decision = "retry"
      BY DEF NothingFollowsFinalDecision
    <3>1. i \in 1..Len(applied)
      BY <2>2
    <3> QED
      BY <3>1, <2>2, <2>3
  <2>5. receipt' # None
    BY <2>1, NoneAssumption
  <2>6. /\ human' \in {"parked", "retrying"} => receipt'.decision = "retry"
        /\ ArchiveMatchesReceipt'
    BY <2>1, <2>5 DEF Routed, ArchiveMatchesReceipt
  <2>7. Len(applied') > 0 /\ receipt' = applied'[Len(applied')]
    BY <2>1, <2>2
  <2> QED
    BY <2>4, <2>5, <2>6, <2>7 DEF ReceiptInv
<1>2. ASSUME human' \in {human, Driven(human)}, UNCHANGED <<receipt, applied>>
      PROVE  ReceiptInv'
  <2>1. human \in HumanStates
    BY DEF TypeOK
  <2> QED
    BY <1>2, <2>1 DEF Driven, ReceiptInv, NothingFollowsFinalDecision, ArchiveMatchesReceipt
<1>3. ASSUME NEW d \in Deliveries, NEW m \in Messages, Request(d, m)
      PROVE  ReceiptInv'
  BY <1>2, <1>3 DEF Request
<1>4. ASSUME NEW d \in Deliveries, Authorize(d)
      PROVE  ReceiptInv'
  BY <1>2, <1>4 DEF Authorize, AcceptToken, LoadUser, Deny, AuditAllowed, AuditFails, durable
<1>5. ASSUME NEW d \in Deliveries, Answer(d)
      PROVE  ReceiptInv'
  BY <1>2, <1>5 DEF Answer, RejectUnsupported, Preflight, ResolveStale, FinishStale, durable
<1>6. ASSUME NEW d \in Deliveries, Signal(d) \/ Drive(d)
      PROVE  ReceiptInv'
  BY <1>2, <1>6 DEF Signal, Drive
<1>7. CASE Serve
  BY <1>2, <1>7 DEF Serve, Keep
<1>8. ASSUME NEW u \in Users, NEW r \in Roles, ChangeRole(u, r)
      PROVE  ReceiptInv'
  BY <1>2, <1>8 DEF ChangeRole, durable
<1>9. CASE Crash \/ UNCHANGED vars
  BY <1>2, <1>9 DEF Crash, vars, durable
<1> QED
  BY <1>1, <1>3, <1>4, <1>5, <1>6, <1>7, <1>8, <1>9 DEF Next, Step, Authorize, Answer

(* So it is said of every behaviour.                                         *)
LEMMA ReceiptAlways == Spec => []ReceiptInv
<1>1. Init => ReceiptInv
  BY NoneAssumption DEF Init, ReceiptInv, NothingFollowsFinalDecision, ArchiveMatchesReceipt
<1> QED
  BY TypeCorrect, <1>1, ReceiptNext, PTL DEF Spec

\* Only retries precede the decision that closes an incident, and nothing follows
\* it, for any number of concurrent and repeated deliveries.
THEOREM FinalDecisionIsLast == Spec => []NothingFollowsFinalDecision
<1>1. ReceiptInv => NothingFollowsFinalDecision
  BY DEF ReceiptInv
<1> QED
  BY <1>1, ReceiptAlways, PTL

\* The branch an incident is archived on is that of the receipt it stores.
THEOREM ArchiveIsOfReceipt == Spec => []ArchiveMatchesReceipt
<1>1. ReceiptInv => ArchiveMatchesReceipt
  BY DEF ReceiptInv
<1> QED
  BY <1>1, ReceiptAlways, PTL

-----------------------------------------------------------------------------
\* An audit entry says that command m was allowed; a decision needs an admin.
Audited(m) ==
  \E e \in audit : e.msg = m /\ e.result = "allowed" /\ (m.kind = "decision" => e.role = "admin")

Applied(m) == \E i \in 1..Len(applied) : applied[i] = m

\* What a delivery past authorisation, and every decision applied, rests on.
CommandInv ==
  /\ \A d \in Deliveries : pc[d] \in {"authorised", "fresh", "stale", "drive"} => Audited(msg[d])
  /\ \A i \in 1..Len(applied) : applied[i].kind = "decision" /\ Audited(applied[i])
  /\ \A d \in Deliveries : pc[d] = "drive" /\ msg[d].kind = "decision" => Applied(msg[d])
  /\ SuccessMeansApplied
  /\ ConflictMeansOtherInput

\* The receipt a delivery is compared with is one of the applied decisions.
LEMMA ReceiptApplied == TypeOK /\ ReceiptInv /\ receipt # None => Applied(receipt)
<1> SUFFICES ASSUME TypeOK, ReceiptInv, receipt # None
             PROVE  Applied(receipt)
  OBVIOUS
<1>1. Len(applied) \in 1..Len(applied) /\ applied[Len(applied)] = receipt
  BY DEF ReceiptInv, TypeOK
<1> QED
  BY <1>1 DEF Applied

\* Deliveries that were authorised stay so, and nothing is answered or applied.
QuietMove ==
  /\ audit \subseteq audit'
  /\ UNCHANGED applied
  /\ \A d \in Deliveries :
       \/ pc'[d] \notin {"authorised", "fresh", "stale", "drive"}
       \/ /\ msg'[d] = msg[d]
          /\ pc[d] \in {"authorised", "fresh", "stale", "drive"}
          /\ pc'[d] = "drive" /\ pc[d] # "drive" /\ msg[d].kind = "decision" => Applied(msg[d])
  /\ \A r \in replies' \ replies :
       /\ r.result = "ok" /\ r.msg.kind = "decision" => Applied(r.msg)
       /\ r.result = "conflict" => receipt # None /\ receipt.event = r.msg.event /\ receipt # r.msg

(* Moves that touch no request keep what is said of requests.                *)
LEMMA QuietKeeps == TypeOK /\ ReceiptInv /\ CommandInv /\ QuietMove => CommandInv'
<1> SUFFICES ASSUME TypeOK, ReceiptInv, CommandInv, QuietMove
             PROVE  CommandInv'
  OBVIOUS
<1>1. \A m : (Audited(m) => Audited(m)') /\ (Applied(m) <=> Applied(m)')
  BY DEF QuietMove, Audited, Applied
<1>2. /\ \A d \in Deliveries : pc'[d] \in {"authorised", "fresh", "stale", "drive"} => Audited(msg[d])' /\ msg'[d] = msg[d]
      /\ \A d \in Deliveries : pc'[d] = "drive" /\ msg'[d].kind = "decision" => Applied(msg[d])'
  BY <1>1 DEF CommandInv, QuietMove, Audited, Applied
<1>3. \A i \in 1..Len(applied') : applied'[i].kind = "decision" /\ Audited(applied[i])'
  BY <1>1 DEF CommandInv, QuietMove, Audited
<1>4. SuccessMeansApplied'
  BY <1>1 DEF CommandInv, QuietMove, SuccessMeansApplied, Applied
<1>5. ConflictMeansOtherInput'
  <2> SUFFICES ASSUME NEW r \in replies', r.result = "conflict"
               PROVE  \E i \in 1..Len(applied) : applied[i].event = r.msg.event /\ applied[i] # r.msg
    BY DEF ConflictMeansOtherInput, QuietMove
  <2>1. CASE r \in replies
    BY <2>1 DEF CommandInv, ConflictMeansOtherInput
  <2>2. CASE r \notin replies
    BY <2>2, ReceiptApplied DEF QuietMove, Applied
  <2> QED
    BY <2>1, <2>2
<1> QED
  BY <1>2, <1>3, <1>4, <1>5 DEF CommandInv, Audited, Applied

(* Auditing what was allowed keeps what is said of requests.                 *)
LEMMA AllowedIsAudited ==
  ASSUME TypeOK, CommandInv, NEW d \in Deliveries, AuditAllowed(d)
  PROVE  CommandInv'
<1>1. msg[d] \in Messages /\ msg[d].kind \in Kinds
  BY MessagesAssumption DEF AuditAllowed, TypeOK
<1>2. \A m : (Audited(m) => Audited(m)') /\ (Applied(m) <=> Applied(m)')
  BY DEF AuditAllowed, Audited, Applied
<1>3. Audited(msg[d])'
  <2>1. Entry(d, "allowed") \in audit' /\ (msg[d].kind = "decision" => read[d] = "admin")
    BY DEF AuditAllowed, Allowed
  <2> QED
    BY <2>1 DEF Audited, Entry, AuditAllowed, Keep
<1>4. /\ \A c \in Deliveries : c # d => pc'[c] = pc[c]
      /\ pc'[d] = "authorised" /\ msg' = msg /\ replies' = replies /\ applied' = applied
  BY DEF AuditAllowed, Goto, Keep, TypeOK
<1>5. \A c \in Deliveries : pc'[c] \in {"authorised", "fresh", "stale", "drive"} => Audited(msg[c])'
  BY <1>2, <1>3, <1>4 DEF CommandInv, Audited
<1>6. \A c \in Deliveries : pc'[c] = "drive" /\ msg'[c].kind = "decision" => Applied(msg[c])'
  BY <1>2, <1>4 DEF CommandInv, Applied
<1>7. \A i \in 1..Len(applied') : applied'[i].kind = "decision" /\ Audited(applied[i])'
  BY <1>2, <1>4 DEF CommandInv, Audited
<1>8. SuccessMeansApplied' /\ ConflictMeansOtherInput'
  BY <1>4 DEF CommandInv, SuccessMeansApplied, ConflictMeansOtherInput
<1> QED
  BY <1>5, <1>6, <1>7, <1>8 DEF CommandInv, Audited, Applied

(* Resolving the human node keeps what is said of requests.                  *)
LEMMA ResolvedIsApplied ==
  ASSUME TypeOK, CommandInv, NEW d \in Deliveries, ResolveHuman(d)
  PROVE  CommandInv'
<1>1. /\ msg[d] \in Messages /\ msg[d].kind = "decision" /\ Audited(msg[d])
      /\ applied' = Append(applied, msg[d]) /\ msg' = msg /\ replies' = replies /\ audit' = audit
      /\ \A c \in Deliveries : c # d => pc'[c] = pc[c]
  BY DEF ResolveHuman, Goto, Keep, TypeOK, CommandInv
<1>2. /\ Len(applied') = Len(applied) + 1 /\ applied'[Len(applied) + 1] = msg[d]
      /\ \A i \in 1..Len(applied) : applied'[i] = applied[i]
      /\ Len(applied) \in Nat
  BY <1>1 DEF TypeOK
<1>3. \A m : (Audited(m) <=> Audited(m)') /\ (Applied(m) => Applied(m)')
  BY <1>1, <1>2 DEF Audited, Applied
<1>4. Applied(msg[d])'
  <2>1. Len(applied) + 1 \in 1..Len(applied') /\ applied'[Len(applied) + 1] = msg'[d]
    BY <1>1, <1>2
  <2> QED
    BY <2>1 DEF Applied
<1>5. \A c \in Deliveries : pc'[c] \in {"authorised", "fresh", "stale", "drive"} => Audited(msg[c])'
  BY <1>1, <1>3 DEF CommandInv, Audited
<1>6. \A c \in Deliveries : pc'[c] = "drive" /\ msg'[c].kind = "decision" => Applied(msg[c])'
  BY <1>1, <1>3, <1>4 DEF CommandInv, Applied
<1>7. \A i \in 1..Len(applied') : applied'[i].kind = "decision" /\ Audited(applied[i])'
  <2> SUFFICES ASSUME NEW i \in 1..Len(applied')
               PROVE  applied'[i].kind = "decision" /\ Audited(applied[i])'
    OBVIOUS
  <2>1. CASE i \in 1..Len(applied)
    BY <1>2, <1>3, <2>1 DEF CommandInv, Audited
  <2>2. CASE i = Len(applied) + 1
    BY <1>1, <1>2, <1>3, <2>2 DEF Audited
  <2> QED
    BY <1>2, <2>1, <2>2
<1>8. SuccessMeansApplied'
  BY <1>1, <1>3 DEF CommandInv, SuccessMeansApplied, Applied
<1>9. ConflictMeansOtherInput'
  <2> SUFFICES ASSUME NEW r \in replies, r.result = "conflict"
               PROVE  \E i \in 1..Len(applied') : applied'[i].event = r.msg.event /\ applied'[i] # r.msg
    BY <1>1 DEF ConflictMeansOtherInput
  <2>1. PICK i \in 1..Len(applied) : applied[i].event = r.msg.event /\ applied[i] # r.msg
    BY DEF CommandInv, ConflictMeansOtherInput
  <2> QED
    BY <1>2, <2>1
<1> QED
  BY <1>5, <1>6, <1>7, <1>8, <1>9 DEF CommandInv, Audited, Applied

\* Every other step of a delivery is quiet.
LEMMA StepIsQuiet ==
  ASSUME TypeOK, ReceiptInv, CommandInv, NEW d \in Deliveries, Step(d), ~AuditAllowed(d), ~ResolveHuman(d)
  PROVE  QuietMove
<1>1. /\ pc \in [Deliveries -> Steps] /\ msg \in [Deliveries -> Messages \cup {None}]
  BY DEF TypeOK
<1>2. ASSUME NEW result \in Results, Reply(d, result), audit \subseteq audit', UNCHANGED applied,
             result = "ok" /\ msg[d].kind = "decision" => Applied(msg[d]),
             result = "conflict" => receipt # None /\ receipt.event = msg[d].event /\ receipt # msg[d]
      PROVE  QuietMove
  BY <1>1, <1>2 DEF Reply, QuietMove
<1>3. ASSUME NEW step \in Steps, Goto(d, step), msg' = msg, replies' = replies, audit \subseteq audit', UNCHANGED applied,
             \/ step \notin {"authorised", "fresh", "stale", "drive"}
             \/ /\ pc[d] \in {"authorised", "fresh", "stale"}
                /\ step = "drive" /\ msg[d].kind = "decision" => Applied(msg[d])
      PROVE  QuietMove
  BY <1>1, <1>3 DEF Goto, QuietMove
<1>4. CASE AcceptToken(d) \/ LoadUser(d)
  BY <1>3, <1>4 DEF AcceptToken, LoadUser, Keep
<1>5. CASE Deny(d)
  BY <1>2, <1>5 DEF Deny
<1>6. CASE AuditFails(d) \/ RejectUnsupported(d)
  BY <1>2, <1>6 DEF AuditFails, RejectUnsupported
<1>7. CASE Signal(d)
  BY <1>3, <1>7 DEF Signal, Keep
<1>8. CASE Preflight(d)
  BY <1>2, <1>3, <1>8, ReceiptApplied DEF Preflight, Keep, HasReceiptOf, SameDecision
<1>9. CASE ResolveStale(d)
  BY <1>3, <1>9 DEF ResolveStale, Keep
<1>10. CASE FinishStale(d)
  BY <1>2, <1>3, <1>10, ReceiptApplied DEF FinishStale, Keep, HasReceiptOf, SameDecision
<1>11. CASE Drive(d)
  BY <1>2, <1>11 DEF Drive, CommandInv
<1> QED
  BY <1>4, <1>5, <1>6, <1>7, <1>8, <1>9, <1>10, <1>11 DEF Step

(* Every step keeps what is said of requests.                                *)
LEMMA CommandNext == TypeOK /\ ReceiptInv /\ CommandInv /\ [Next]_vars => CommandInv'
<1> SUFFICES ASSUME TypeOK, ReceiptInv, CommandInv, [Next]_vars
             PROVE  CommandInv'
  OBVIOUS
<1>1. ASSUME NEW d \in Deliveries, Step(d)
      PROVE  CommandInv'
  BY <1>1, AllowedIsAudited, ResolvedIsApplied, StepIsQuiet, QuietKeeps
<1>2. ASSUME NEW d \in Deliveries, NEW m \in Messages, Request(d, m)
      PROVE  CommandInv'
  <2>1. QuietMove
    BY <1>2 DEF Request, QuietMove, TypeOK
  <2> QED
    BY <2>1, QuietKeeps
<1>3. ASSUME UNCHANGED <<audit, pc, msg, applied, replies>>
      PROVE  CommandInv'
  <2>1. QuietMove
    BY <1>3 DEF QuietMove
  <2> QED
    BY <2>1, QuietKeeps
<1>4. CASE Serve \/ (\E u \in Users, r \in Roles : ChangeRole(u, r)) \/ UNCHANGED vars
  BY <1>3, <1>4 DEF Serve, ChangeRole, Keep, vars
<1>5. CASE Crash
  <2>1. QuietMove
    BY <1>5 DEF Crash, QuietMove
  <2> QED
    BY <2>1, QuietKeeps
<1> QED
  BY <1>1, <1>2, <1>4, <1>5 DEF Next

(* So it is said of every behaviour.                                         *)
LEMMA CommandAlways == Spec => []CommandInv
<1>1. Init => CommandInv
  BY DEF Init, CommandInv, SuccessMeansApplied, ConflictMeansOtherInput
<1> QED
  BY TypeCorrect, ReceiptAlways, <1>1, CommandNext, PTL DEF Spec

\* No decision reaches the execution unless the audit log says that this command was
\* allowed to an administrator (CallbackIngress.authorize fails closed).
THEOREM DecisionsAreAudited == Spec => []AppliedWasAudited
<1>1. CommandInv => AppliedWasAudited
  BY DEF CommandInv, AppliedWasAudited, Audited
<1> QED
  BY <1>1, CommandAlways, PTL

\* A success answered to a client is the success of exactly its decision, and a
\* conflict is reported only for an event that was used with other input.
THEOREM AnswersAreTrue == Spec => [](SuccessMeansApplied /\ ConflictMeansOtherInput)
<1>1. CommandInv => SuccessMeansApplied /\ ConflictMeansOtherInput
  BY DEF CommandInv
<1> QED
  BY <1>1, CommandAlways, PTL
=============================================================================
