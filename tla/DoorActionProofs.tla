-------------------------- MODULE DoorActionProofs --------------------------
(***************************************************************************)
(* Proofs about DoorAction for any number of processes, handlers, doors    *)
(* and requests: doors are reserved exclusively, the door service          *)
(* implements ResourceReservation, unlocking needs an approval, and writes *)
(* are never repeated blindly.                                             *)
(***************************************************************************)
EXTENDS DoorAction, TLAPS

USE DEF Terminal, Nodes, Attempts, Locks

\* The steps on one execution: of its nodes, of the operator and of the calls.
Node(r) == Worker(r) \/ Operator(r) \/ Call(r)

(* The types hold at the start.                                              *)
LEMMA TypeInit == Init => TypeOK
BY NoneAssumption DEF Init, TypeOK

(* Every step keeps the types.                                               *)
LEMMA TypeNext == TypeOK /\ [Next]_vars => TypeOK'
<1> SUFFICES ASSUME TypeOK, [Next]_vars
             PROVE  TypeOK'
  OBVIOUS
<1>1. ASSUME NEW p \in Procs, AcquireWriter(p)
      PROVE  TypeOK'
  BY <1>1 DEF AcquireWriter, TypeOK, threadVars, history, bounds
<1>2. ASSUME NEW t \in Threads, NEW r \in Requests, Enter(t, r)
      PROVE  TypeOK'
  BY <1>2, NoneAssumption, ProcOfAssumption DEF Enter, TypeOK, history, bounds
<1>3. ASSUME NEW t \in Threads, CheckPasses(t)
      PROVE  TypeOK'
  BY <1>3 DEF CheckPasses, TypeOK, history, bounds
<1>4. ASSUME NEW t \in Threads, CheckFails(t)
      PROVE  TypeOK'
  BY <1>4, NoneAssumption, ProcOfAssumption DEF CheckFails, Leave, TypeOK, history, bounds
<1>5. ASSUME NEW t \in Threads, StartOrLoad(t)
      PROVE  TypeOK'
  <2>1. req[t] \in Requests
    BY <1>5 DEF StartOrLoad, TypeOK
  <2> QED
    BY <1>5, <2>1, NoneAssumption, ProcOfAssumption DEF StartOrLoad, Leave, TypeOK, history, bounds
<1>6. ASSUME NEW r \in Requests, Worker(r)
      PROVE  TypeOK'
  <2>a. driven' \subseteq Requests
    BY <1>6 DEF Worker, TypeOK
  <2>1. CASE Route(r)
    BY <2>1, <2>a DEF Route, RouteOf, Advance, TypeOK, threadVars, history, bounds
  <2>2. CASE ReadBefore(r)
    BY <2>2, <2>a DEF ReadBefore, TypeOK, threadVars, bounds
  <2>3. CASE GiveUpReading(r)
    BY <2>3, <2>a DEF GiveUpReading, Advance, TypeOK, threadVars, history
  <2>4. CASE WriteAnswered(r)
    <3>1. r.door \in Doors /\ r.desired \in Locks
      BY RequestsAssumption
    <3> QED
      BY <2>4, <2>a, <3>1 DEF WriteAnswered, TypeOK, threadVars
  <2>5. CASE WriteLost(r)
    <3>1. r.door \in Doors /\ r.desired \in Locks
      BY RequestsAssumption
    <3> QED
      BY <2>5, <2>a, <3>1 DEF WriteLost, ParkAs, Ambiguous, TypeOK, threadVars
  <2>6. CASE VerifySeen(r)
    BY <2>6, <2>a DEF VerifySeen, TypeOK, threadVars, bounds
  <2>7. CASE VerifyFails(r)
    BY <2>7, <2>a DEF VerifyFails, ParkAs, Ambiguous, TypeOK, threadVars, history
  <2>8. CASE Commit(r)
    BY <2>8, <2>a DEF Commit, Advance, TypeOK, threadVars, history, bounds
  <2>9. CASE Record(r)
    BY <2>9, <2>a DEF Record, Advance, TypeOK, threadVars, history, bounds
  <2> QED
    BY <1>6, <2>1, <2>2, <2>3, <2>4, <2>5, <2>6, <2>7, <2>8, <2>9 DEF Worker
<1>7. ASSUME NEW r \in Requests, Operator(r)
      PROVE  TypeOK'
  <2>1. CASE Approve(r)
    BY <2>1 DEF Approve, Drives, Advance, TypeOK, threadVars, bounds
  <2>2. CASE Deny(r) \/ Abort(r)
    BY <2>2 DEF Deny, Abort, Drives, Advance, TypeOK, threadVars, history, bounds
  <2>3. CASE Confirm(r)
    BY <2>3 DEF Confirm, Drives, Advance, TypeOK, threadVars, bounds
  <2>4. CASE Retry(r)
    BY <2>4 DEF Retry, Drives, Advance, TypeOK, threadVars, bounds
  <2> QED
    BY <1>7, <2>1, <2>2, <2>3, <2>4 DEF Operator
<1>8. ASSUME NEW d \in Doors, TurnByHand(d)
      PROVE  TypeOK'
  BY <1>8 DEF TurnByHand, TypeOK, threadVars, history
<1>9. CASE Crash
  BY <1>9 DEF Crash, TypeOK
<1>10. CASE UNCHANGED vars
  BY <1>10 DEF vars, TypeOK
<1>11. ASSUME NEW r \in Requests, Call(r)
       PROVE  TypeOK'
  <2>1. CASE Drive(r)
    BY <2>1 DEF Drive, Drives, TypeOK, threadVars, history, bounds
  <2>2. CASE BreaksOff(r)
    BY <2>2 DEF BreaksOff, TypeOK, threadVars
  <2> QED
    BY <1>11, <2>1, <2>2 DEF Call
<1> QED
  BY <1>1, <1>2, <1>3, <1>4, <1>5, <1>6, <1>7, <1>8, <1>9, <1>10, <1>11 DEF Next, Caller

\* Executions, threads and locks keep their types; a thread inside Start holds the
\* mutex of its process.
THEOREM TypeCorrect == Spec => []TypeOK
BY TypeInit, TypeNext, PTL DEF Spec

-----------------------------------------------------------------------------
\* A thread inside Start belongs to the owner of the store and, past the check, its
\* door is still free: nobody else can be between the check and the creation.
StartInv ==
  /\ \A t \in Threads : pc[t] # "idle" => ProcOf[t] = writer
  /\ \A t \in Threads : pc[t] = "admitted" => ~Held(req[t])

ReservationInv == StartInv /\ ReservationExclusive

\* No step on an execution makes it live.
LEMMA NodeReservesNothing ==
  ASSUME TypeOK, NEW r \in Requests, Node(r)
  PROVE  /\ UNCHANGED <<writer, threadVars>>
         /\ \A q \in Requests : Live(q)' => Live(q)
<1>1. CASE Route(r)
  BY <1>1 DEF Route, RouteOf, Advance, TypeOK, threadVars, Live
<1>2. CASE ReadBefore(r) \/ WriteAnswered(r) \/ VerifySeen(r)
  BY <1>2 DEF ReadBefore, WriteAnswered, VerifySeen, TypeOK, threadVars, Live
<1>3. CASE GiveUpReading(r) \/ Commit(r) \/ Record(r)
  BY <1>3 DEF GiveUpReading, Commit, Record, Advance, TypeOK, threadVars, Live
<1>4. CASE WriteLost(r)
  BY <1>4 DEF WriteLost, ParkAs, Ambiguous, TypeOK, threadVars, Live
<1>5. CASE VerifyFails(r)
  BY <1>5 DEF VerifyFails, ParkAs, Ambiguous, TypeOK, threadVars, Live
<1>6. CASE Operator(r)
  BY <1>6 DEF Operator, Approve, Deny, Confirm, Retry, Abort, Advance, TypeOK, threadVars, Live
<1>7. CASE Call(r)
  BY <1>7 DEF Call, Drive, BreaksOff, threadVars, Live
<1> QED
  BY <1>1, <1>2, <1>3, <1>4, <1>5, <1>6, <1>7 DEF Node, Worker

(* Every step keeps the reservation and what makes it inductive.             *)
LEMMA ReservationNext == TypeOK /\ ReservationInv /\ [Next]_vars => ReservationInv'
<1> SUFFICES ASSUME TypeOK, ReservationInv, [Next]_vars
             PROVE  ReservationInv'
  OBVIOUS
<1> USE DEF ReservationInv, StartInv
<1>1. ASSUME NEW p \in Procs, AcquireWriter(p)
      PROVE  ReservationInv'
  <2>1. \A t \in Threads : pc[t] = "idle"
    BY <1>1, NoneAssumption, ProcOfAssumption DEF AcquireWriter, TypeOK
  <2> QED
    BY <1>1, <2>1 DEF AcquireWriter, threadVars, ReservationExclusive, Live, Held
<1>2. ASSUME NEW t \in Threads, NEW r \in Requests, Enter(t, r)
      PROVE  ReservationInv'
  <2>1. \A u \in Threads : pc'[u] = "admitted" => pc[u] = "admitted" /\ req'[u] = req[u]
    BY <1>2 DEF Enter, TypeOK
  <2> QED
    BY <1>2, <2>1 DEF Enter, TypeOK, ReservationExclusive, Live, Held
<1>3. ASSUME NEW t \in Threads, CheckPasses(t)
      PROVE  ReservationInv'
  BY <1>3 DEF CheckPasses, TypeOK, ReservationExclusive, Live, Held
<1>4. ASSUME NEW t \in Threads, CheckFails(t)
      PROVE  ReservationInv'
  BY <1>4 DEF CheckFails, Leave, TypeOK, ReservationExclusive, Live, Held
<1>5. ASSUME NEW t \in Threads, StartOrLoad(t)
      PROVE  ReservationInv'
  <2>1. req[t] \in Requests /\ ~Held(req[t]) /\ mutex[writer] = t /\ ProcOf[t] = writer
    BY <1>5 DEF StartOrLoad, TypeOK
  <2>2. \A u \in Threads : pc'[u] = "idle"
    <3>1. \A u \in Threads : pc[u] # "idle" => mutex[writer] = u
      BY DEF TypeOK
    <3> QED
      BY <1>5, <2>1, <3>1 DEF StartOrLoad, Leave, TypeOK
  <2>3. \A q \in Requests : Live(q)' => Live(q) \/ q = req[t]
    BY <1>5, <2>1 DEF StartOrLoad, TypeOK, Live
  <2>4. \A q \in Requests \ {req[t]} : q.door = req[t].door => ~Live(q)
    BY <2>1 DEF Held
  <2>5. ReservationExclusive'
    BY <2>3, <2>4, <2>1 DEF ReservationExclusive
  <2> QED
    BY <2>2, <2>5
<1>6. ASSUME NEW r \in Requests, Node(r)
      PROVE  ReservationInv'
  <2>1. /\ UNCHANGED <<writer, pc, req>>
        /\ \A q \in Requests : Live(q)' => Live(q)
    BY <1>6, NodeReservesNothing DEF threadVars
  <2>2. \A q : Held(q)' => Held(q)
    BY <2>1 DEF Held
  <2> QED
    BY <2>1, <2>2 DEF ReservationExclusive
<1>7. ASSUME NEW d \in Doors, TurnByHand(d)
      PROVE  ReservationInv'
  BY <1>7 DEF TurnByHand, threadVars, ReservationExclusive, Live, Held
<1>8. CASE Crash
  BY <1>8 DEF Crash, ReservationExclusive, Live, Held
<1>9. CASE UNCHANGED vars
  BY <1>9 DEF vars, ReservationExclusive, Live, Held
<1> QED
  BY <1>1, <1>2, <1>3, <1>4, <1>5, <1>6, <1>7, <1>8, <1>9 DEF Next, Caller, Node

\* Two live executions never own one door, for any number of processes, handlers,
\* doors and requests (resourceguard.Check under startMu and the WriterGuard).
THEOREM DoorsAreExclusive == Spec => []ReservationExclusive
<1>1. Init => ReservationInv
  BY DEF Init, ReservationInv, StartInv, ReservationExclusive, Live
<1>2. ReservationInv => ReservationExclusive
  BY DEF ReservationInv
<1> QED
  BY TypeCorrect, <1>1, <1>2, ReservationNext, PTL DEF Spec

-----------------------------------------------------------------------------
\* What the progress of one execution says of its writes, approval and evidence.
EffectInvOf(r) ==
  /\ st[r] # "applying" => attempt[r] = "none"
  /\ st[r] \in {"absent", "created", "approval"} => writes[r] = 0
  /\ writes[r] <= 1 + retries[r] + lost[r]
  /\ st[r] = "applying" /\ attempt[r] \in {"none", "found", "write"} => writes[r] <= retries[r] + lost[r]
  /\ r.desired = "unlocked" /\ (st[r] = "applying" \/ writes[r] > 0 \/ st[r] = "reconcile") => r \in approved
  /\ attempt[r] \in {"found", "seen"} => r \in observed
  /\ st[r] \in {"record-done", "completed"} => r \in observed \cup confirmed

EffectInv == \A r \in Requests : EffectInvOf(r)

\* A step of one execution leaves what is known of the others alone.
LEMMA OthersUntouched ==
  ASSUME TypeOK, EffectInv, NEW r \in Requests, NEW q \in Requests, q # r, Node(r)
  PROVE  EffectInvOf(q)'
<1>1. CASE Route(r) \/ GiveUpReading(r) \/ Commit(r) \/ Record(r)
  BY <1>1 DEF Route, GiveUpReading, Commit, Record, Advance, TypeOK, EffectInv, EffectInvOf, history, bounds
<1>2. CASE ReadBefore(r) \/ WriteAnswered(r) \/ VerifySeen(r)
  BY <1>2 DEF ReadBefore, WriteAnswered, VerifySeen, TypeOK, EffectInv, EffectInvOf, bounds
<1>3. CASE WriteLost(r)
  BY <1>3 DEF WriteLost, ParkAs, TypeOK, EffectInv, EffectInvOf
<1>4. CASE VerifyFails(r)
  BY <1>4 DEF VerifyFails, ParkAs, TypeOK, EffectInv, EffectInvOf, history
<1>5. CASE Operator(r)
  BY <1>5 DEF Operator, Approve, Deny, Confirm, Retry, Abort, Advance, TypeOK, EffectInv, EffectInvOf, history, bounds
<1>6. CASE Drive(r)
  BY <1>6 DEF Drive, EffectInv, EffectInvOf, history
<1>7. CASE BreaksOff(r)
  BY <1>7 DEF BreaksOff, TypeOK, EffectInv, EffectInvOf
<1> QED
  BY <1>1, <1>2, <1>3, <1>4, <1>5, <1>6, <1>7 DEF Node, Worker, Call

(* A step on an execution keeps what is said of its own effects.             *)
LEMMA OwnStep ==
  ASSUME TypeOK, EffectInv, NEW r \in Requests, Node(r)
  PROVE  EffectInvOf(r)'
<1>1. EffectInvOf(r) /\ writes[r] \in Nat /\ retries[r] \in Nat /\ lost[r] \in Nat
  BY DEF EffectInv, TypeOK
<1>2. r.desired \in {"locked", "unlocked"}
  BY RequestsAssumption
<1>3. CASE Route(r)
  BY <1>1, <1>2, <1>3 DEF Route, RouteOf, Advance, TypeOK, EffectInvOf, history, bounds
<1>4. CASE ReadBefore(r)
  BY <1>1, <1>4 DEF ReadBefore, TypeOK, EffectInvOf, bounds
<1>5. CASE GiveUpReading(r) \/ Commit(r) \/ Record(r)
  BY <1>1, <1>5 DEF GiveUpReading, Commit, Record, Advance, TypeOK, EffectInvOf, history, bounds
<1>6. CASE WriteAnswered(r)
  BY <1>1, <1>6 DEF WriteAnswered, TypeOK, EffectInvOf
<1>7. CASE WriteLost(r)
  BY <1>1, <1>7 DEF WriteLost, ParkAs, Ambiguous, TypeOK, EffectInvOf
<1>8. CASE VerifySeen(r)
  BY <1>1, <1>8 DEF VerifySeen, VerifiedState, TypeOK, EffectInvOf, bounds
<1>9. CASE VerifyFails(r)
  BY <1>1, <1>9 DEF VerifyFails, ParkAs, Ambiguous, TypeOK, EffectInvOf, history
<1>10. CASE Approve(r)
  BY <1>1, <1>10 DEF Approve, Advance, TypeOK, EffectInvOf, bounds
<1>11. CASE Deny(r) \/ Abort(r)
  BY <1>1, <1>11 DEF Deny, Abort, Advance, TypeOK, EffectInvOf, history, bounds
<1>12. CASE Confirm(r)
  BY <1>1, <1>12 DEF Confirm, Advance, TypeOK, EffectInvOf, bounds
<1>13. CASE Retry(r)
  BY <1>1, <1>13 DEF Retry, Advance, TypeOK, EffectInvOf, bounds
<1>14. CASE Drive(r)
  BY <1>1, <1>14 DEF Drive, EffectInvOf, history
<1>15. CASE BreaksOff(r)
  <2>1. /\ st' = st /\ writes' = writes /\ retries' = retries /\ approved' = approved
        /\ observed' = observed /\ confirmed' = confirmed /\ attempt'[r] = "none"
        /\ lost'[r] = IF attempt[r] \in {"verify", "seen"} THEN lost[r] + 1 ELSE lost[r]
        /\ attempt[r] \in Attempts
    BY <1>15 DEF BreaksOff, TypeOK
  <2> QED
    BY <1>1, <2>1 DEF EffectInvOf
<1> QED
  BY <1>3, <1>4, <1>5, <1>6, <1>7, <1>8, <1>9, <1>10, <1>11, <1>12, <1>13, <1>14, <1>15
     DEF Node, Worker, Operator, Call

(* Every step keeps what is said of the effects.                             *)
LEMMA EffectNext == TypeOK /\ EffectInv /\ [Next]_vars => EffectInv'
<1> SUFFICES ASSUME TypeOK, EffectInv, [Next]_vars
             PROVE  EffectInv'
  OBVIOUS
<1>1. ASSUME UNCHANGED <<st, attempt, history>>
      PROVE  EffectInv'
  BY <1>1 DEF EffectInv, EffectInvOf, history
<1>2. ASSUME NEW t \in Threads, StartOrLoad(t)
      PROVE  EffectInv'
  <2>1. req[t] \in Requests
    BY <1>2 DEF StartOrLoad, TypeOK
  <2> QED
    BY <1>2, <2>1 DEF StartOrLoad, TypeOK, EffectInv, EffectInvOf, history
<1>3. ASSUME NEW t \in Threads, NEW r \in Requests, Enter(t, r) \/ CheckPasses(t) \/ CheckFails(t)
      PROVE  EffectInv'
  BY <1>1, <1>3 DEF Enter, CheckPasses, CheckFails
<1>4. ASSUME NEW r \in Requests, Node(r)
      PROVE  EffectInv'
  BY <1>4, OwnStep, OthersUntouched DEF EffectInv
<1>5. CASE Crash
  <2> SUFFICES ASSUME NEW r \in Requests
               PROVE  EffectInvOf(r)'
    BY DEF EffectInv
  <2>1. EffectInvOf(r) /\ writes[r] \in Nat /\ retries[r] \in Nat /\ lost[r] \in Nat /\ attempt[r] \in Attempts
    BY DEF EffectInv, TypeOK
  <2>2. /\ st' = st /\ writes' = writes /\ retries' = retries /\ approved' = approved
        /\ observed' = observed /\ confirmed' = confirmed /\ attempt'[r] = "none"
        /\ lost'[r] = IF attempt[r] \in {"verify", "seen"} THEN lost[r] + 1 ELSE lost[r]
    BY <1>5 DEF Crash
  <2> QED
    BY <2>1, <2>2 DEF EffectInvOf
<1>6. CASE (\E d \in Doors : TurnByHand(d)) \/ (\E p \in Procs : AcquireWriter(p)) \/ UNCHANGED vars
  BY <1>1, <1>6 DEF TurnByHand, AcquireWriter, vars, history
<1>7. ASSUME NEW t \in Threads, CheckPasses(t) \/ CheckFails(t)
      PROVE  EffectInv'
  BY <1>1, <1>7 DEF CheckPasses, CheckFails
<1> QED
  BY <1>2, <1>3, <1>4, <1>5, <1>6, <1>7 DEF Next, Caller, Node

(* So it is said of every behaviour.                                         *)
LEMMA EffectAlways == Spec => []EffectInv
<1>1. Init => EffectInv
  BY DEF Init, EffectInv, EffectInvOf
<1> QED
  BY TypeCorrect, <1>1, EffectNext, PTL DEF Spec

\* No unlock command is sent for an execution without an approval, whatever
\* crashes, retries and lost answers come in between (THREAT_MODEL: unlock requires
\* a durable high-risk human gate).
THEOREM UnlockNeedsApproval == Spec => []NoUnlockWithoutApproval
<1>1. EffectInv => NoUnlockWithoutApproval
  BY DEF EffectInv, EffectInvOf, NoUnlockWithoutApproval
<1> QED
  BY <1>1, EffectAlways, PTL

\* Every write after the first is owed to an operator's retry, or to a crash or a call
\* broken off that lost the answer (THREAT_MODEL: ambiguous side effects are not blindly retried).
THEOREM NoWriteIsBlind == Spec => []NoBlindRetry
<1>1. EffectInv => NoBlindRetry
  BY DEF EffectInv, EffectInvOf, NoBlindRetry
<1> QED
  BY <1>1, EffectAlways, PTL

\* A completed execution saw its door in the desired state, or an operator vouched.
THEOREM CompletionIsEvidence == Spec => []CompletedWasSeen
<1>1. EffectInv => CompletedWasSeen
  BY DEF EffectInv, EffectInvOf, CompletedWasSeen
<1> QED
  BY <1>1, EffectAlways, PTL

-----------------------------------------------------------------------------
\* Executions change nothing of the reservations unless they end.
LEMMA NodeRefines ==
  ASSUME TypeOK, NEW r \in Requests, Node(r)
  PROVE  [Reservation!Next]_(Reservation!vars)
<1> DEFINE H == {q \in Requests : Live(q)}
           E == {q \in Requests : st[q] \in Terminal}
<1>1. ASSUME NEW to, Live(r), st' = [st EXCEPT ![r] = to], to \notin Terminal, to # "absent"
      PROVE  H' = H /\ E' = E
  BY <1>1 DEF TypeOK, Live
<1>2. ASSUME NEW to \in Terminal, Live(r), st' = [st EXCEPT ![r] = to]
      PROVE  r \in H /\ H' = H \ {r} /\ E' = E \cup {r}
  BY <1>2 DEF TypeOK, Live
<1>3. (H' = H /\ E' = E) \/ (r \in H /\ H' = H \ {r} /\ E' = E \cup {r})
  <2>a. CASE Call(r)
    BY <2>a DEF Call, Drive, BreaksOff, Live
  <2>1. CASE Route(r)
    BY <2>1, <1>1 DEF Route, RouteOf, Advance, Live
  <2>2. CASE ReadBefore(r) \/ WriteAnswered(r) \/ VerifySeen(r)
    BY <2>2 DEF ReadBefore, WriteAnswered, VerifySeen, Live
  <2>3. CASE WriteLost(r)
    BY <2>3, <1>1 DEF WriteLost, ParkAs, Ambiguous, Live
  <2>4. CASE VerifyFails(r)
    BY <2>4, <1>1 DEF VerifyFails, ParkAs, Ambiguous, Live
  <2>5. CASE GiveUpReading(r)
    BY <2>5, <1>2 DEF GiveUpReading, Advance, Live
  <2>6. CASE Commit(r)
    BY <2>6, <1>1 DEF Commit, Advance, Live
  <2>7. CASE Record(r)
    BY <2>7, <1>2 DEF Record, Advance, Live
  <2>8. CASE Approve(r) \/ Deny(r) \/ Confirm(r) \/ Retry(r)
    BY <2>8, <1>1 DEF Approve, Deny, Confirm, Retry, Advance, Live
  <2>9. CASE Abort(r)
    BY <2>9, <1>2 DEF Abort, Advance, Live
  <2> QED
    BY <2>a, <2>1, <2>2, <2>3, <2>4, <2>5, <2>6, <2>7, <2>8, <2>9 DEF Node, Worker, Operator
<1> QED
  BY <1>3 DEF Reservation!Next, Reservation!Release, Reservation!vars

(* Every step is one of the abstract reservation, or a stutter.              *)
LEMMA NextRefines ==
  TypeOK /\ ReservationInv /\ [Next]_vars => [Reservation!Next]_(Reservation!vars)
<1> SUFFICES ASSUME TypeOK, ReservationInv, [Next]_vars
             PROVE  [Reservation!Next]_(Reservation!vars)
  OBVIOUS
<1>1. ASSUME UNCHANGED st
      PROVE  UNCHANGED Reservation!vars
  BY <1>1 DEF Reservation!vars, Live
<1>2. ASSUME NEW t \in Threads, StartOrLoad(t)
      PROVE  [Reservation!Next]_(Reservation!vars)
  <2> DEFINE r == req[t]
  <2>1. r \in Requests /\ ~Held(r) /\ st' = [st EXCEPT ![r] = IF @ = "absent" THEN "created" ELSE @]
    BY <1>2 DEF StartOrLoad, TypeOK, ReservationInv, StartInv
  <2>2. CASE st[r] # "absent"
    BY <2>1, <2>2, <1>1 DEF TypeOK
  <2>3. CASE st[r] = "absent"
    <3>1. \A q \in Requests : Live(q)' <=> Live(q) \/ q = r
      BY <2>1, <2>3 DEF TypeOK, Live
    <3>2. \A q \in Requests : st'[q] \in Terminal <=> st[q] \in Terminal
      BY <2>1, <2>3 DEF TypeOK
    <3>3. ~Live(r) /\ st[r] \notin Terminal
      BY <2>3 DEF Live
    <3>4. \A q \in Requests : Live(q) => q.door # r.door
      BY <2>1, <3>3 DEF Held
    <3>5. Reservation!Reserve(r)
      BY <2>1, <3>1, <3>2, <3>3, <3>4 DEF Reservation!Reserve
    <3> QED
      BY <3>5, <2>1 DEF Reservation!Next
  <2> QED
    BY <2>2, <2>3
<1>3. ASSUME NEW r \in Requests, Node(r)
      PROVE  [Reservation!Next]_(Reservation!vars)
  BY <1>3, NodeRefines
<1>4. ASSUME UNCHANGED st
      PROVE  [Reservation!Next]_(Reservation!vars)
  BY <1>1, <1>4
<1>5. ASSUME NEW p \in Procs, AcquireWriter(p)
      PROVE  UNCHANGED st
  BY <1>5 DEF AcquireWriter
<1>6. ASSUME NEW t \in Threads, NEW r \in Requests, Enter(t, r)
      PROVE  UNCHANGED st
  BY <1>6 DEF Enter
<1>7. ASSUME NEW t \in Threads, CheckPasses(t) \/ CheckFails(t)
      PROVE  UNCHANGED st
  BY <1>7 DEF CheckPasses, CheckFails
<1>8. ASSUME (\E d \in Doors : TurnByHand(d)) \/ Crash \/ UNCHANGED vars
      PROVE  UNCHANGED st
  BY <1>8 DEF TurnByHand, Crash, vars
<1> QED
  BY <1>2, <1>3, <1>4, <1>5, <1>6, <1>7, <1>8 DEF Next, Caller, Node

\* The door service implements the abstract reservation: every execution takes its
\* door once, only while it is free, and keeps it until it ends.
THEOREM DoorsImplementReservation == Spec => ReservesDoors
<1>1. Init => ReservationInv
  BY DEF Init, ReservationInv, StartInv, ReservationExclusive, Live
<1>2. Init => Reservation!Init
  BY DEF Init, Reservation!Init, Live
<1> QED
  BY TypeCorrect, <1>1, <1>2, ReservationNext, NextRefines, PTL DEF Spec, ReservesDoors, Reservation!Spec
=============================================================================
