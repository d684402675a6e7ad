------------------------------ MODULE BackupJobs ------------------------------
(***************************************************************************)
(* The backups of the critical state: the manager, which runs one          *)
(* operation at a time on a restic repository (internal/backup/manager.go, *)
(* restic/client.go), the schedule that asks it for one now and then       *)
(* (scheduler.go), people who ask it for any (backup_handlers.go), and     *)
(* their part in the end of the process (app.go, Close).                   *)
(*                                                                         *)
(* An operation is a row of calls, each of which may end badly, halfway    *)
(* too; a canceled context ends the call that runs and fails those that    *)
(* come after.  Every bundle is staged in a directory of its own, and      *)
(* restic forgets by host and path: it never forgets one of them.          *)
(***************************************************************************)
EXTENDS Naturals, Sequences, FiniteSets

CONSTANTS Clients, MaxOperations, MaxWrites

VARIABLES
    data,           \* commits of the database
    repository,     \* [key, snapshots]: whose password opens it, "none" before init
    jobs,           \* the job records, in the order of their ids
    lock, op,       \* Manager.mu; what each actor is at
    canceled,       \* the actors whose context has ended
    schedule,       \* whether the loop of the scheduler runs
    closing,        \* how far App.Close is
    health,         \* of "backup": "starting", "healthy", or what failed
    asked

vars == <<data, repository, jobs, lock, op, canceled, schedule, closing, health, asked>>

Timer == "timer"
Actors == Clients \cup {Timer}
None == [none |-> TRUE]
Nobody == "nobody"

(* The calls that each operation makes, and those that need no restic.       *)
Calls ==
    [backup |-> <<"vacuum", "export", "backup">>, check |-> <<"check">>, init |-> <<"init">>,
     restore_test |-> <<"restore">>, retention_preview |-> <<"dry_run">>,
     retention_apply |-> <<"forget", "prune", "check">>]
Kinds == DOMAIN Calls
Local == {"vacuum", "export"}

Stored == closing # "closed"                        \* the database is open
Password == closing \notin {"wiped", "closed"}      \* WipePassword has not run

Init ==
    /\ data = 0
    /\ repository \in [key : {"none", "ours"}, snapshots : {{}}]
    /\ jobs = <<>> /\ lock = Nobody
    /\ op = [a \in Actors |-> None]
    /\ canceled = {} /\ schedule = TRUE
    /\ closing = "open" /\ health = "starting" /\ asked = 0

-----------------------------------------------------------------------------
(* The environment: another part of the program writes, a client goes away   *)
(* or its time is over, the time of a scheduled run is.                      *)
Write ==
    /\ Stored /\ data < MaxWrites /\ data' = data + 1
    /\ UNCHANGED <<repository, jobs, lock, op, canceled, schedule, closing, health, asked>>

EndContext(a) ==
    /\ op[a] # None /\ a \notin canceled
    /\ canceled' = canceled \cup {a}
    /\ UNCHANGED <<data, repository, jobs, lock, op, schedule, closing, health, asked>>

-----------------------------------------------------------------------------
(* An operation *)

(* A handler finds the manager until Close has dropped it; the loop's select *)
(* may pick a tick that was there when the run context ended.                *)
Ask(a, kind) ==
    /\ op[a] = None /\ asked < MaxOperations /\ asked' = asked + 1
    /\ IF a = Timer THEN schedule /\ kind = "backup" ELSE Password
    /\ op' = [op EXCEPT ![a] = [kind |-> kind, stage |-> "waits", step |-> 1, since |-> data,
                                job |-> 0, database |-> 0]]
    /\ canceled' = IF a = Timer /\ closing # "open" THEN canceled \cup {a} ELSE canceled \ {a}
    /\ UNCHANGED <<data, repository, jobs, lock, schedule, closing, health>>

(* m.mu.Lock heeds no context.  The first record of a backup does.           *)
Lock(a) ==
    /\ op[a] # None /\ op[a].stage = "waits" /\ lock = Nobody
    /\ lock' = a
    /\ op' = [op EXCEPT ![a].stage = "ready", ![a].job = IF op[a].kind = "backup" THEN Len(jobs) + 1 ELSE 0]
    /\ jobs' = IF op[a].kind # "backup" THEN jobs
               ELSE Append(jobs, [status |-> IF Stored /\ a \notin canceled THEN "running" ELSE "unwritten",
                                  since |-> op[a].since])
    /\ UNCHANGED <<data, repository, canceled, schedule, closing, health, asked>>

At(a, stage) == lock = a /\ op[a].stage = stage
TheCall(a) == Calls[op[a].kind][op[a].step]

(* What Client.validate and a context that has ended refuse is not run.      *)
Call(a) ==
    /\ At(a, "ready")
    /\ op' = [op EXCEPT ![a].stage =
           IF a \notin canceled /\ (IF TheCall(a) \in Local THEN Stored ELSE Password)
           THEN "calls" ELSE "failed"]
    /\ UNCHANGED <<data, repository, jobs, lock, canceled, schedule, closing, health, asked>>

Snapshot(a, whole) == [job |-> op[a].job, database |-> op[a].database, whole |-> whole]
(* The password of a client that is being wiped may reach restic as zeros.   *)
InitKeys == IF Password THEN {"ours"} ELSE {"ours", "zeros"}

Succeed(a) ==
    /\ At(a, "calls")
    /\ CASE TheCall(a) \in Local -> Stored /\ UNCHANGED repository
         [] TheCall(a) = "init" -> /\ repository.key = "none"
                                   /\ \E k \in InitKeys : repository' = [repository EXCEPT !.key = k]
         [] TheCall(a) = "backup" -> /\ repository.key = "ours"
                                     /\ repository' = [repository EXCEPT !.snapshots = @ \cup {Snapshot(a, TRUE)}]
         [] TheCall(a) = "restore" -> /\ repository.key = "ours" /\ UNCHANGED repository
                                      /\ \E s \in repository.snapshots : s.whole   \* VerifyCriticalBundle
         [] OTHER -> repository.key = "ours" /\ UNCHANGED repository
    /\ op' = [op EXCEPT ![a].stage = IF op[a].step = Len(Calls[op[a].kind]) THEN "done" ELSE "ready",
                        ![a].step = IF op[a].step = Len(Calls[op[a].kind]) THEN @ ELSE @ + 1,
                        ![a].database = IF TheCall(a) = "vacuum" THEN data ELSE @]
    /\ UNCHANGED <<data, jobs, lock, canceled, schedule, closing, health, asked>>

(* A backup that fails may have left a snapshot, and one that could not read *)
(* every file (exit code 3) has left part of one.                            *)
Partial(a) == {{Snapshot(a, TRUE)}, {Snapshot(a, FALSE)}}
Left(a) == IF TheCall(a) = "backup" /\ repository.key = "ours" THEN Partial(a) \cup {{}} ELSE {{}}
Fail(a) ==
    /\ At(a, "calls")
    /\ \E left \in Left(a) : repository' = [repository EXCEPT !.snapshots = @ \cup left]
    /\ op' = [op EXCEPT ![a].stage = "failed"]
    /\ UNCHANGED <<data, jobs, lock, canceled, schedule, closing, health, asked>>

AnySnapshotWillDo(a) ==             \* a slip: a snapshot id is taken for a success
    op[a].stage = "done" \/ \E s \in repository.snapshots : s.job = op[a].job
Succeeded(a) == op[a].stage = "done"

Recorded(a) == Stored                               \* Put(context.Background(), ...)

Finish(a) ==
    /\ At(a, "done") \/ At(a, "failed")
    /\ jobs' = IF op[a].kind = "backup" /\ Recorded(a)
               THEN [jobs EXCEPT ![op[a].job].status = IF Succeeded(a) THEN "succeeded" ELSE "failed"]
               ELSE jobs
    /\ health' = IF Succeeded(a) THEN "healthy" ELSE op[a].kind
    /\ op' = [op EXCEPT ![a] = None]
    /\ lock' = Nobody
    /\ UNCHANGED <<data, repository, canceled, schedule, closing, asked>>

-----------------------------------------------------------------------------
(* App.Close *)

RunEnds ==                                          \* runCancel
    /\ closing = "open" /\ closing' = "canceled"
    /\ canceled' = canceled \cup {Timer}
    /\ UNCHANGED <<data, repository, jobs, lock, op, schedule, health, asked>>

LoopOnAndOn == FALSE                                \* a slip: the loop does not look at the context
Leaves == closing # "open"
EndLoop ==                                          \* <-ctx.Done() of the loop of Scheduler.Start
    /\ schedule /\ Leaves /\ op[Timer] = None
    /\ schedule' = FALSE
    /\ UNCHANGED <<data, repository, jobs, lock, op, canceled, closing, health, asked>>

CloseScheduler ==                                   \* Scheduler.Close has waited for the loop
    /\ closing = "canceled" /\ ~schedule /\ closing' = "waited"
    /\ UNCHANGED <<data, repository, jobs, lock, op, canceled, schedule, health, asked>>
WipePassword ==
    /\ closing = "waited" /\ closing' = "wiped"
    /\ UNCHANGED <<data, repository, jobs, lock, op, canceled, schedule, health, asked>>
CloseDB ==
    /\ closing = "wiped" /\ closing' = "closed"
    /\ UNCHANGED <<data, repository, jobs, lock, op, canceled, schedule, health, asked>>

-----------------------------------------------------------------------------
Work(a) == Lock(a) \/ Call(a) \/ Succeed(a) \/ Fail(a) \/ Finish(a)
Close == CloseScheduler \/ WipePassword \/ CloseDB
Next ==
    \/ Write \/ RunEnds \/ EndLoop \/ Close
    \/ \E a \in Actors : EndContext(a) \/ Work(a) \/ \E kind \in Kinds : Ask(a, kind)

(* Restic ends, a mutex is fair, a loop whose context has ended comes to see *)
(* it, and Close goes on when it can.                                        *)
Fairness ==
    /\ \A a \in Actors : SF_vars(Work(a))
    /\ SF_vars(EndLoop) /\ WF_vars(Close)
Spec == Init /\ [][Next]_vars /\ Fairness

-----------------------------------------------------------------------------
(* Properties *)

(* The record says of a backup that it succeeded only if the repository has  *)
(* all of it, no older than when it was asked for (RunCritical).             *)
SucceededIsRestorable ==
    \A j \in DOMAIN jobs : jobs[j].status = "succeeded" =>
        \E s \in repository.snapshots : s.job = j /\ s.whole /\ s.database >= jobs[j].since

(* Close comes to its end, although it waits for a scheduled run that may    *)
(* itself be waiting for the operation of a client.                          *)
CloseEnds == closing = "canceled" ~> closing = "closed"
=============================================================================
