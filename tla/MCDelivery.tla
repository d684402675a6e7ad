----------------------------- MODULE MCDelivery -----------------------------
(***************************************************************************)
(* Small instances of the delivery of notifications (TelegramNotifier) and *)
(* of the backups (BackupJobs).  They share no state: a behaviour is of    *)
(* one of them, which part names, and the other stays as it began.         *)
(***************************************************************************)
EXTENDS TelegramNotifier

CONSTANTS Clients, MaxOperations, MaxWrites

VARIABLES part, data, repository, jobs, lock, op, canceled, schedule, closing, health, asked   \* BackupJobs

backupVars == <<data, repository, jobs, lock, op, canceled, schedule, closing, health, asked>>

J == INSTANCE BackupJobs

MCInit ==
    /\ part \in {"notify", "backup"}
    /\ Init /\ J!Init
    /\ part # "backup" => repository.key = "none"
MCNext ==
    \/ part = "notify" /\ Next /\ UNCHANGED <<part, backupVars>>
    \/ part = "backup" /\ J!Next /\ UNCHANGED <<part, vars>>

(* Before a call, and before an operation, nothing is due: the part that     *)
(* does not run is not held to its fairness.                                 *)
MCSpec == MCInit /\ [][MCNext]_<<part, vars, backupVars>> /\ Fairness /\ J!Fairness

-----------------------------------------------------------------------------
(* A backup recorded as succeeded can be restored (BackupJobs).              *)
SucceededIsRestorable == J!SucceededIsRestorable
(* Close does not wait for ever for a scheduled backup (BackupJobs).         *)
BackupCloseEnds == J!CloseEnds
=============================================================================
