--------------------------- MODULE ReleaseUpdate ---------------------------
(***************************************************************************)
(* An update of the installation by cmd/sentinel-updater: checkpoint, pull *)
(* and start the target release, wait for its readiness, and on failure    *)
(* stop it, put the checkpoint back and start the old release.  The steps  *)
(* are commands of Docker on the host, and commands of Sentinel run in its *)
(* container; each may fail, do its work and not say so, or be cut off.    *)
(*                                                                         *)
(* The database is a file with a write-ahead log beside it.  Sentinel      *)
(* commits into the log; a process that closes the database folds the log  *)
(* into the file, one that is killed leaves it, and the next to open the   *)
(* path reads the file through whatever log lies there.                    *)
(*                                                                         *)
(*   content  [schema, data]: data is the number of the last write         *)
(*   file     [id, schema, data]                                           *)
(*   log      [of, schema, data]: what file number "of" contains with it   *)
(*   copy     [schema, data, secrets, update]: a bundle, made by an update *)
(*                                                                         *)
(* Writes are counted from 1; data 0 is an empty database, secrets 0 a     *)
(* directory that is not there.                                            *)
(***************************************************************************)
EXTENDS Naturals, FiniteSetsExt

CONSTANTS
    Releases,                   \* numbers, in the order of their versions
    Schema, MinReadable,        \* Releases -> Nat: Manifest
    First,                      \* the release installed at first
    MaxUpdates, MaxWrites, MaxTroubles

VARIABLES
    file, log, secrets,         \* at the database path, beside it; the directory of secrets
    checkpoint,                 \* the bundle at the checkpoint path, or None
    image, wanted,              \* the container: its release; Docker keeps it running
    process, opened, view,      \* Sentinel; the file it has open; what it reads there
    inventory,                  \* current-state.json: [version, schema], or None
    pc, from, to, copy,         \* the updater: its step, the releases, the bundle in the making
    stopped, result,            \* whether the rollback could stop the target; Result
    updates, writes, files, troubles,
    misplanned, unstopped               \* what has ever happened

disk == <<file, log, secrets, checkpoint>>
container == <<image, wanted, process, opened, view>>
updater == <<inventory, pc, from, to, copy, stopped, result>>
counts == <<updates, writes, files, troubles>>
past == <<misplanned, unstopped>>
vars == <<disk, container, updater, counts, past>>

None == [none |-> TRUE]
Mixed == [schema |-> 0, data |-> 0]     \* pages of one database under the log of another
Content(f) == [schema |-> f.schema, data |-> f.data]
Read(f, l) == IF l = None THEN Content(f)
              ELSE IF l.of = f.id THEN Content(l) ELSE Mixed

Init ==
    /\ file = [id |-> 1, schema |-> Schema[First], data |-> 1] /\ log = None
    /\ secrets \in {0, 1} /\ checkpoint = None
    /\ image = First /\ wanted = TRUE
    /\ process = "serving" /\ opened = 1 /\ view = Content(file)
    /\ inventory = None /\ pc = "idle" /\ from = First /\ to = First /\ copy = None
    /\ stopped = FALSE /\ result = "none"
    /\ updates = 0 /\ writes = 1 /\ files = 1 /\ troubles = 0
    /\ misplanned = FALSE /\ unstopped = FALSE

Trouble == troubles < MaxTroubles /\ troubles' = troubles + 1 /\ UNCHANGED <<updates, writes, files>>

-----------------------------------------------------------------------------
(* Sentinel in its container *)

(* A database that is not there is created; one that is not sound does not   *)
(* open.                                                                     *)
Open ==
    /\ process = "down" /\ wanted
    /\ file # None => Read(file, log) # Mixed
    /\ process' = "starting"
    /\ IF file = None
       THEN file' = [id |-> files + 1, schema |-> 0, data |-> 0] /\ files' = files + 1
       ELSE UNCHANGED <<file, files>>
    /\ opened' = file'.id /\ view' = Read(file', log)
    /\ UNCHANGED <<log, secrets, checkpoint, image, wanted, updater, updates, writes, troubles,
                   past>>

Commit(content) ==
    /\ view' = content
    /\ log' = [of |-> opened, schema |-> content.schema, data |-> content.data]

(* One transaction for each migration; nothing is said of those unknown.     *)
Migrate ==
    /\ process = "starting"
    /\ IF view.schema < Schema[image]
       THEN Commit([view EXCEPT !.schema = @ + 1]) /\ UNCHANGED process
       ELSE process' = "serving" /\ UNCHANGED <<view, log>>
    /\ UNCHANGED <<file, secrets, checkpoint, image, wanted, opened, updater, counts, past>>

Write ==
    /\ process = "serving" /\ writes < MaxWrites
    /\ writes' = writes + 1
    /\ \/ Commit([view EXCEPT !.data = writes']) /\ UNCHANGED secrets
       \/ secrets' = writes' /\ UNCHANGED <<view, log>>
    /\ UNCHANGED <<file, checkpoint, image, wanted, process, opened, updater, updates, files, troubles, past>>

(* Asked to stop, a server closes its database; before it listens to signals *)
(* it is killed by them.                                                     *)
Closes ==
    /\ process' = "down" /\ UNCHANGED <<opened, view>>
    /\ IF process = "serving" /\ file # None /\ opened = file.id
       THEN file' = [id |-> opened, schema |-> view.schema, data |-> view.data] /\ log' = None
       ELSE UNCHANGED <<file, log>>
Killed == process' = "down" /\ UNCHANGED <<opened, view, file, log>>

Dies ==
    /\ process # "down" /\ Killed /\ Trouble
    /\ UNCHANGED <<secrets, checkpoint, image, wanted, updater, past>>

-----------------------------------------------------------------------------
(* The updater *)

Goes(next) == pc' = next /\ UNCHANGED <<inventory, from, to, copy, stopped, result>>
Ends(res) == pc' = "idle" /\ result' = res /\ UNCHANGED <<inventory, from, to, copy, stopped>>

Inventory ==
    /\ pc = "idle" /\ process = "serving"
    /\ inventory' = [version |-> image, schema |-> view.schema]
    /\ UNCHANGED <<disk, container, pc, from, to, copy, stopped, result, counts, past>>

(* BuildPlan, from what the inventory said.                                  *)
Compatible(current, release) ==
    current.schema <= Schema[release] /\ current.schema >= MinReadable[release]
Apply(release) ==
    /\ pc = "idle" /\ inventory # None /\ updates < MaxUpdates
    /\ release # image /\ Compatible(inventory, release)
    /\ updates' = updates + 1
    /\ pc' = "snapshot" /\ from' = image /\ to' = release /\ result' = "none" /\ stopped' = FALSE
    /\ misplanned' = (misplanned \/ inventory # [version |-> image, schema |-> view.schema])
    /\ UNCHANGED <<disk, container, inventory, copy, writes, files, troubles, unstopped>>

(* "sentinel checkpoint" in the container of the old release: the database   *)
(* by VACUUM INTO, then the secrets where there are any, then a rename to    *)
(* the path.                                                                 *)
OlderWillDo == TRUE                         \* a slip: one that is there is kept
MayCreate == checkpoint = None
Snapshot ==
    /\ pc = "snapshot"
    /\ \/ /\ MayCreate /\ process = "serving"
          /\ copy' = [schema |-> view.schema, data |-> view.data, secrets |-> 0, update |-> updates]
          /\ pc' = "secrets" /\ UNCHANGED <<inventory, from, to, stopped, result, troubles>>
       \/ (~MayCreate \/ process # "serving") /\ Ends("failed") /\ UNCHANGED troubles
       \/ troubles < MaxTroubles /\ troubles' = troubles + 1 /\ Ends("failed")
    /\ UNCHANGED <<disk, container, updates, writes, files, past>>

CopySecrets ==
    /\ pc = "secrets"
    /\ copy' = [copy EXCEPT !.secrets = secrets] /\ pc' = "publish"
    /\ UNCHANGED <<disk, container, inventory, from, to, stopped, result, counts, past>>

PublishCheckpoint ==
    /\ pc = "publish"
    /\ \/ checkpoint' = (IF checkpoint = None THEN copy ELSE checkpoint) /\ Goes("stage") /\ UNCHANGED counts
       \/ checkpoint' \in {checkpoint, copy} /\ Ends("failed") /\ Trouble
    /\ UNCHANGED <<file, log, secrets, container, past>>

Stage ==
    /\ pc = "stage"
    /\ \/ Goes("activate") /\ UNCHANGED counts
       \/ Ends("failed") /\ Trouble
    /\ UNCHANGED <<disk, container, past>>

(* "docker compose up": the container is made anew from its release.         *)
Recreated(release) == image' = release /\ wanted' = TRUE /\ (Closes \/ (process # "serving" /\ Killed))
OnlyStopped == wanted' = FALSE /\ UNCHANGED image /\ (Closes \/ (process # "serving" /\ Killed))
Unmoved == UNCHANGED <<image, wanted, process, opened, view, file, log>>

Activate ==
    /\ pc = "activate"
    /\ \/ Recreated(to) /\ Goes("verify") /\ UNCHANGED counts
       \/ (Recreated(to) \/ OnlyStopped \/ Unmoved) /\ Goes("stop") /\ Trouble
    /\ UNCHANGED <<secrets, checkpoint, past>>

(* Readiness, or forty seconds without it.                                   *)
Verify ==
    /\ pc = "verify"
    /\ \/ process = "serving" /\ Ends("verified") /\ UNCHANGED counts
       \/ Goes("stop") /\ Trouble
    /\ UNCHANGED <<disk, container, past>>

Rollback ==
    /\ pc = "stop"
    /\ pc' = "restore" /\ UNCHANGED <<inventory, from, to, copy, result>>
    /\ \/ OnlyStopped /\ stopped' = TRUE /\ UNCHANGED <<counts, unstopped>>
       \/ (OnlyStopped \/ Unmoved) /\ stopped' = FALSE /\ unstopped' = TRUE /\ Trouble
    /\ UNCHANGED <<secrets, checkpoint, misplanned>>

(* "sentinel restore-checkpoint", by renaming; the log is left where it is,  *)
(* and so are the target's secrets if the bundle has no directory of them.   *)
StartAnyway == Goes("up")                   \* a slip: Restore goes on to "up" when it has failed
AfterFailure == Ends("failed")
RestoreFails ==
    /\ pc \in {"restore", "place", "aside", "keys"}
    /\ AfterFailure /\ Trouble
    /\ UNCHANGED <<disk, container, past>>
MoveAside ==
    /\ pc = "restore"
    /\ file' = None /\ Goes("place")
    /\ UNCHANGED <<log, secrets, checkpoint, container, counts, past>>
PlaceDatabase ==
    /\ pc = "place"
    /\ file' = [id |-> files + 1, schema |-> checkpoint.schema, data |-> checkpoint.data]
    /\ files' = files + 1
    /\ Goes("aside")
    /\ UNCHANGED <<log, secrets, checkpoint, container, updates, writes, troubles, past>>
LeaveSecrets ==
    /\ pc = "aside" /\ checkpoint.secrets = 0
    /\ Goes("up")
    /\ UNCHANGED <<disk, container, counts, past>>
MoveSecretsAside ==
    /\ pc = "aside" /\ checkpoint.secrets # 0
    /\ secrets' = 0 /\ Goes("keys")
    /\ UNCHANGED <<file, log, checkpoint, container, counts, past>>
PlaceSecrets ==
    /\ pc = "keys"
    /\ secrets' = checkpoint.secrets /\ Goes("up")
    /\ UNCHANGED <<file, log, checkpoint, container, counts, past>>

StartOld ==
    /\ pc = "up"
    /\ \/ Recreated(from) /\ Ends(IF stopped THEN "rolled_back" ELSE "failed") /\ UNCHANGED counts
       \/ (Recreated(from) \/ Unmoved) /\ Ends("failed") /\ Trouble
    /\ UNCHANGED <<secrets, checkpoint, past>>

(* The updater is cut off, alone or with the machine.                        *)
UpdaterDies ==
    /\ pc # "idle" /\ Ends("died") /\ Trouble
    /\ Killed \/ UNCHANGED <<process, opened, view, file, log>>
    /\ UNCHANGED <<secrets, checkpoint, image, wanted, past>>

(* The operator makes way for the next update.                               *)
RemoveCheckpoint ==
    /\ pc = "idle" /\ checkpoint # None
    /\ checkpoint' = None
    /\ UNCHANGED <<file, log, secrets, container, updater, counts, past>>

Next ==
    \/ Open \/ Migrate \/ Write \/ Dies
    \/ Inventory \/ Snapshot \/ CopySecrets \/ PublishCheckpoint \/ Stage \/ Activate \/ Verify
    \/ Rollback \/ MoveAside \/ PlaceDatabase \/ LeaveSecrets \/ MoveSecretsAside \/ PlaceSecrets
    \/ RestoreFails \/ StartOld \/ UpdaterDies \/ RemoveCheckpoint
    \/ \E r \in Releases : Apply(r)

Spec == Init /\ [][Next]_vars
-----------------------------------------------------------------------------
(* Properties *)

(* When the updater says "rolled back" (manager.go:rollback), the container  *)
(* is one of the old release and no other has the database open; the file at *)
(* the database path is the one of the checkpoint that this very update      *)
(* made, and so are the secrets, if there were any when it was made: where   *)
(* there were none, those of the target stay.  What is read from that path   *)
(* is another matter (CheckpointIsRead).                                     *)
RollsBack == pc = "up" /\ result' = "rolled_back"
RollbackRestores ==
    [][RollsBack =>
        /\ image' = from /\ wanted' /\ process' = "down"
        /\ checkpoint.update = updates
        /\ Content(file') = Content(checkpoint)
        /\ checkpoint.secrets # 0 => secrets' = checkpoint.secrets]_vars

(* No release works on a database whose schema is newer than its own, however *)
(* the update went, if it was planned from what was installed and a target   *)
(* that failed could be stopped (ROLLBACK.md: "Database migrations are       *)
(* forward-only in place"; Migrate itself would not notice).                 *)
SchemaIsUnderstood ==
    process # "down" => view.schema <= Schema[image] \/ misplanned \/ unstopped

(* What the old release then reads is what the checkpoint holds ("Failed     *)
(* update restores the pre-update checkpoint").                              *)
CheckpointIsRead == [][RollsBack => Read(file', log') = Content(checkpoint)]_vars
=============================================================================
