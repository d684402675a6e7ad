--------------------------- MODULE FrigateConfig ---------------------------
(***************************************************************************)
(* internal/integrations/frigate: Sentinel's cameras in Frigate's config.  *)
(*                                                                         *)
(* Apply lists the cameras, renders them into the config Frigate has,      *)
(* writes their credentials, saves, restarts, waits and finally stores     *)
(* which names it owns; after the save a failure restores the config it    *)
(* found.  Render removes only names the stored ownership lists, and       *)
(* leaves the entries of other owners alone; an ownership that cannot be   *)
(* read counts as none (currentState).  The lock                           *)
(* "integration/frigate/config" (NamedLocks) admits one Apply at a time.   *)
(* Meanwhile cameras change, and so does the config, by hand.  A camera    *)
(* and its go2rtc streams are one name here, and a value is the version of *)
(* its settings, 0 being absent.  Frigate is external.                     *)
(***************************************************************************)
EXTENDS Naturals, FiniteSets

CONSTANTS
  Cams, Manual,      \* names of Sentinel's cameras, names of other owners
  Versions,
  MaxEdits, MaxFaults, MaxCrashes     \* bounds of the model

ASSUME VersionsAssumption == Versions \subseteq Nat \ {0} /\ Cams \cap Manual = {}

VARIABLES
  db,                  \* the cameras of Sentinel
  owned,               \* AppliedState.Ownership, stored
  saved, running,      \* Frigate's config file, and the config it started with
  creds,               \* FRIGATE_SENTINEL_* credential files
  pc,                  \* how far the Apply that has the lock is
  want, plan, previous,             \* its locals: the cameras listed, ConfigJSON, previousJSON
  unread,                           \* Render was given an empty ownership because the read of it failed
  outcome,             \* the last result of Apply
  before, raced, unlucky,           \* history
  edits, faults, crashes

locals == <<want, plan, previous, unread>>
bounds == <<edits, faults, crashes>>
vars == <<db, owned, saved, running, creds, pc, want, plan, previous, unread, outcome, before, raced, unlucky,
          edits, faults, crashes>>

Names == Cams \cup Manual
Settings(S) == [S -> Versions \cup {0}]
Nothing(S) == [n \in S |-> 0]
Present(s) == {n \in DOMAIN s : s[n] # 0}
Outcomes == {"none", "applied", "unstored", "failed", "claimed", "rolledback"}

TypeOK ==
  /\ db \in Settings(Cams) /\ creds \in Settings(Cams) /\ want \in Settings(Cams)
  /\ owned \subseteq Cams
  /\ saved \in Settings(Names) /\ running \in Settings(Names)
  /\ plan \in Settings(Names) /\ previous \in Settings(Names) /\ before \in Settings(Names)
  /\ pc \in {"idle", "listed", "planned", "armed", "snapped", "saved", "restarted", "store",
             "undo", "undo-restart", "undo-wait"}
  /\ outcome \in Outcomes
  /\ raced \in BOOLEAN /\ unlucky \in BOOLEAN /\ unread \in BOOLEAN

Init ==
  /\ db = Nothing(Cams) /\ creds = Nothing(Cams) /\ want = Nothing(Cams)
  /\ owned = {}
  /\ saved \in {s \in Settings(Names) : Present(s) \subseteq Manual} /\ running = saved
  /\ plan = Nothing(Names) /\ previous = Nothing(Names) /\ before = saved
  /\ pc = "idle" /\ outcome = "none"
  /\ raced = FALSE /\ unlucky = FALSE /\ unread = FALSE
  /\ edits = 0 /\ faults = 0 /\ crashes = 0

-----------------------------------------------------------------------------

\* config.Render: managed over existing, less the names owned before and no longer managed.
Render(existing, managed, prev) ==
  [n \in Names |-> IF n \in Present(managed) THEN managed[n] ELSE IF n \in prev THEN 0 ELSE existing[n]]

\* Reconcile: no drift among the names the next ownership has.
InSync(desired, actual, names) == \A n \in names : desired[n] = actual[n]

\* The end of an Apply: its locals are gone, but for what a property compares.
Finish(o) ==
  /\ pc' = "idle" /\ outcome' = o
  /\ want' = Nothing(Cams) /\ plan' = Nothing(Names) /\ previous' = Nothing(Names) /\ unread' = FALSE

Fault == faults < MaxFaults /\ faults' = faults + 1 /\ UNCHANGED <<edits, crashes>>

Goto(to) == pc' = to /\ UNCHANGED <<locals, outcome>>

\* Service.Plan: Cameras.List and BuildManaged ...
List ==
  /\ pc = "idle"
  /\ want' = db /\ pc' = "listed" /\ outcome' = "none"
  /\ before' = saved /\ raced' = FALSE
  /\ UNCHANGED <<db, owned, saved, running, creds, plan, previous, unread, unlucky, bounds>>

\* ... Client.Config, currentState, Render and Preflight.
Plan ==
  /\ pc = "listed"
  /\ plan' = Render(saved, want, owned) /\ pc' = "planned"
  /\ UNCHANGED <<db, owned, saved, running, creds, want, previous, unread, outcome, before, raced, unlucky, bounds>>

\* The read of the state fails: currentState answers an empty one, and Render knows of no camera of
\* Sentinel's in the config.  Nobody is told, and the next Store forgets the removed cameras.
PlanUnread ==
  /\ pc = "listed" /\ Fault
  /\ plan' = Render(saved, want, {}) /\ unread' = TRUE /\ pc' = "planned"
  /\ unlucky' = TRUE
  /\ UNCHANGED <<db, owned, saved, running, creds, want, previous, outcome, before, raced>>

\* A step before the save fails, and with it the Apply.
FailEarly ==
  /\ pc \in {"listed", "planned", "armed", "snapped"}
  /\ Fault /\ Finish("failed")
  /\ UNCHANGED <<db, owned, saved, running, creds, before, raced, unlucky>>

\* Applier.Apply: Materialize, which is skipped when there is nothing to write.
Materialize ==
  /\ pc = "planned" /\ Goto("armed")
  /\ creds' = IF Present(want) = {} THEN creds ELSE want
  /\ UNCHANGED <<db, owned, saved, running, before, raced, unlucky, bounds>>

\* Materialize stops half way.
MaterializeSome ==
  /\ pc = "planned" /\ Fault /\ Finish("failed")
  /\ \E S \in SUBSET Present(want) : creds' = [c \in Cams |-> IF c \in S THEN want[c] ELSE creds[c]]
  /\ UNCHANGED <<db, owned, saved, running, before, raced, unlucky>>

Snapshot ==
  /\ pc = "armed"
  /\ previous' = saved /\ pc' = "snapped"
  /\ UNCHANGED <<db, owned, saved, running, creds, want, plan, unread, outcome, before, raced, unlucky, bounds>>

Save ==
  /\ pc = "snapped" /\ Goto("saved")
  /\ saved' = plan
  /\ UNCHANGED <<db, owned, running, creds, before, raced, unlucky, bounds>>

\* The config is saved but the answer is lost: Apply returns as if it had been rejected.
SaveLost ==
  /\ pc = "snapped" /\ Fault /\ Finish("failed")
  /\ saved' = plan /\ unlucky' = TRUE
  /\ UNCHANGED <<db, owned, running, creds, before, raced>>

\* Fault: Frigate is restarted for new cameras only.
RestartForNew ==
  /\ pc = "saved" /\ Goto("restarted")
  /\ running' = IF Present(saved) \subseteq Present(running) THEN running ELSE saved
  /\ UNCHANGED <<db, owned, saved, creds, before, raced, unlucky, bounds>>

Restart ==
  /\ pc = "saved" /\ Goto("restarted")
  /\ running' = saved
  /\ UNCHANGED <<db, owned, saved, creds, before, raced, unlucky, bounds>>

\* Frigate did not restart, or it did and the answer is lost.
RestartFails ==
  /\ pc = "saved" /\ Fault /\ Goto("undo")
  /\ running' \in {running, saved}
  /\ UNCHANGED <<db, owned, saved, creds, before, raced, unlucky>>

\* waitReady: a version, and every expected stream.
Ready ==
  /\ pc = "restarted" /\ Present(want) \subseteq Present(running) /\ Goto("store")
  /\ UNCHANGED <<db, owned, saved, running, creds, before, raced, unlucky, bounds>>

\* waitReady: the deadline, because a stream is missing or Frigate does not answer.
TimesOut ==
  /\ pc = "restarted" /\ Goto("undo")
  /\ IF Present(want) \subseteq Present(running) THEN Fault ELSE UNCHANGED bounds
  /\ UNCHANGED <<db, owned, saved, running, creds, before, raced, unlucky>>

\* State.Put.
Store ==
  /\ pc = "store" /\ Finish("applied")
  /\ owned' = Present(want)
  /\ UNCHANGED <<db, saved, running, creds, before, raced, unlucky, bounds>>

StoreFails ==
  /\ pc = "store" /\ Fault /\ Finish("unstored")
  /\ unlucky' = TRUE
  /\ UNCHANGED <<db, owned, saved, running, creds, before, raced>>

\* rollback: save, restart and wait.
Undo ==
  /\ pc = "undo" /\ Goto("undo-restart")
  /\ saved' = previous
  /\ UNCHANGED <<db, owned, running, creds, before, raced, unlucky, bounds>>

UndoRestart ==
  /\ pc = "undo-restart" /\ Goto("undo-wait")
  /\ running' = saved
  /\ UNCHANGED <<db, owned, saved, creds, before, raced, unlucky, bounds>>

Undone ==
  /\ pc = "undo-wait" /\ Finish("rolledback")
  /\ UNCHANGED <<db, owned, saved, running, creds, before, raced, unlucky, bounds>>

\* A step of the rollback fails; RolledBack is set all the same.
UndoFails ==
  /\ pc \in {"undo", "undo-restart", "undo-wait"} /\ Fault /\ Finish("claimed")
  /\ saved' \in IF pc = "undo" THEN {saved, previous} ELSE {saved}
  /\ running' \in IF pc = "undo-restart" THEN {running, saved} ELSE {running}
  /\ unlucky' = TRUE
  /\ UNCHANGED <<db, owned, creds, before, raced>>

\* The process dies, and Apply with it.
Crash ==
  /\ pc # "idle" /\ crashes < MaxCrashes
  /\ crashes' = crashes + 1 /\ unlucky' = TRUE
  /\ Finish("none")
  /\ UNCHANGED <<db, owned, saved, running, creds, before, raced, edits, faults>>

\* A camera is added, changed or removed.
ChangeCamera(c, v) ==
  /\ v # db[c] /\ edits < MaxEdits
  /\ db' = [db EXCEPT ![c] = v] /\ edits' = edits + 1
  /\ UNCHANGED <<owned, saved, running, creds, pc, locals, outcome, before, raced, unlucky, faults, crashes>>

\* Somebody edits Frigate's config: an entry of another owner, or away with one of Sentinel's.
EditByHand(n, v) ==
  /\ v # saved[n] /\ edits < MaxEdits /\ (n \in Cams => v = 0)
  /\ saved' = [saved EXCEPT ![n] = v]
  /\ edits' = edits + 1 /\ raced' = TRUE
  /\ UNCHANGED <<db, owned, running, creds, pc, locals, outcome, before, unlucky, faults, crashes>>

\* Frigate restarts on its own.
FrigateRestarts ==
  /\ running # saved /\ running' = saved
  /\ UNCHANGED <<db, owned, saved, creds, pc, locals, outcome, before, raced, unlucky, bounds>>

Advance ==
  \/ Plan \/ Materialize \/ Snapshot \/ Save \/ Restart \/ Ready \/ TimesOut \/ Store
  \/ Undo \/ UndoRestart \/ Undone

Next ==
  \/ List \/ Advance \/ PlanUnread
  \/ FailEarly \/ MaterializeSome \/ SaveLost \/ RestartFails \/ StoreFails \/ UndoFails \/ Crash
  \/ \E c \in Cams, v \in Versions \cup {0} : ChangeCamera(c, v)
  \/ \E n \in Names, v \in Versions \cup {0} : EditByHand(n, v)
  \/ FrigateRestarts

Spec == Init /\ [][Next]_vars

-----------------------------------------------------------------------------
\* Entries of other owners are changed by their owners only: with no edit by hand since the Apply
\* began, it leaves them as they were, whichever way it went (Render, rollback).
ManualKept == ~raced => \A m \in Manual : saved[m] = before[m]

\* When Apply has verified Frigate, Frigate runs the config it found with the cameras it listed in it
\* and those it owned and no longer listed out of it, and has the credentials of the cameras listed,
\* although cameras changed meanwhile (Apply under its lock).  Where the stored ownership could not be
\* read the removed cameras are still there (currentState).
AppliedRuns ==
  pc = "store" /\ ~raced =>
    /\ running = Render(before, want, IF unread THEN {} ELSE owned)
    /\ \A c \in Present(want) : creds[c] = want[c]

\* After a rollback that reports no further error Frigate has and runs what it had before.
RestoredRuns == outcome = "rolledback" /\ ~raced => saved = before /\ running = before

\* Every camera Sentinel put into Frigate's config is one it knows to own, and so will remove.
NoOrphans == pc = "idle" => Present(saved) \cap Cams \subseteq owned

\* Orphans need bad luck: between the save and the store of the ownership a crash, a lost answer, a
\* failed rollback or store, or before the save a stored ownership that could not be read. Cameras
\* that come and go during an Apply never leave one.
OrphansNeedBadLuck == ~unlucky => NoOrphans

-----------------------------------------------------------------------------
\* What the repository says and the code does not keep.

\* "desired/actual drift detection": a config in sync is one Apply would not change.
InSyncIsTrue ==
  LET desired == Render(saved, db, owned) IN
    pc = "idle" /\ InSync(desired, saved, Present(db)) => desired = saved
=============================================================================
