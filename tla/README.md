# A TLA+ model of Home Sentinel

Home Sentinel (Go, `internal/` and `cmd/`) turns camera, sensor and Home Assistant events into
incidents, asks the owner what to do, and drives doors, sirens and camera recovery. Its durable
steps run on an embedded workflow engine, ADGO (`github.com/Homiakus/axiom/adgo`), which is not
part of this repository and is modelled from the way `internal/orchestration` uses it.

Everything here is translated from the source. `PROJECT.json` maps each definition to the lines it
stands for, lists the runs, the mutants that show each property can fail, the hazards of the code
and the theorems.

## Inventory

| part | state it keeps | operations | what is hard about it |
|---|---|---|---|
| `security/callback` | signing keys, a map and a queue of consumed tokens | sign, accept, consume | concurrent handlers, a clock read outside the mutex, bounded memory, restart |
| `orchestration/incident` (+ `authz`) | incident executions, decision receipts, audit entries | observe, owner response, owner decision, drive, serve | redelivered, conflicting and racing decisions; a crash between commit and drive |
| `orchestration/action/door` | door executions | start, drive, approve, reconcile | lost answers of a physical write, exclusive doors, crash in the middle of a node |
| `orchestration/action/siren` | siren executions | start, drive, stop | a siren that must not stay on |
| `orchestration/resourceguard`, `topology` | none; the lock on the runtime root | check, acquire | check-then-create over two processes |
| `orchestration/recovery/camera`, `lifecycle/camera` | recovery executions; camera status | start, drive, resolve; enable, disable | remediation ladder, verification, operator loops |
| `events`, `incidents` | outbox, open windows, incidents | ingest, publish, attach, expire | duplicates, late and reordered events, retries |
| `correlation`, `policy/risk` | groups per subject, what was seen | ingest, prune, assess | observations in any order, late, repeated; two packages that rank the same evidence |
| `telegram`, `integrations/telegram` | delivery records | notify, poll, answer | repeated updates, delivery retries |
| `integrations/mqtt`, `homeassistant`, `frigate` | connection, subscriptions, cursors | connect, publish, resynchronise | reconnects, packets lost or repeated |
| `apply`, `update`, `backup`, `database` | staged files, backups, schema version | stage, apply, roll back, restore, migrate | one step of several failing, crash and restart |
| `scenario/*` | catalog revisions | draft, publish, activate, compile, simulate | optimistic revisions, determinism |
| `auth`, `authz`, `repository`, `httpserver` | sessions, users | set up, log in, prove, manage users | a request goes by what it read when it began |
| `realtime` | subscribers | broadcast | slow subscribers |
| `intercom`, `locks` | call sessions, named locks | call, answer, end | two parties, timeouts |
| `health`, `watchdog`, `storage` | check results, levels | probe, evaluate | hysteresis, deadlines |
| `engloop` | work packets | claim, verify, finish | tooling of the repository itself |
| the rest (`config`, `cameras/*`, `media`, `search`, `hardware`, `release`, `cmd/*`) | files | validation, probing, formatting | mostly pure input and output |

`PROJECT.json` lists every directory with its status.

## Modules

| module | models | what it says |
|---|---|---|
| `ReplayGuard` | `security/callback` | the admission of signed tokens |
| `OwnerCallback` | `orchestration/incident` callbacks, `authz` | owner decisions from request to archive |
| `ResourceReservation` | the promise of `resourceguard` | abstract: a resource is held by one execution, for its whole life and once |
| `DoorAction` | `orchestration/action/door`, `resourceguard`, `topology` | door commands; implements `ResourceReservation` |
| `SirenAction` | `orchestration/action/siren` | bounded siren activation; implements `ResourceReservation` |
| `CameraRecovery` | `orchestration/recovery/camera` | the remediation ladder |
| `ExecutionBundles` | `bundle.go` of the four orchestration services | plans that outlive the release that started them |
| `KeyedMutex` | the promise of `locks.Manager` | abstract: one holder for each key |
| `NamedLocks` | `locks` | entries that come and go with their users; implements `KeyedMutex` |
| `FrigateConfig` | `integrations/frigate`, `integrations/frigate/config` | Plan, Apply, rollback, ownership and drift |
| `IncidentAggregation` | `incidents` on `events`, `repository` | events into incidents, and both into their stores |
| `Outbox` | `events/outbox.go` | messages claimed for a lease, times compared as text |
| `AccessControl` | `auth`, `authz/rbac.go`, their middleware and handlers in `httpserver` | accounts, sessions, and requests that go by what they have read |
| `Correlation` | `correlation` | observations of a subject grouped by time |
| `RiskPolicy` | `policy/risk` | the score of a trigger |
| `ScenarioModel` | `scenario/model` | documents, validation, normal form, type checker, digest |
| `ScenarioCompiler` | `scenario/compiler` | the passes over a document and what they report |
| `ScenarioSimulator` | `scenario/simulator` | the evaluator of conditions and the dry run |
| `ScenarioEditor` | the way of a document through `compiler.go` and `simulator.go` | a document is compiled and tried out; the properties that compare the passes |
| `CapabilityRegistry` | `scenario/capability` | what the house offers; removals that look twice |
| `ScenarioCatalog` | `scenario/catalog` over the registry | drafts, versions, rollback, status and the dependency index |
| `TelegramNotifier` | `telegram/notifier.go` and its store | one notification to a frozen list of recipients |
| `TelegramService` | `telegram/service.go`, `actions.go`, pairing | answers that unlock a door, polled with an offset kept in memory |
| `Intercom` | `intercom`, and MQTT as it uses it | button presses, states and unlock commands over a broker |
| `ReleaseUpdate` | `update`, `cmd/sentinel-updater`, `backup/checkpoint.go` | update, checkpoint and rollback of the installation |
| `BackupJobs` | `backup`, its schedule and its part of `App.Close` | operations on one repository, under contexts that end |
| `AppLifecycle` | `app`, `watchdog`, `health`, the MQTT callbacks | Open, Close and the goroutines in between |
| `MC*` | | small instances for TLC |
| `*Proofs` | | theorems checked by TLAPS; each module EXTENDS the MC module of a run and proves of its parts, the constants left open |

`ScenarioCatalog` extends `CapabilityRegistry`, `Correlation` extends `RiskPolicy`; `ScenarioEditor` extends `ScenarioSimulator`, which
extends `ScenarioCompiler`, which extends `ScenarioModel`. `DoorAction` and `SirenAction` instantiate `ResourceReservation`, `NamedLocks`
instantiates `KeyedMutex`.

A definition that a comment calls "a slip", or whose comment starts with "Fault:", is a wrong variant of
the definition below it. It is used only to show that a property notices it.

### How the models correspond to the code

*State that lives on disk and state that does not.* A `Crash` or `Restart` action clears exactly
what the process keeps in memory (the guard's map and queue, callers, mutexes, the progress of a
running node, the engine of incidents) and leaves executions, receipts, audit entries and stored
resources. Executions of the workflow engine are one variable (`st`, `human`, `ack`), the node the
execution is at; a commit of the engine is one atomic step, because ADGO writes an execution with
compare-and-swap.

**ReplayGuard.** `Verify` is everything `Acceptor.Accept` does before it reads the time
(signature, binding); `ReadClock` is that read, outside the mutex; `RejectExpired`, `RejectReplay`
and `Admit` are the three ends of `ReplayGuard.Consume`, each with its `prune`; `Return` ends the
call. `seen` and `ordered` are the map and the queue. `admitted` and `high` are history: what was
admitted, and the latest time the guard was given so far.

**OwnerCallback.** A delivery goes through `AcceptToken`, `LoadUser`, `Deny` or `AuditAllowed` /
`AuditFails`, then `Signal` (owner response) or `Preflight`, `ResolveHuman`, `ResolveStale`,
`FinishStale` and `Drive` (decision). The role is read at one step and used at a later one. `receipt` is
the one receipt the execution stores; `Serve` is the service's own loop, which drives what a
crashed request left behind.

**DoorAction.** `Enter`, `CheckPasses`/`CheckFails` and `StartOrLoad` are `Start` under `startMu`:
the scan of the store and the creation of the execution are separate steps. `AcquireWriter` is the
lock on the runtime root. `ReadBefore`, `WriteAnswered`/`WriteLost`, `VerifySeen`/`VerifyFails`
and `Commit` are the apply node; `attempt` is how far its current run got and is what a crash
loses. `Approve`, `Deny`, `Confirm`, `Retry` and `Abort` are the operator's. The service has no loop: `Start` only
creates the execution, and nodes run inside a call of the host, `Drive` or a resolution. `driven` has the executions
that some call is running; `BreaksOff` ends a call before its execution is settled.

**SirenAction.** The same admission with one process, then enable, safety wait, disable, record. The two
effect nodes and the compensation share their handlers as in the code. `Stop` cancels; the
compensation runs if the enable node had an effect. `Eager` says whether the external engine also
compensates failed executions; the run uses the engine that does, the theorems hold for both.

**CameraRecovery.** Probes store facts, decision nodes read them later, and the camera flaps in
between. `NodeAfter` is the edge table of the plan; a decision without an edge leaves the execution
where it is. `Start` is one step; the module says why.

**ExecutionBundles.** A behaviour is of one service. `Deploy` ends the process and installs another release
or configuration; `Open` builds the catalog and refuses if an unfinished execution has a plan that is not
in it; `Start`, `Drive` and `Answered` run an execution in the bundle of its plan. The siren service retains
nothing: it compiles the plan again from the version that the execution bears, which is why its only
parameter, the longest sounding, is part of the plan. The second and third releases are what the next
releases of this code would be, built the way its upgrade tests build them.

**NamedLocks.** `Lock` is the part under the manager's mutex, `Enter` the entry's mutex, `Unlock` and
`Drop` the two steps of the release.

**FrigateConfig.** One action for each effect of `Service.Apply` and `Applier.Apply`, in order: `List`,
`Plan`, `Materialize`, `Snapshot`, `Save`, `Restart`, `Ready`, `Store`, and on failure `Undo`, `UndoRestart`,
`Undone`. Each has its failing variant; `SaveLost` is a save whose answer is lost. `PlanUnread` is a plan made after the
read of the stored ownership failed, which `currentState` takes for an empty one and reports to nobody.

**IncidentAggregation.** `Publish` puts an event into the subscription or drops it;
`StoreEvent`/`StoreEventFails` and `Process` are `Ingest` with `Engine.Process`; `Put` and
`PutFails` store an incident; `CloseStale` is the ticker. `Near`, `SameScene` and `Chosen` are the
matching rules, `Attach` the record they change. `lost` and `stale` are history: what a failed
store or a restart lost.

**Outbox.** `Text` is what the code compares: the place of a time among RFC 3339 texts whose zeros are
trimmed. `Claimable` and `Before` are the WHERE and the ORDER BY of `Claim`. Ack and Fail name the message and
not the claim; `robbed` remembers which worker lost its claim on which message to one that did not have it. It must name the
worker: were it only the message, one late Fail would excuse what a second worker does next.

**AccessControl.** A request is a process with a program counter: `Resolve` (authRequired) reads session and account,
`Admit` (csrfRequired, requireCapability, freshAuthentication) the session's token once more, and the handler goes by the role
and the proof of the password that `Resolve` read. Each statement is a step; the transaction of `UserStore.UpdateAccess` is two,
`Decide` and `UpdateAccess`. It begins as a deferred one (`BEGIN`, write-ahead log): its reads are a snapshot, and its write
fails when anything was written since, of any table and by whomever. `stale` has the requests to which that has happened.
`entitled` is history: the requests that began when their account was an enabled administrator's.

**Correlation, RiskPolicy.** Ingest is one step, under the mutex: `Duplicate`, `Late` or `Take`, which opens a group or
adds to one, sorts, cuts to the newest and remembers. `Features` is `buildCandidate` with `FeaturesFromTrigger`, and
`Score` is `Assess` in whole numbers. `taken` and `spoilt` are history: what the groups of a subject took since it had none, and
the subjects of which an observation came late or was forgotten and taken again. `ShuffledAgree` does not speak of those,
nor of a pause longer than `Window - MaxLateness` and not than `Window`: there TLC shows that which
observation comes first decides whether there is one group or two. `RiskOnlyRises` excepts an alarm mode that changes to one at
home, and a group that is full and loses its oldest event.

**ScenarioModel, ScenarioCompiler, ScenarioSimulator.** Pure operators on documents. Numbers are exact fractions, so what
float64 rounds off is left out, but not its bounds: `ValueOf` infers the type of a result from the text it is written as, and a
whole result beyond int64 that is short of an exponent, or an infinite one, has none (`Representable`; `MaxInt`,
`Exponential` and `MaxFloat` stand for 2^63 - 1, 10^21 and the greatest float64). A digest is the value it is computed from; identifiers are model strings, with `Padded` for
`TrimSpace`. The compiler is one operator for each pass and `Compile` their row, with the severities, since an
error ends the row and a warning does not. The properties compare two passes that the code wrote
separately: what the ADGO plan says against what the dry run does (`DryRunFollowsPlan`), what the type
checker admits against what the evaluator can evaluate (`CheckedConditionsEvaluate`), the digest against
the plan of one revision (`EqualDigestEqualPlan`), the choice of the runtime against what the plan needs
(`AxiomNeedsNoState`).

Terms nest in terms and flows in flows, and the code recurs on them. The model recurs on the level at which a part stands: `TermsAt`
and `FlowsAt` give the parts of each level, and types, values, normal forms, walks and paths are functions of the level
made from those of the level below. `MaxNesting` bounds the levels; `IsDocument` says of every document that nothing
stands below the last, and beyond that only what the Go types say. The operators are recursive functions, not RECURSIVE
operators, so that they can be proved about. `and` and `or` take their arguments in the order of their serialised form; of that
order the model keeps that it depends on nothing but which arguments there are (`SortArgs`). A dry run passes over the steps
of its `Path`, in which every `if` has taken its branch, as long as nothing halts it (`RunAlong`).

Three things came out of stating the properties for every document:

- a step may be called `entry`, and then it has the id of the node that the compiler puts in front of every plan for its triggers.
  `StandsFor` excepts that node; without the exception TLC finds a plan in which the first node with the id
  of the step is not the step;
- the ids the compiler makes (`system_safety_lock_` and the step's id, and so on) are pairs in the model: that an author gives a
  step the name of another's lock is not considered;
- a condition that is a reference of nothing but blanks is no condition to the compiler, which sees the normal form, and an
  unknown reference to the dry run, which evaluates the document as it was written. `Uncovered` names that case beside
  the operators the evaluator does not know, orders over texts, divisions by zero, results that are no value and values the
  context does not give.

Two of these properties say less than one might expect, because the code does:

- `DryRunFollowsPlan` is about documents classified for ADGO. `LowerToAxiom` keeps the first step of a flow and the classification
  allows two, so for Axiom the sentence is false: the dry run of two lights reports two effects and the plan has one.
- `EqualDigestEqualPlan` is about one revision where the plan is one of ADGO. `LowerToADGO` names the workflow after the
  revision, `ComputePlanDigest` hashes that name and `SemanticDigest` leaves it out: two revisions that differ in
  their layout have one semantic digest and two plan digests.

**CapabilityRegistry, ScenarioCatalog.** A removal is two steps, `BeginRemove` (look under the read lock, ask
the resolver) and `EndRemove` (look again under the write lock). The one resolver in the program is
`NoDependencies`, which knows of no use; a registry without one removes nothing. So a removal never asks the catalog,
and the catalog's index is read by `CanDeleteCapability` and `CanDeleteEntity` alone. Publication and
rollback share `Activate`, which writes the index. `unindexed` is history: the scenarios archived since their last activation.

**TelegramNotifier.** One action for each statement on the database or call of Telegram: `Load`,
`SelectRecipients`, `Freeze`, `LoadFrozen`, `ClaimPrepared`, `LoadDelivery`, `SendMessage`, `MarkApplied`,
`MarkAmbiguous`, `ReleasePrepared`, `LoadFinal`. A call keeps the rows as it loaded them (`frozen`) while others
change them. A write that fails may have been made.

**TelegramService.** `GetUpdates` and `Take` are the loop with its offset. `PairingConsume`, `Consume`,
`CreateUnlockConfirmation`, `Check` and `Unlock` are the statements of one update, between which roles change and the
process may die; `NotifyEvent` and `Tell` are the doorbell told to one binding after another. `unlocks` remembers
for each unlock who was entitled when it was made, and whether that changed since the row was consumed.

**Intercom.** The device, the broker and the service. The broker keeps `queue` for the session of the client; the
handler works on one message, and its acknowledgement follows, so what was handled and not acknowledged
comes again. `IngestButton` and `PublishButton` are the two steps between which a crash loses a press. A device may number its
presses or not (`numbered`), and date them or not (`timed`): one without a date is given the time at which it is handled (`At`),
again each time it is handled. `taken` is history: which press was handled with which time.
`CreateCommand`, `PublishCommand`, `MarkPublishFailed`, `UpdateAck` and `UpdateResult` move the row of a command.

**ReleaseUpdate.** The database is a file with a write-ahead log beside it: `Read` says what a process sees of
both, `Commit` writes into the log, a process that closes folds it. The updater's steps are commands whose
effect and answer fail apart. A bundle made where there were no secrets has no directory of them, and a restore of it
leaves those of the target (`LeaveSecrets`). `misplanned` and `unstopped` are history: a plan made from an inventory that was no
longer true, a container that ran on when the checkpoint was put back.

**BackupJobs.** An operation is a row of calls (`Calls`); each is begun (`Call`) and ends well, badly or half done. Every
actor has a context that may end. `closing` is how far `App.Close` is: it cancels, waits for the loop of the
schedule, wipes the password, closes the database.

**AppLifecycle.** `stage` is how far Open, then Close, has come. The wizard and Open share `CreateClients`, `SetService`,
`AskReady`; the MQTT client's callback is `StoreReady`, `SetHealth`, `SpawnDiscovery`; the order of the first two
of each against one another is what `AnnouncedOrOnTheWay` is about. `stage = "panicked"` is the dereference
of `App.HomeAssistant` after Close has cleared it.

## Runs

Components that share no state are checked in one run where that saves a run: such an MC module EXTENDS one
of them and takes the others with INSTANCE, and a variable `part` names the one whose actions a behaviour
takes. The others stay in one initial state, so the states of the run are the sum of
those of its parts and not their product. Fairness is given to every part; it asks nothing of a part that does not
run, because nothing is enabled in it or because its conjunct names the part.

`CHECK_DEADLOCK FALSE` is set where the bounds make a system stop: all requests made, all edits used, time
at its end.

| run | question | bounds and why they suffice |
|---|---|---|
| `records` | does what was published, checkpointed or claimed stand until the code has a reason to let it go; is the index of uses that of the plans; are accounts changed only by who may; do groups depend on what was observed alone | catalog: 1 scenario, 2 documents, 2 revisions, 2 edits, 2 versions, 2 lamps, a bell and a room, 1 removal under way: a rollback, an archive, an entity registered between the two looks of a removal. Update: 3 releases, each with a migration, begun with secrets and without, 2 updates, so that a checkpoint of the first is there in the second, 3 troubles, 3 writes. Outbox: 2 messages, 2 workers, seconds of 2 ticks, a lease of 2, time up to 4: a lease ends and the other worker claims. Access: 2 accounts, 2 requests at a time, 2 of the 3 roles (none but `admin` grants anything here), 1 login, 2 tokens, times 1 and 2 with a session and a proof that do not outlive the first: administrators who demote one another, a session revoked or expired, an account disabled under a request. Correlation: 5 observations of one subject, two of them simultaneous, with pauses on both sides of a window of 3, and 1 of another, in every order and any number of times; groups of 3 and a memory of 4, so both overflow |
| `ingress` | is a callback admitted once, does a press ring once, does a door open once for each confirmation | callbacks: 2 handlers, 3 tokens of which two share a nonce with different expiries, 2 routes, capacity 2 (so that eviction happens), 1 restart. Intercom: 2 inputs, 2 troubles, 1 request, a clock up to 2: a press and its repetition, handled later or together with another, with and without number and date, or a command with a lost answer. Telegram: 2 users, 2 accounts, 3 updates (button, confirmation and one again), 1 change of roles, 1 trouble |
| `owner_callback` | are decisions audited, converging, final and archived | 2 deliveries at a time and 3 requests, so two race and a third is a redelivery; 6 messages over 2 events: conflicting decisions, retry, an unsupported one, a user without the right; 1 role change, 1 crash |
| `door_action` | is a door reserved, approved, and does its command, if calls keep running it, end or wait for a person | 2 processes and 3 handlers (two in one process, so both `startMu` and the writer guard are needed), a lock and an unlock request for one door, 2 crashes, 2 faults (a provider's, or a call broken off), 1 operator retry, 1 turn by hand |
| `executions` | does an activation end in silence; is what is recorded of a camera true, its repair bounded; do both settle; does an execution keep its plan and end | siren: 2 callers, 2 requests for one siren, 2 crashes, 2 faults, 1 switch by hand. Camera: 2 requests for one camera, 3 flaps (network and stream change between probe and decision twice), 1 crash, 2 faults. Bundles: 4 services, 2 executions, 3 releases of which one does not retain version 1, 2 deployments |
| `integrations` | is what was verified what runs; are announcements made, does health settle, does Close end | Frigate: 2 cameras and one foreign entry with 2 versions each, 2 edits during Apply, 2 faults (a read of the ownership among them), 1 crash. Application: 2 connections and 3 events, so a service is replaced while a connection comes |
| `incident_aggregation` | do incidents follow the rules, do the stores follow the engine | 3 events of 3 kinds in every order and lateness, window 1 of 4 times, subscription of 2, one restart or failed store |
| `services` | do two passes over a document agree; does nobody starve for a lock | compile: a document for every kind of step, nesting, condition and trigger, and for every pair of steps, two revisions with and without layout, against 3 registries and under 7 contexts, `MaxNesting` 2 (a step in a branch of a step, a term in a term in a term), `MaxInt` 50, `Exponential` 90 and `MaxFloat` 200, with a sum or product beyond each. Locks: 3 processes, 2 keys, a heap of 3 entries, so an entry is collected and allocated again |
| `delivery` | is nothing sent twice blindly, is success true, do calls and Close end | notifier: 2 calls at a time and 3 in all, 2 messages, 2 recipients, 1 change of who is eligible, 1 crash, 2 claim attempts. Backup: the schedule and 1 client, 2 operations, 1 write in between |

In `ingress` the two handlers are symmetric; its properties are all invariants.

Three further runs take a sentence of the repository at its word and show a disagreement:

| run | sentence | what the code does |
|---|---|---|
| `owner_callback_retry` | `callback_receipt.go:43`: exactly-once for the same event | one receipt is kept: an event that asked for a retry is applied again after another retry |
| `siren_unbounded` | `docs/THREAT_MODEL.md:33`: siren enable has a bounded deadline | a lost answer to the enable parks the node before the safety wait starts, and nothing resolves it |
| `scenario_gates` | `compiler/safety.go:26`: the pass inspects all physical and high-risk actions and ensures mandatory gates | an unlock inside a parallel branch or a case of a switch compiles without errors and has no approval node in the plan |

Five more sentences are stated as properties beside the ones that hold. TLC refutes each of them when it is added
to the configuration named (in `MCRecords` and `MCIngress` through the instance):

| property | sentence | add to | what TLC answers |
|---|---|---|---|
| `ReplayGuard.RejectsRepeatedTokens` | `replay.go:16`: the guard rejects repeated callback tokens | `MCIngress.cfg` | the time is read before the mutex: a token pruned with a later time is admitted again with an earlier one |
| `FrigateConfig.InSyncIsTrue` | `docs/PROGRESS.md:20`: desired/actual drift detection | `MCIntegrations.cfg` | only names of the next ownership are compared: a removed camera that is still in Frigate is "in sync" |
| `ScenarioCatalog.ImmutableOncePublished` | `docs/SCENARIO_SYSTEM_PLAN.md:622`: publish creates immutable revision | `MCRecords.cfg` | a published revision is validated again, is a draft to UpdateDraft and gets another document |
| `TelegramService.DoorbellOffersUnlock` | `docs/ACCEPTANCE.md:46` | `MCIngress` (`T!...`) with `PrepareTTL = 2` | NotifyEvent asks for an action of ten minutes, `ActionStore.Create` refuses more than five, and the button is left out |
| `ReleaseUpdate.CheckpointIsRead` | `docs/ACCEPTANCE.md:66` | `MCRecords` (`U!...`) | the write-ahead log of a killed release stays beside the database that is put back |

The run `ingress` lets the doorbell ask for what is granted (`PrepareTTL = MaxActionTTL`), because with the values of the
code no unlock is offered on that way and everything after it would hold of nothing.

### Fairness and why the code justifies it

- `OwnerCallback`, `SirenAction`, `CameraRecovery`: `Serve` polls the store and drives
  whatever is runnable for as long as the process lives, so the worker's steps on an execution are
  weakly fair. Persons are not: nobody need approve or retry, which is why the properties end in
  a wait for a person. Requests, crashes, faults and hands are never fair.
- `DoorAction`: the service has no `Serve`. Only the steps of a call that is under way are fair (`driven`), and
  `StartedSettles` excepts an execution that from some time on nobody runs. That `Drive` is called again after a crash,
  that the runtime root is acquired again and that a person answers is the host's.
- `NamedLocks`: Go's mutexes are starvation-free (strong fairness of `Enter`), and
  who holds a lock releases it, which every caller does with `defer`.
- `IncidentAggregation`: time passes, the service's loop runs, and the ticker is read when it fires
  again and again; one tick is no promise, since `select` may take another case.
- `ExecutionBundles`: a service that can open opens, and its loop, or for doors its host, drives what is runnable; the person at a
  node is fair there, since the property is about the plan and not about patience. Deployments are bounded
  and never owed.
- `TelegramNotifier`: a call goes on, every call it makes has a timeout. Failing reads are never owed.
- `BackupJobs`: an operation goes on and gets the manager's mutex in the end (strong fairness: the mutex is
  given to others in between), the loop that finds its context ended leaves, Close goes on.
- `AppLifecycle`: callbacks, checks and Close go on. That a connection comes, or that somebody closes, is never owed.

## Theorems

They hold for every value of the constants that the modules' named assumptions admit, among them any
bounds: the counters of crashes, faults and edits are then just numbers. Assumptions say what the
configuration of the program guarantees: a capacity and window of at least one, requests that name a
known resource, `None` that is no process, names of cameras and of other owners that are disjoint, a
heap with an entry for each process.

A proof module follows the run of its components: it EXTENDS `MCIngress`, `MCRecords`, `MCExecutions`,
`MCIntegrations` or `MCDelivery` and proves about the component that module extends, by its own name, and about
its instances, through their letter (`C!Spec => []RecordIsTrue`). No assignment of a `.cfg` is used: in a
proof the constants are arbitrary. Where a theorem needs to know something of them, it is an assumption
of that theorem with a name (`BundlesAreKnown`, `AccountsAreKnown`, `StationIsKnown`, ...), so that
the theorem says itself what it rests on.

Of each: the property, why it is not inductive, and the invariant that is.

`OwnerCallbackProofs`, `DoorActionProofs`, `IncidentAggregationProofs`:

- **OwnerCallback.** `ReceiptInv` says which receipt and which last decision a state
  of the human node has; `CommandInv` follows a request's message from its audit entry to its
  reply. From them: `DecisionsAreAudited`, `AnswersAreTrue`, `FinalDecisionIsLast`,
  `ArchiveIsOfReceipt`.
- **DoorAction** (and **SirenAction**, in `ExecutionsProofs`). `StartInv` says that between a passed check and the creation no
  other execution of the resource can be created: the handler has `startMu` of the process that has
  the runtime root. It is what makes `ReservationExclusive` inductive, and with it every
  step maps to a step or a stutter of `ResourceReservation` (`DoorsImplementReservation`,
  `SirensImplementReservation`). `EffectInv` counts what the current attempt of a node has done:
  from it `NoWriteIsBlind`, `UnlockNeedsApproval`, `CompletionIsEvidence`,
  `ActivationsEndInSilence`, `SirenIsEnabledOnce`.
- **IncidentAggregation.** The properties relate the stores to the engine at
  rest; `Inv` says how they are related in between. `InOrder` (the queue holds the events published
  last, and nothing filed is newer than the event being processed) makes the name of a new incident a new
  one; `Timed` makes `LastEventAt` the time of the latest event, which is what turns the comparison in
  `Near` into `NoLongSilence`; `Accounted` follows every received event and becomes
  `NothingVanishes`. `Closed` adds that an incident stored as closed is closed in the engine too and not
  waiting to be stored, which is inductive only as a whole and gives `ClosedIsFinal`.
  `PeopleTheorem` needs `Inv` for what an event joins an incident by (`ChosenJoins`), and for the new incident's being empty.

`ExecutionsProofs`:

- **Scenario documents** (`EqualDigestEqualPlanHolds`, `AxiomNeedsNoStateHolds`, `CheckedConditionsEvaluateHolds`,
  `DryRunFollowsPlanHolds`), for any documents, registries and contexts. `EditorInv` is the whole induction over steps: what is compiled is `Compile` of the
  document, what was tried out is `Simulate` under one of the contexts. The rest is about the operators. Induction on the shape of a
  document is not available, but on numbers it is, as `NatLessThanWellFounded` and sets of levels: what holds
  at the deepest level, and at each level if at the one below, holds at all (`LevelDescent`; `LevelInduction` is the same
  downwards from the document).
  - *Digest.* All passes read a normal form only through the fields the digest has (`PassesAgree`); the name of an ADGO workflow
    is the one thing that is also made from the revision (`OneDigestOnePlan`).
  - *Axiom.* The classification enters `if` steps only. But a step it does not enter is itself durable: where none is found the
    steps it sees are all there are (`NarrowScopeIsWhole`), and normalising a step changes neither its kind nor what its
    capability is called (`NormalStepKeeps`, `WordsStay`).
  - *Conditions.* A term has the type of its normal form, at every level (`NormalKeepsTypes`); so what was checked is
    true of what is evaluated. `Promised`: a value is of the sort of its type. Where none of the causes of `Uncovered` is met every
    operator keeps that promise (`ApplicationKeeps`, `TermKeeps`), and a promised truth value is no error.
  - *Dry run.* The effects are those of actions on the path, in order (`EffectsFollowPath`); the path is embedded in order in the walk of
    the safety pass through the normal form (`Keeps`, level by level); that walk is embedded in the walk over all steps, whose names differ
    in a valid document, so its names differ too (`DistinctIsInjective`, `WalkedIdsDiffer`). In the graph each
    step has its nodes at a place of its own after those of the steps before (`FlattenPlaces`, `GraphPlaces`),
    an unlock five of them (`UnlockNodes`); so each effect has one place in the plan, in order, and an unlock stands there among its gates
    (`EffectsInPlace`).

  Assumed is what `IsDocument` says (`DocumentsAssumption`), that trimming twice is trimming once (`TrimAssumption`), that a word in an
  identifier is there with and without blanks around it (`WordsAssumption`), and that levels are counted (`NestingAssumption`).
- **CameraRecovery** (`RecordsAreTrue`, `RepairsAreBounded`). The record is made at nodes that read facts stored by
  others, while the camera changes. `Ladder` says of each node what has been found out (`Found`), done (`Done`) and spent
  (`Spent`) by whoever is there, and `Recorded` what an end says of it. It is proved for any number of cameras and requests: what a step of
  one execution leaves of another is `Same`.
- **ExecutionBundles** (`ExecutionsFollowTheirPlans`). `Faithful`: the nodes an execution ran and the one it is at are a path in the graph of the plan it
  was started with, and where it completed there is no edge on. `BundlesAreKnown` says that the services are the four, that each
  release has an active version, and that limits are numbers.

`IngressProofs`:

- **ReplayGuard.** `GuardConsistent` is inductive with the types: dropping a
  prefix of the queue keeps map and queue in agreement, and so does recording a token that expires
  later than what the map has. `ReplayTheorem` needs a history invariant: an admission of the
  running process is still tracked by the map, or a later time than its expiry was given to the
  guard, or `Capacity` admissions came after it.
- **TelegramService** (`UnlocksAreConfirmed`). A row that asks for an unlock was made by an answer of the same account and
  is consumed once (`Follows`), the row that the loop is handling is consumed, of who answers, and has unlocked nothing yet
  (`Handled`), and every unlock has a consumed row of its own (`Unlocked`). `AccountsAreKnown` types the first bindings of
  accounts and the lifetimes.
- **Intercom** (`PressesRing`, `OpeningsAreExplained`). Whether a press is announced depends on what is still in the broker's queue.
  `InOrder`: presses are queued in the order they were made, so of a press that the handler has not seen everything it
  counted is of earlier ones (`Fresh`), and a repetition is of one that was counted. `PressInv`: each press is announced, or
  waits, or one of the causes the property names has happened (`Explained`, `Excused`). `Taking`: a press
  with a date is handled under its date each time, one without under the time of its handling, which grows. `CommandInv`: of each opened door the
  completing answer is on its way and no refusal is before it (`Due`), or the row already tells (`Said`), or a cause
  excuses it.

`IntegrationsProofs`:

- **NamedLocks.** An entry's reference count is the number of its users; then the
  map holds the entries in use and locks implement `KeyedMutex`. That two keys never share an entry (`Injective`) is part of it:
  without that the last user of one key could drop the entry of another.
- **FrigateConfig.** The properties speak of single moments of `Apply`. `Track`
  bounds Sentinel's cameras in the config by the ownership that covers them, `Kept` ties the config and
  the locals to the config `Apply` began with; both are needed because `Apply` keeps in locals
  what others change meanwhile.
- **AppLifecycle** (`AnnouncedHolds`). `AnnounceInv`: on a connection the callback is done with, with a service that its creator has already asked
  about, an announcement was tried or a worker is on its way to it. Each of the two sets its own flag before it reads the other's,
  so the second of them sees both.

`RecordsProofs`:

- **ScenarioCatalog.** `EntitiesAlwaysStand` is inductive as it stands: the second look of
  a removal is under the lock under which entities are registered. `UseIsAlwaysKnown` adds that the index is that of the
  published plan which is active. A revision that is validated again or edited is no longer published, one that is
  published is activated in the same step, and a rollback activates a version whose plan may be long compiled; a draft that is
  created leaves the revisions before it as they are.
- **ReleaseUpdate** (`SchemasAreUnderstood`, `RollbacksRestore`). The properties speak of a process at work and of a rollback that is done. `Known` says of
  every process that could be started next that it would read a schema it knows, unless the history says that the plan was false
  or a container ran on; `OwnCheckpoint` that the checkpoint from its publication on is that of this
  update; `PutBack` what each step of the rollback has brought back so far, the secrets only of a checkpoint that has some. `Manifests`: each release has a schema.
- **Outbox** (`TimesAreRespected`). `OutboxInv` says of a worker that has claimed a message, and was not robbed of it, that the row still bears its
  claim or that its lease is over but for less than the second by which texts may be compared wrongly. What that comparison is worth
  is arithmetic on `Text`, in lemmas. `TimesAreNatural` says that a second has at least one tick.
- **AccessControl** (`AccessStaysGoverned`). An administrator remains because a transaction that was overtaken fails: of a request that has decided and is not
  `stale`, what it decided on is still so (`Sound`), and it began as an administrator's (`Licensed`).
- **Correlation, RiskPolicy** (`GroupsAgree`, `RiskRises`). A group is described from what its subject was observed to do, not by the order of arrival:
  `Gathered` says that there is a set of the observations taken whose latest time is the group's (`Reaches`), from which all others are
  further than the window (`Apart`), each of which follows another within the window (`Chained`), and the newest of which are
  the events (`Shows`). `Apart` uses the lateness, which is how an early observation cannot join from behind. That there is no pause
  between the lateness of the window and the window (`Clear`) is not needed for `Gathered`, only to conclude that
  the set is the cluster. For the risk, each feature of more events is at least that of fewer (`FeaturesGrow`), and the score is monotone in
  them (`ScoreGrows`). `Identity` and `Alarm` are folds; what is needed of the first, that its rank is the highest of the events, is shown by the
  place where it would first fail. `ObservationsAreKnown` says that observations have an id and a time, one of an id, and that the
  lateness is at most the window, which `NewCorrelator` demands; `EvidenceIsKnown` that what is counted of them is a
  natural number and finite.

`DeliveryProofs`:

- **TelegramNotifier** (`NoBlindResendHolds`, `SuccessIsTrueHolds`). At most one message for each recipient rests on who may send. `RowTells`: the row of a recipient says what
  Telegram has taken of it. `OneOwner`: of the calls that work on a row at most one has claimed it. `Fenced`: a call
  knows where its message is, though a write that failed may have been made. `Knows`: a call that works from the rows it loaded has
  their recipients.
- **BackupJobs** (`SucceededAreRestorable`). `BackingUp`: from its first call to its last the operation's snapshot is of its own job and is whole once the
  last has returned. Nobody else is at work meanwhile, since the repository has one lock (`JobInv`). `Nobody` must be no client.

Some properties are proved and not repeated in a run, or only as parts of `UseIsKnown` (`EntitiesStand`, `IndexAgrees`): `GuardConsistent`, `ConsumedOnItsRouteOnly`, `AppliedWasAudited`,
`ArchiveMatchesReceipt`, `NoBlindRetry`, `CompletedWasSeen`, `EnabledOnce`, `ReservesSirens`, `EntriesFollowUsers`,
`ImplementsMutex`, `ManualKept`, `RestoredRuns`, `OrphansNeedBadLuck`, `NoLongSilence`, `EventsAreStored`,
`StoreFollowsEngine`, `ClosedIsFinal`, and the type invariants. TLC checks them when they are added to a configuration
of their module.

Every invariant and every safety property of the runs is stated by a theorem. Only model-checked are the liveness properties
(`CommittedDecisionIsArchived`, `StartedSettles`, `ExecutionsSettle`, `HealthSettles`, `CloseEnds`, `OpenIsClosed`,
`WaitersEnter`, `StartedEnds`, `CallsEnd`, `BackupCloseEnds`): they need fairness and ENABLED, which TLAPS does not reason
about. The sentences that the code does not keep have no theorem, of course.

## What the models leave out

- ADGO is external. A node's failure classes, retries and human decisions are modelled as the services use
  them; the expiry of a lease while its worker still runs, the limit of lease recoveries and a
  cancellation in the middle of a running attempt are not. Of the owner's decisions `edit`,
  `confirm` and `acknowledge` are not: the incident plan has no branch of its own for them.
- A provider remembers idempotency keys for ever. This is why nothing is claimed of a sounding siren where
  somebody switches sirens by hand: the repeated compensation is answered and not carried out.
- The door, siren and camera services are libraries the application does not open yet; the models
  cover them as a host would use them, several processes included (`topology.AcquireWriter`).
- Frigate's API offers no compare-and-swap: an edit by hand between the read and the save of `Apply` is
  overwritten. The properties exclude it with `raced`.
- The protocol of MQTT, of Telegram, of restic and of Docker is external: what each is asked, what may come of it, and
  what is heard of that.
- Pure input and output, rendering, device probing and build tooling have no protocol of their own:
  see the components with status `not_modelled`.

### Observed while modelling and not checked by a run

- *Frigate.* `ApplyResult` is marked as rolled back before the rollback is tried (`apply.go`); a save whose answer is
  lost returns without a rollback; a stored ownership that cannot be read counts as none, so cameras removed meanwhile stay in
  Frigate, and the next `Put` forgets that they were Sentinel's; credential files are not restored by a rollback, and not removed when no
  camera has credentials any more.
- *Incidents.* Those that are stored open when the process ends are closed by nobody, and a failed store of a closed
  incident is not repeated: `OpenIsClosed` says so (`stale`). Frigate's review events carry the time
  at which the review began, so a review that lasts longer than the window spreads over several incidents;
  updates of tracked objects name no camera and always open an incident of their own.
- *Backup.* `docs/operations/DISASTER_RECOVERY.md:35` asks for separate health signals, and one health, "backup", is
  overwritten by each. Every bundle is staged in a directory of its own, and restic forgets by host and path: retention
  never forgets (`docs/PROGRESS.md:68`). `RestoreVerified` is never set. The job of a process that died stays
  "running". `WipePassword` runs beside a client's `init` and may hand restic a password of zeros. The snapshot of the
  database and the exported state are read one after the other.
- *Application.* The goroutine of `publishHADiscovery` is not waited for by Close and reads `App.HomeAssistant` again
  after Close has cleared it. A Home Assistant that was not there at Open has no check of the watchdog when
  the wizard adds it. Close closes the incidents before MQTT; events acknowledged in between are lost.
- *Update.* After a restore that failed the system stays stopped. A bundle without secrets restores none and removes none: the
  target's stay (`checkpoint.go:70`). A plan is made from an inventory that the start of the update
  does not look at again. `Migrate` does not notice a schema newer than its own. The path of the
  checkpoint is fixed: after an update that failed at the pull the next is refused until somebody removes it.
- *Intercom.* A crash between `States.Put` and `Publish` loses a press (`docs/ACCEPTANCE.md:34`). Presses without a number
  ring twice when they are delivered again after another; without a date as well they do when they are handled again more than 750 ms
  later, and two that were kept while there was no connection are handled together and ring once. A subscription that failed leaves the client ready and deaf. A
  device that restarts counts from one, and is not heard until it has caught up. `PairingStore.Revoke` has no caller.
- *Bundles.* The incident service's `Start` asks for the bundle of an execution that has ended, too.
- *Outbox.* A late Fail clears the claim of another worker; times within one second may be compared wrongly.
- *Setup.* `setupAdmin` counts the users and then creates one: two requests at once may create two administrators.
- *Access.* A request in flight goes by the role it read: an administrator who was demoted or disabled meanwhile finishes
  what was begun, which is why `AccessIsGoverned` speaks of when a request began.
- *Correlation.* Nothing but its tests uses the correlator.
- *Catalog.* No code makes the catalog the registry's `DependencyResolver`: a capability that an active plan uses can be
  removed. A scenario that is archived and made active again is in no index until it is published or rolled back.
  A published revision that is validated or edited again is one the index does not follow.
- *Scenarios.* An Axiom plan executes the first step of its flow only. Revisions that differ in layout have different ADGO plan
  digests. `gt(add(5e18, 5e18), 1)` of ints is accepted by the type checker and ends a dry run in `CONDITION_ERROR`.
- *Doors.* After a crash an unfinished door command waits until the host calls `Drive`; nothing in the service does.

## What is left

1. Modules: `StorageGuard` (a hysteresis of percentages with a critical level also in bytes), `RealtimeHub` (a
   subscription cancelled while a message is published), the lifecycle of cameras.
2. Proofs: refinement for the components whose promise has no abstract specification yet (one delivery for each recipient of
   `TelegramNotifier`, one snapshot for each job of `BackupJobs`); the named definitions that only parts of a run state.
3. Composition: `IncidentAggregation` with `OwnerCallback` through the notification of `TelegramNotifier`, and the door of
   `TelegramService` with the command of `Intercom`.
