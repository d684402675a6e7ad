------------------------- MODULE IntegrationsProofs -------------------------
(***************************************************************************)
(* Proofs about what Sentinel is connected to, for any number of cameras,  *)
(* connections and processes: what Frigate is configured with              *)
(* (FrigateConfig), what Home Assistant is told (AppLifecycle, A), and the *)
(* locks by name that serialize the changes (NamedLocks, N).               *)
(*                                                                         *)
(* That a key in use has the entry all its users have (EntriesFollowUsers) *)
(* is not inductive: that the last user drops the entry needs refs to be   *)
(* the number of users, and that its remaining users all want the same key *)
(* needs two keys never to share an entry.                                 *)
(***************************************************************************)
EXTENDS MCIntegrations, FiniteSetTheorems, TLAPS

CONSTANTS Processes, Keys, Entries, None                            \* NamedLocks
VARIABLES entries, refs, locked, at, key, mine

N == INSTANCE NamedLocks WITH pc <- at

Own(s) == Present(s) \cap Cams
Rendered == {"planned", "armed", "snapped"}
Written == {"saved", "restarted", "store"}

Track ==
  ~unlucky =>
    /\ pc \notin Written \cup {"undo"} => Own(saved) \subseteq owned
    /\ pc \in Written \cup {"undo"} => Own(saved) \subseteq Present(want) /\ Own(previous) \subseteq owned
    /\ pc \in Rendered => Own(plan) \subseteq Present(want)
    /\ pc = "snapped" => Own(previous) \subseteq owned

Kept ==
  /\ pc # "idle" => outcome = "none"
  /\ pc \in {"idle", "listed"} => ~unread
  /\ pc \in {"armed", "snapped"} \cup Written => \A c \in Present(want) : creds[c] = want[c]
  /\ ~raced =>
       /\ pc \in Rendered \cup {"listed", "undo-restart", "undo-wait"} => saved = before
       /\ pc \in Rendered \cup Written => plan = Render(before, want, IF unread THEN {} ELSE owned)
       /\ pc \in Written => saved = plan
       /\ pc \in {"restarted", "store"} => running = saved
       /\ pc \in {"snapped", "undo"} \cup Written => previous = before
       /\ pc = "undo-wait" => running = saved
       /\ outcome = "rolledback" => saved = before /\ running = before
       /\ \A m \in Manual : saved[m] = before[m]

Inv == TypeOK /\ Track /\ Kept

\* Rendering gives a config, keeps the entries of others and drops what is owned no longer.
LEMMA RenderFacts ==
  ASSUME NEW e \in Settings(Names), NEW w \in Settings(Cams), NEW o \in SUBSET Cams
  PROVE  /\ Render(e, w, o) \in Settings(Names)
         /\ \A m \in Manual : Render(e, w, o)[m] = e[m]
         /\ Own(e) \subseteq o => Own(Render(e, w, o)) \subseteq Present(w)
<1> USE VersionsAssumption DEF Render, Settings, Names, Present, Own
<1>1. Render(e, w, o) \in Settings(Names)
  <2>1. ASSUME NEW n \in Names
        PROVE  (IF n \in Present(w) THEN w[n] ELSE IF n \in o THEN 0 ELSE e[n]) \in Versions \cup {0}
    OBVIOUS
  <2> QED BY <2>1
<1>2. \A m \in Manual : Render(e, w, o)[m] = e[m] OBVIOUS
<1>3. ASSUME Own(e) \subseteq o, NEW c \in Own(Render(e, w, o)) PROVE c \in Present(w)
  <2>1. c \in Cams /\ Render(e, w, o)[c] # 0 BY <1>3
  <2>2. CASE e[c] = 0 BY <2>1, <2>2
  <2>3. CASE e[c] # 0 BY <1>3, <2>1, <2>3
  <2> QED BY <2>2, <2>3
<1> QED BY <1>1, <1>2, <1>3

(* The invariant holds at the start (FrigateConfig).                         *)
LEMMA InitInv == Init => Inv
<1> SUFFICES ASSUME Init PROVE Inv OBVIOUS
<1>1. TypeOK BY DEF Init, TypeOK, Settings, Nothing, Names, Outcomes
<1>2. Own(saved) = {} BY VersionsAssumption DEF Init, Own
<1>3. Track BY <1>2 DEF Init, Track, Rendered, Written
<1>4. Kept BY DEF Init, Kept, Rendered, Written
<1> QED BY <1>1, <1>3, <1>4 DEF Inv

\* What an Apply leaves when it ends.
LEMMA FinishInv ==
  ASSUME Inv, NEW o \in Outcomes, Finish(o), saved' \in Settings(Names), running' \in Settings(Names),
         creds' \in Settings(Cams), owned' \subseteq Cams, unlucky' \in BOOLEAN,
         UNCHANGED <<db, before, raced>>,
         ~unlucky' => Own(saved') \subseteq owned',
         ~raced => \A m \in Manual : saved'[m] = before[m],
         ~raced /\ o = "rolledback" => saved' = before /\ running' = before
  PROVE  Inv'
<1>1. TypeOK' BY DEF Inv, TypeOK, Finish, Settings, Nothing, Names
<1>2. Track' BY DEF Track, Finish, Rendered, Written
<1>3. Kept' BY DEF Kept, Finish, Rendered, Written
<1> QED BY <1>1, <1>2, <1>3 DEF Inv

(* Apply lists and plans (FrigateConfig).                                    *)
LEMMA BeginInv == ASSUME Inv, List \/ Plan \/ PlanUnread PROVE Inv'
<1> USE DEF Inv, Rendered, Written
<1>1. CASE List
  BY <1>1 DEF List, TypeOK, Track, Kept, Outcomes
<1>2. CASE Plan
  <2>1. /\ plan' = Render(saved, want, owned)
        /\ plan' \in Settings(Names)
        /\ Own(saved) \subseteq owned => Own(plan') \subseteq Present(want)
    BY <1>2, RenderFacts DEF Plan, TypeOK
  <2>2. TypeOK' BY <1>2, <2>1 DEF Plan, TypeOK
  <2>3. Track' BY <1>2, <2>1 DEF Plan, Track
  <2>4. Kept' BY <1>2, <2>1 DEF Plan, Kept
  <2> QED BY <2>2, <2>3, <2>4
<1>3. CASE PlanUnread
  <2>1. plan' = Render(saved, want, {}) /\ plan' \in Settings(Names)
    BY <1>3, RenderFacts DEF PlanUnread, TypeOK
  <2>2. TypeOK' BY <1>3, <2>1 DEF PlanUnread, TypeOK
  <2>3. Track' BY <1>3 DEF PlanUnread, Track
  <2>4. Kept' BY <1>3, <2>1 DEF PlanUnread, Kept
  <2> QED BY <2>2, <2>3, <2>4
<1> QED BY <1>1, <1>2, <1>3

\* The steps of an Apply that go on.
LEMMA AdvanceInv ==
  ASSUME Inv, \/ Materialize \/ Snapshot \/ Save \/ Restart \/ RestartFails \/ Ready \/ TimesOut
              \/ Undo \/ UndoRestart
  PROVE  Inv'
<1> USE DEF Inv, Rendered, Written, Goto, locals
<1>1. CASE Materialize
  <2>1. creds' \in Settings(Cams) /\ \A c \in Present(want) : creds'[c] = want[c]
    BY <1>1 DEF Materialize, TypeOK
  <2>2. TypeOK' BY <1>1, <2>1 DEF Materialize, TypeOK
  <2>3. Track' BY <1>1 DEF Materialize, Track
  <2>4. Kept' BY <1>1, <2>1 DEF Materialize, Kept
  <2> QED BY <2>2, <2>3, <2>4
<1>2. CASE Snapshot
  <2>1. TypeOK' BY <1>2 DEF Snapshot, TypeOK
  <2>2. Track' BY <1>2 DEF Snapshot, Track
  <2>3. Kept' BY <1>2 DEF Snapshot, Kept
  <2> QED BY <2>1, <2>2, <2>3
<1>3. CASE Save
  <2>1. TypeOK' BY <1>3 DEF Save, TypeOK
  <2>2. Track' BY <1>3 DEF Save, Track
  <2>3. ~raced => \A m \in Manual : plan[m] = before[m]
    BY <1>3, RenderFacts DEF Save, TypeOK, Kept
  <2>4. Kept' BY <1>3, <2>3 DEF Save, Kept
  <2> QED BY <2>1, <2>2, <2>4
<1>4. CASE Restart
  BY <1>4 DEF Restart, TypeOK, Track, Kept
<1>5. CASE RestartFails
  <2>1. running' \in Settings(Names) BY <1>5 DEF RestartFails, TypeOK
  <2>2. TypeOK' BY <1>5, <2>1 DEF RestartFails, TypeOK
  <2>3. Track' BY <1>5 DEF RestartFails, Track
  <2>4. Kept' BY <1>5 DEF RestartFails, Kept
  <2> QED BY <2>2, <2>3, <2>4
<1>6. CASE Ready
  BY <1>6 DEF Ready, TypeOK, Track, Kept
<1>7. CASE TimesOut
  BY <1>7 DEF TimesOut, TypeOK, Track, Kept
<1>8. CASE Undo
  <2>1. TypeOK' BY <1>8 DEF Undo, TypeOK
  <2>2. Track' BY <1>8 DEF Undo, Track
  <2>3. Kept' BY <1>8 DEF Undo, Kept
  <2> QED BY <2>1, <2>2, <2>3
<1>9. CASE UndoRestart
  BY <1>9 DEF UndoRestart, TypeOK, Track, Kept
<1> QED BY <1>1, <1>2, <1>3, <1>4, <1>5, <1>6, <1>7, <1>8, <1>9

\* The steps that end one.
LEMMA EndInv ==
  ASSUME Inv, \/ FailEarly \/ MaterializeSome \/ SaveLost \/ Store \/ StoreFails
              \/ Undone \/ UndoFails \/ Crash
  PROVE  Inv'
<1> USE DEF Inv, Rendered, Written, Outcomes
<1>1. CASE FailEarly
  BY <1>1, FinishInv DEF FailEarly, TypeOK, Track, Kept
<1>2. CASE MaterializeSome
  <2>1. creds' \in Settings(Cams) BY <1>2 DEF MaterializeSome, TypeOK, Settings
  <2> QED BY <1>2, <2>1, FinishInv DEF MaterializeSome, TypeOK, Track, Kept
<1>3. CASE SaveLost
  <2>1. ~raced => \A m \in Manual : plan[m] = before[m]
    BY <1>3, RenderFacts DEF SaveLost, TypeOK, Kept
  <2> QED BY <1>3, <2>1, FinishInv DEF SaveLost, TypeOK
<1>4. CASE Store
  <2>1. owned' \subseteq Cams BY <1>4 DEF Store, TypeOK, Settings, Present
  <2> QED BY <1>4, <2>1, FinishInv DEF Store, TypeOK, Track, Kept
<1>5. CASE StoreFails
  BY <1>5, FinishInv DEF StoreFails, TypeOK, Kept
<1>6. CASE Undone
  BY <1>6, FinishInv DEF Undone, TypeOK, Track, Kept
<1>7. CASE UndoFails
  <2>1. saved' \in Settings(Names) /\ running' \in Settings(Names)
    BY <1>7 DEF UndoFails, TypeOK
  <2>2. ~raced => \A m \in Manual : saved'[m] = before[m]
    BY <1>7 DEF UndoFails, Kept
  <2> QED BY <1>7, <2>1, <2>2, FinishInv DEF UndoFails, TypeOK
<1>8. CASE Crash
  BY <1>8, FinishInv DEF Crash, TypeOK, Kept
<1> QED BY <1>1, <1>2, <1>3, <1>4, <1>5, <1>6, <1>7, <1>8

\* What others do meanwhile.
LEMMA WorldInv ==
  ASSUME Inv,
         \/ \E c \in Cams, v \in Versions \cup {0} : ChangeCamera(c, v)
         \/ \E n \in Names, v \in Versions \cup {0} : EditByHand(n, v)
         \/ FrigateRestarts
         \/ UNCHANGED vars
  PROVE  Inv'
<1> USE DEF Inv, Rendered, Written, locals
<1>1. ASSUME NEW c \in Cams, NEW v \in Versions \cup {0}, ChangeCamera(c, v) PROVE Inv'
  <2>1. db' \in Settings(Cams) BY <1>1 DEF ChangeCamera, TypeOK, Settings
  <2>2. TypeOK' BY <1>1, <2>1 DEF ChangeCamera, TypeOK
  <2>3. Track' /\ Kept' BY <1>1 DEF ChangeCamera, Track, Kept
  <2> QED BY <2>2, <2>3
<1>2. ASSUME NEW n \in Names, NEW v \in Versions \cup {0}, EditByHand(n, v) PROVE Inv'
  <2>1. saved' \in Settings(Names) BY <1>2 DEF EditByHand, TypeOK, Settings
  <2>2. TypeOK' BY <1>2, <2>1 DEF EditByHand, TypeOK
  <2>3. Own(saved') \subseteq Own(saved)
    BY <1>2 DEF EditByHand, Own, Present, TypeOK, Settings
  <2>4. Track' BY <1>2, <2>3 DEF EditByHand, Track
  <2>5. Kept' BY <1>2 DEF EditByHand, Kept
  <2> QED BY <2>2, <2>4, <2>5
<1>3. CASE FrigateRestarts
  BY <1>3 DEF FrigateRestarts, TypeOK, Track, Kept
<1>4. CASE UNCHANGED vars
  BY <1>4 DEF vars, TypeOK, Track, Kept, Own, Present, Render
<1> QED BY <1>1, <1>2, <1>3, <1>4

(* Every step keeps the invariant (FrigateConfig).                           *)
LEMMA StepInv == Inv /\ [Next]_vars => Inv'
<1> SUFFICES ASSUME Inv, [Next]_vars PROVE Inv' OBVIOUS
<1> QED BY BeginInv, AdvanceInv, EndInv, WorldInv DEF Next, Advance

(* So it is one of every behaviour (FrigateConfig).                          *)
LEMMA Inductive == Spec => []Inv
<1> QED BY InitInv, StepInv, PTL DEF Spec

\* The configs, the ownership and the locals of Apply stay well-formed.
THEOREM TypeCorrect == Spec => []TypeOK
<1>1. Inv => TypeOK BY DEF Inv
<1> QED BY <1>1, Inductive, PTL

\* Applying Sentinel's cameras never touches an entry of another owner.
THEOREM OthersAreKept == Spec => []ManualKept
<1>1. Inv => ManualKept BY DEF Inv, Kept, ManualKept
<1> QED BY <1>1, Inductive, PTL

\* An Apply that verified Frigate has it run the config rendered from what it found, from the cameras
\* it listed and from the ownership stored, or from none where that could not be read.
THEOREM AppliedIsRendered == Spec => []AppliedRuns
<1>1. Inv => AppliedRuns BY DEF Inv, Kept, AppliedRuns, Written
<1> QED BY <1>1, Inductive, PTL

\* A rollback without further error restores what Apply found.
THEOREM RollbackRestores == Spec => []RestoredRuns
<1>1. Inv => RestoredRuns BY DEF Inv, Kept, RestoredRuns
<1> QED BY <1>1, Inductive, PTL

\* Unless the stored ownership could not be read, or bad luck struck between the save and the store,
\* no camera outlives its ownership.
THEOREM NoOrphansWithoutBadLuck == Spec => []OrphansNeedBadLuck
<1>1. Inv => OrphansNeedBadLuck BY DEF Inv, Track, OrphansNeedBadLuck, NoOrphans, Own, Written
<1> QED BY <1>1, Inductive, PTL

-----------------------------------------------------------------------------
(* The types, and that the service is not being created before the         *)
(* connection is.                                                          *)
Counted ==
    /\ workers \in [new : Nat, begun : Nat, rest : BOOLEAN]
    /\ callback \in {"none", "store", "health", "spawn"}
    /\ starter \in {"none", "create", "set", "ask"}
    /\ told \in BOOLEAN
    /\ stage \in {"mqtt", "ha"} => starter = "none"

(* Who saw the connection come up after the service was there has asked    *)
(* for the announcement, or is about to.                                   *)
AnnounceInv ==
    /\ Counted
    /\ callback # "store" => ready = told
    /\ link /\ told /\ callback = "none" /\ assistant /\ starter # "ask" /\ ~A!Cancelled =>
           tried \/ workers.new + workers.begun > 0

(* A worker that was asked for is there.                                   *)
LEMMA Spawning ==
    ASSUME Counted, A!Spawned
    PROVE  workers' \in [new : Nat, begun : Nat, rest : BOOLEAN] /\ workers'.new + workers'.begun > 0
<1> DEFINE n == workers.new + 1
<1>1. workers' = [workers EXCEPT !.new = n] /\ workers \in [new : Nat, begun : Nat, rest : BOOLEAN]
  BY DEF A!Spawned, Counted
<1>2. n \in Nat \ {0} /\ workers.begun \in Nat
  BY <1>1
<1> HIDE DEF n
<1> QED
  BY <1>1, <1>2

(* All steps.                                                              *)
LEMMA AnnounceStep == AnnounceInv /\ [A!Next]_(A!vars) => AnnounceInv'
<1> SUFFICES ASSUME AnnounceInv, [A!Next]_(A!vars) PROVE AnnounceInv'
  OBVIOUS
<1> USE DEF AnnounceInv
<1>1. CASE UNCHANGED A!vars
  BY <1>1 DEF A!vars, A!client, A!assistant, A!discovery, A!watchdog, Counted, A!Cancelled
<1>2. CASE A!StartMQTT \/ A!OpenHomeAssistant \/ A!StartWatchdog
  BY <1>2 DEF A!StartMQTT, A!OpenHomeAssistant, A!StartWatchdog, A!client, A!assistant, A!discovery, Counted, A!Cancelled
<1>21. CASE A!ConfigureHomeAssistant \/ A!CreateFails \/ A!CreateClients
  <2>1. UNCHANGED <<link, told, callback, ready, assistant, workers, tried>>
    BY <1>21 DEF A!ConfigureHomeAssistant, A!CreateFails, A!CreateClients, A!client, A!discovery
  <2>2. starter \in {"none", "create"} /\ starter' \in {"none", "create", "set"}
    BY <1>21 DEF A!ConfigureHomeAssistant, A!CreateFails, A!CreateClients, A!Step, A!After
  <2>3. \/ stage' = stage /\ starter # "none"
        \/ stage' = "watchdog" /\ stage = "starting"
        \/ stage' = "open" /\ stage = "open"
    <3>1. A!ConfigureHomeAssistant => stage = "open" /\ stage' = stage
      BY DEF A!ConfigureHomeAssistant
    <3>2. A!CreateFails => starter = "create" /\ (stage' = stage \/ (stage' = "watchdog" /\ stage = "starting"))
      BY DEF A!CreateFails, A!Started
    <3>3. A!CreateClients => starter = "create" /\ stage' = stage
      BY DEF A!CreateClients, A!Step
    <3> QED
      BY <1>21, <3>1, <3>2, <3>3
  <2> QED
    BY <2>1, <2>2, <2>3 DEF Counted, A!Cancelled
<1>3. CASE A!SetService
  BY <1>3 DEF A!SetService, A!Step, A!After, A!Done, A!client, A!discovery, Counted
<1>4. CASE A!AskReady
  <2>1. /\ starter = "ask" /\ starter' = "none" /\ UNCHANGED <<link, told, callback, ready, assistant>>
    BY <1>4 DEF A!AskReady, A!Step, A!After, A!client
  <2>2. CASE ready
    BY <1>4, <2>1, <2>2, Spawning DEF A!AskReady, Counted
  <2>3. CASE ~ready
    BY <1>4, <2>1, <2>3 DEF A!AskReady, A!discovery, Counted
  <2> QED
    BY <2>2, <2>3
<1>5. CASE A!Connect \/ A!Drop \/ A!OnConnectionDown \/ A!StoreReady
  BY <1>5 DEF A!Connect, A!Drop, A!OnConnectionDown, A!StoreReady, A!assistant, A!discovery, Counted, A!Cancelled
<1>6. CASE A!SetHealth
  BY <1>6 DEF A!SetHealth, A!assistant, A!discovery, Counted
<1>7. CASE A!SpawnDiscovery
  <2>1. A!Spawned /\ callback' = "none" /\ UNCHANGED <<stage, link, told, ready, assistant, starter>> /\ callback = "spawn"
    BY <1>7 DEF A!SpawnDiscovery, A!assistant
  <2> QED
    BY <2>1, Spawning DEF Counted
<1>8. CASE A!Outage \/ A!Online
  <2>1. /\ UNCHANGED <<stage, link, told, callback, ready, assistant, starter>>
        /\ A!Spawned \/ UNCHANGED <<workers, tried>>
    BY <1>8 DEF A!Outage, A!Online, A!client, A!assistant, A!discovery
  <2>2. CASE A!Spawned
    BY <2>1, <2>2, Spawning DEF Counted
  <2>3. CASE UNCHANGED <<workers, tried>>
    BY <2>1, <2>3 DEF Counted, A!Cancelled
  <2> QED
    BY <2>1, <2>2, <2>3
<1>9. CASE A!Begin \/ A!PublishSystem \/ A!PublishRest
  <2>1. UNCHANGED <<link, told, callback, ready, assistant, starter>>
    BY <1>9 DEF A!Begin, A!PublishSystem, A!PublishRest, A!client, A!assistant
  <2>2. CASE A!Begin
    <3> DEFINE m == workers.new - 1
               n == IF assistant /\ ~A!Cancelled THEN workers.begun + 1 ELSE workers.begun
    <3>1. workers' = [workers EXCEPT !.new = m, !.begun = n] /\ tried' = tried /\ stage' = stage /\ workers.new > 0
      BY <2>2 DEF A!Begin
    <3>2. m \in Nat /\ n \in Nat /\ (assistant /\ ~A!Cancelled => m + n = workers.new + workers.begun)
      BY <3>1 DEF Counted
    <3> HIDE DEF m, n
    <3>3. workers' \in [new : Nat, begun : Nat, rest : BOOLEAN] /\ workers'.new = m /\ workers'.begun = n
      BY <3>1, <3>2 DEF Counted
    <3> QED
      BY <2>1, <3>1, <3>2, <3>3 DEF Counted, A!Cancelled
  <2>3. CASE A!PublishSystem
    <3> DEFINE n == workers.begun - 1
    <3>1. /\ workers.begun > 0 /\ stage' = stage
          /\ workers' = [workers EXCEPT !.begun = n, !.rest = TRUE] \/ workers' = [workers EXCEPT !.begun = n]
          /\ tried' = TRUE \/ (tried' = tried /\ (~assistant \/ ~link \/ A!Cancelled))
      BY <2>3 DEF A!PublishSystem
    <3>2. n \in Nat
      BY <3>1 DEF Counted
    <3> HIDE DEF n
    <3>3. workers' \in [new : Nat, begun : Nat, rest : BOOLEAN]
      BY <3>1, <3>2 DEF Counted
    <3> QED
      BY <2>1, <3>1, <3>3 DEF Counted, A!Cancelled
  <2>4. CASE A!PublishRest
    <3>1. /\ workers' \in [new : Nat, begun : Nat, rest : BOOLEAN] /\ tried' = tried
          /\ workers'.new = workers.new /\ workers'.begun = workers.begun
      BY <2>4 DEF A!PublishRest, Counted
    <3>2. stage' = stage \/ (~assistant /\ stage' = "panicked")
      <4>1. stage' = IF assistant THEN stage ELSE "panicked"
        BY <2>4 DEF A!PublishRest
      <4>2. CASE assistant
        BY <4>1, <4>2
      <4>3. CASE ~assistant
        BY <4>1, <4>3
      <4> QED
        BY <4>2, <4>3
    <3> QED
      BY <2>1, <3>1, <3>2 DEF Counted, A!Cancelled
  <2> QED
    BY <1>9, <2>2, <2>3, <2>4
<1>10. ASSUME NEW p \in A!Parts, A!Probe(p) \/ A!Report(p) \/ A!EndCheck(p) PROVE AnnounceInv'
  BY <1>10 DEF A!Probe, A!Report, A!EndCheck, A!client, A!assistant, A!discovery, Counted, A!Cancelled
<1>11. CASE A!Cancel \/ A!CloseWatchdog \/ A!CloseHomeAssistant \/ A!CloseMQTT
  BY <1>11 DEF A!Cancel, A!CloseWatchdog, A!CloseHomeAssistant, A!CloseMQTT, A!client, A!assistant, A!discovery, Counted, A!Cancelled
<1> QED
  BY <1>1, <1>2, <1>21, <1>3, <1>4, <1>5, <1>6, <1>7, <1>8, <1>9, <1>10, <1>11 DEF A!Next, A!Open, A!Callback, A!Close

(* On every connection to the broker Sentinel has been announced to Home     *)
(* Assistant, is about to be, or an attempt has failed.                      *)
THEOREM AnnouncedHolds == A!Spec => []AnnouncedOrOnTheWay
<1>1. A!Init => AnnounceInv
  <2>1. A!Init => workers \in [new : Nat, begun : Nat, rest : BOOLEAN]
    BY DEF A!Init
  <2> QED
    BY <2>1 DEF A!Init, AnnounceInv, Counted
<1>2. AnnounceInv => AnnouncedOrOnTheWay
  BY DEF AnnounceInv, AnnouncedOrOnTheWay, A!AnnouncedOrOnTheWay, A!Cancelled
<1> QED
  BY <1>1, <1>2, AnnounceStep, PTL DEF A!Spec

-----------------------------------------------------------------------------
\* No two keys share an entry, refs counts the users of an entry, and the mutex of the entry is
\* its holder's.
Injective == \A j, k \in Keys : entries[j] = entries[k] /\ entries[k] # None => j = k
RefsCountUsers == \A e \in Entries : refs[e] = Cardinality(N!Users(e))
HoldersHaveIt == \A p \in Processes : at[p] = "holding" => locked[mine[p]] = p

\* What the proof takes of the constants.
LocksAreKnown == IsFiniteSet(Processes) /\ None \notin Entries \cup Processes

LocksInv == N!TypeOK /\ N!EntriesFollowUsers /\ Injective /\ RefsCountUsers /\ HoldersHaveIt

\* A process that starts using an entry adds one to the number of its users.
LEMMA UsersJoin ==
  ASSUME LocksAreKnown, NEW U, NEW V, NEW p \in Processes, U \subseteq Processes, p \notin U, V = U \cup {p}
  PROVE  Cardinality(V) = Cardinality(U) + 1 /\ Cardinality(U) \in Nat
<1>1. IsFiniteSet(U) BY FS_Subset, LocksAreKnown DEF LocksAreKnown
<1> QED BY <1>1, FS_AddElement, FS_CardinalityType

\* A process that stops using an entry takes one from it.
LEMMA UsersLeave ==
  ASSUME LocksAreKnown, NEW U, NEW p \in Processes, U \subseteq Processes, p \in U
  PROVE  Cardinality(U \ {p}) = Cardinality(U) - 1 /\ Cardinality(U) \in Nat \ {0}
<1>1. IsFiniteSet(U) BY FS_Subset, LocksAreKnown DEF LocksAreKnown
<1>2. U # {} OBVIOUS
<1> QED BY <1>1, <1>2, FS_RemoveElement, FS_CardinalityType, FS_EmptySet

\* Nobody uses an entry at first.
LEMMA LocksInit == ASSUME LocksAreKnown, N!Init PROVE LocksInv
<1>1. N!TypeOK BY LocksAreKnown DEF LocksAreKnown, N!Init, N!TypeOK
<1>2. \A e \in Entries : N!Users(e) = {} BY DEF N!Init, N!Users
<1>3. RefsCountUsers BY <1>2, FS_EmptySet DEF N!Init, RefsCountUsers
<1>4. N!EntriesFollowUsers /\ Injective /\ HoldersHaveIt
  BY DEF N!Init, N!EntriesFollowUsers, Injective, HoldersHaveIt
<1> QED BY <1>1, <1>3, <1>4 DEF LocksInv

\* Lock: the found or new entry gets one more user.
LEMMA LockStep ==
  ASSUME LocksAreKnown, LocksInv, NEW p \in Processes, NEW k \in Keys, NEW e \in Entries, N!Lock(p, k, e)
  PROVE  LocksInv'
<1> USE DEF LocksInv, N!Lock, N!TypeOK
<1>0. /\ at[p] = "idle" /\ e # None
      /\ entries[k] = None => N!Users(e) = {} /\ \A j \in Keys : entries[j] # e
      /\ entries[k] # None => e = entries[k]
  BY LocksAreKnown DEF LocksAreKnown, N!Found, N!Fresh
<1>1. /\ N!Users(e)' = N!Users(e) \cup {p} /\ p \notin N!Users(e)
      /\ \A f \in Entries \ {e} : N!Users(f)' = N!Users(f)
  BY <1>0 DEF N!Users
<1>2. Cardinality(N!Users(e)') = Cardinality(N!Users(e)) + 1
  BY <1>1, UsersJoin DEF N!Users
<1>3. refs'[e] = Cardinality(N!Users(e)')
  <2>1. CASE entries[k] = None
    BY <2>1, <1>0, <1>2, FS_EmptySet DEF RefsCountUsers
  <2>2. CASE entries[k] # None
    BY <2>2, <1>2 DEF RefsCountUsers
  <2> QED BY <2>1, <2>2
<1>4. RefsCountUsers'
  BY <1>1, <1>3 DEF RefsCountUsers
<1>5. N!TypeOK'
  <2>1. refs' \in [Entries -> Nat] OBVIOUS
  <2>2. locked' \in [Entries -> Processes \cup {None}] OBVIOUS
  <2> QED BY <2>1, <2>2
<1>6. Injective' BY <1>0 DEF Injective
<1>7. HoldersHaveIt'
  <2>1. SUFFICES ASSUME NEW q \in Processes, at'[q] = "holding" PROVE locked'[mine'[q]] = q
    BY DEF HoldersHaveIt
  <2>2. q # p /\ at[q] = "holding" /\ mine'[q] = mine[q] BY <2>1
  <2>3. entries[k] = None => mine[q] # e BY <2>2, <1>0 DEF N!Users
  <2> QED BY <2>2, <2>3 DEF HoldersHaveIt
<1>8. N!EntriesFollowUsers'
  <2>1. ASSUME NEW q \in Processes, at'[q] # "idle" PROVE entries'[key'[q]] = mine'[q]
    <3>1. CASE q = p BY <3>1
    <3>2. CASE q # p
      <4>1. entries[key[q]] = mine[q] /\ mine[q] \in Entries /\ mine[q] # None
        BY <3>2, <2>1, LocksAreKnown DEF LocksAreKnown, N!EntriesFollowUsers
      <4> QED BY <3>2, <4>1, <1>0
    <3> QED BY <3>1, <3>2
  <2>2. ASSUME NEW j \in Keys, entries'[j] # None PROVE \E q \in N!Users(entries[j])' : key'[q] = j
    <3>1. CASE j = k
      <4>1. p \in N!Users(entries[j])' /\ key'[p] = j BY <3>1, <1>1
      <4> QED BY <4>1
    <3>2. CASE j # k
      <4>1. PICK q \in N!Users(entries[j]) : key[q] = j BY <3>2, <2>2 DEF N!EntriesFollowUsers
      <4>2. q # p BY <4>1, <1>0 DEF N!Users
      <4>3. q \in N!Users(entries[j])' /\ key'[q] = j BY <3>2, <4>1, <4>2 DEF N!Users
      <4> QED BY <4>3
    <3> QED BY <3>1, <3>2
  <2> QED BY <2>1, <2>2 DEF N!EntriesFollowUsers
<1> QED BY <1>4, <1>5, <1>6, <1>7, <1>8

\* Entering and unlocking change neither the entries nor their users.
LEMMA EnterStep ==
  ASSUME LocksAreKnown, LocksInv, NEW p \in Processes, N!Enter(p)
  PROVE  LocksInv'
<1> USE DEF LocksInv, N!Enter, N!TypeOK
<1>1. \A e \in Entries : N!Users(e)' = N!Users(e) BY DEF N!Users
<1>2. RefsCountUsers' BY <1>1 DEF RefsCountUsers
<1>3. N!TypeOK' OBVIOUS
<1>4. HoldersHaveIt' BY LocksAreKnown DEF LocksAreKnown, HoldersHaveIt
<1>5. N!EntriesFollowUsers' /\ Injective'
  BY <1>1 DEF N!EntriesFollowUsers, Injective
<1> QED BY <1>2, <1>3, <1>4, <1>5

(* A holder unlocks (NamedLocks).                                            *)
LEMMA UnlockStep ==
  ASSUME LocksAreKnown, LocksInv, NEW p \in Processes, N!Unlock(p)
  PROVE  LocksInv'
<1> USE DEF LocksInv, N!Unlock, N!TypeOK
<1>1. \A e \in Entries : N!Users(e)' = N!Users(e) BY DEF N!Users
<1>2. RefsCountUsers' BY <1>1 DEF RefsCountUsers
<1>3. N!TypeOK' OBVIOUS
<1>4. HoldersHaveIt'
  <2>1. SUFFICES ASSUME NEW q \in Processes, at'[q] = "holding" PROVE locked'[mine'[q]] = q
    BY DEF HoldersHaveIt
  <2>2. q # p /\ at[q] = "holding" BY <2>1
  <2>3. locked[mine[q]] = q /\ locked[mine[p]] = p BY <2>2 DEF HoldersHaveIt
  <2>4. mine[q] # mine[p] BY <2>2, <2>3
  <2> QED BY <2>3, <2>4
<1>5. N!EntriesFollowUsers' /\ Injective'
  BY <1>1 DEF N!EntriesFollowUsers, Injective
<1> QED BY <1>2, <1>3, <1>4, <1>5

\* The last user, and only the last, drops the entry.
LEMMA DropStep ==
  ASSUME LocksAreKnown, LocksInv, NEW p \in Processes, N!Drop(p)
  PROVE  LocksInv'
<1> USE DEF LocksInv, N!Drop, N!TypeOK
<1> DEFINE e == mine[p]
<1>1. /\ at[p] = "releasing" /\ p \in N!Users(e) /\ e \in Entries
      /\ N!Users(e)' = N!Users(e) \ {p}
      /\ \A f \in Entries \ {e} : N!Users(f)' = N!Users(f)
  BY DEF N!Users
<1>2. /\ Cardinality(N!Users(e) \ {p}) = Cardinality(N!Users(e)) - 1
      /\ Cardinality(N!Users(e)) \in Nat \ {0}
  BY <1>1, UsersLeave DEF N!Users
<1>3. refs[e] = Cardinality(N!Users(e)) BY <1>1 DEF RefsCountUsers
<1>4. RefsCountUsers' BY <1>1, <1>2, <1>3 DEF RefsCountUsers
<1>5. N!TypeOK'
  <2>1. refs[e] - 1 \in Nat BY <1>2, <1>3
  <2> QED BY <2>1
<1>6. HoldersHaveIt' BY DEF HoldersHaveIt
<1>7. Injective' BY LocksAreKnown DEF LocksAreKnown, Injective
<1>8. refs[e] = 1 <=> N!Users(e) \ {p} = {}
  <2>1. IsFiniteSet(N!Users(e) \ {p}) BY FS_Subset, LocksAreKnown DEF LocksAreKnown, N!Users
  <2>2. Cardinality(N!Users(e) \ {p}) = 0 <=> N!Users(e) \ {p} = {} BY <2>1, FS_EmptySet
  <2> QED BY <2>2, <1>2, <1>3
<1>9. entries[key[p]] = e BY <1>1 DEF N!EntriesFollowUsers
<1>10. N!EntriesFollowUsers'
  <2>1. ASSUME NEW q \in Processes, at'[q] # "idle" PROVE entries'[key'[q]] = mine'[q]
    <3>1. q # p /\ at[q] # "idle" /\ entries[key[q]] = mine[q] BY <2>1 DEF N!EntriesFollowUsers
    <3>2. CASE refs[e] = 1
      <4>1. mine[q] # e BY <3>1, <3>2, <1>8 DEF N!Users
      <4>2. key[q] # key[p] BY <3>1, <4>1, <1>9
      <4> QED BY <3>1, <3>2, <4>2
    <3>3. CASE refs[e] # 1 BY <3>1, <3>3
    <3> QED BY <3>2, <3>3
  <2>2. ASSUME NEW j \in Keys, entries'[j] # None PROVE \E q \in N!Users(entries[j])' : key'[q] = j
    <3>1. entries'[j] = entries[j] /\ entries[j] \in Entries /\ (j = key[p] => refs[e] # 1)
      BY <2>2
    <3>2. CASE entries[j] = e
      <4>1. j = key[p] BY <3>1, <3>2, <1>9, <2>2 DEF Injective
      <4>2. PICK q \in N!Users(e) \ {p} : TRUE BY <4>1, <3>1, <1>8
      <4>3. at[q] # "idle" /\ mine[q] = e /\ entries[key[q]] = e /\ key[q] \in Keys
        BY <4>2 DEF N!Users, N!EntriesFollowUsers
      <4>4. key[q] = j BY <4>3, <3>2, <2>2, <3>1 DEF Injective
      <4> QED BY <4>2, <4>4, <3>1, <3>2, <1>1
    <3>3. CASE entries[j] # e
      <4>1. PICK q \in N!Users(entries[j]) : key[q] = j BY <3>1, <2>2 DEF N!EntriesFollowUsers
      <4> QED BY <4>1, <3>1, <3>3, <1>1
    <3> QED BY <3>2, <3>3
  <2> QED BY <2>1, <2>2 DEF N!EntriesFollowUsers
<1> QED BY <1>4, <1>5, <1>6, <1>7, <1>10

(* What leaves the locks alone keeps their invariant (NamedLocks).           *)
LEMMA LocksStutter == LocksInv /\ UNCHANGED N!vars => LocksInv'
<1> SUFFICES ASSUME LocksInv, UNCHANGED N!vars PROVE LocksInv' OBVIOUS
<1>1. \A e \in Entries : N!Users(e)' = N!Users(e) BY DEF N!vars, N!Users
<1>2. RefsCountUsers' BY <1>1 DEF LocksInv, RefsCountUsers, N!vars
<1>3. N!EntriesFollowUsers'
  BY <1>1 DEF LocksInv, N!EntriesFollowUsers, N!vars, N!TypeOK
<1> QED BY <1>2, <1>3 DEF LocksInv, N!vars, N!TypeOK, Injective, HoldersHaveIt

(* Every step keeps the invariant (NamedLocks).                              *)
LEMMA LocksStep == ASSUME LocksAreKnown, LocksInv, [N!Next]_(N!vars) PROVE LocksInv'
<1>1. CASE UNCHANGED N!vars BY <1>1, LocksStutter
<1>2. CASE N!Next BY <1>2, LockStep, EnterStep, UnlockStep, DropStep DEF N!Next, N!Step
<1> QED BY <1>1, <1>2

(* So it is one of every behaviour (NamedLocks).                             *)
LEMMA LocksInductive == ASSUME LocksAreKnown PROVE N!Spec => []LocksInv
<1>1. N!Init => LocksInv BY LocksInit
<1>2. LocksInv /\ [N!Next]_(N!vars) => LocksInv' BY LocksStep
<1> QED BY <1>1, <1>2, PTL DEF N!Spec

\* The state of the lock manager stays well-formed; in particular refs never goes below zero.
THEOREM LocksTypeCorrect == ASSUME LocksAreKnown PROVE N!Spec => []N!TypeOK
<1>1. LocksInv => N!TypeOK BY DEF LocksInv
<1> QED BY <1>1, LocksInductive, PTL

\* The map of the manager holds exactly the entries in use, for any number of processes and keys.
THEOREM EntriesAreUsers == ASSUME LocksAreKnown PROVE N!Spec => []N!EntriesFollowUsers
<1>1. LocksInv => N!EntriesFollowUsers BY DEF LocksInv
<1> QED BY <1>1, LocksInductive, PTL

\* Locks over named entries are mutexes over names.
THEOREM LocksImplementMutex == ASSUME LocksAreKnown PROVE N!Spec => N!ImplementsMutex
<1> DEFINE H == {<<p, key[p]>> : p \in {q \in Processes : at[q] = "holding"}}
<1>1. N!Init => H = {} BY DEF N!Init
<1>2. ASSUME LocksInv, [N!Next]_(N!vars) PROVE [N!Mutex!MutexNext]_H
  <2> DEFINE S == {q \in Processes : at[q] = "holding"}
  <2> USE <1>2 DEF LocksInv, N!TypeOK
  <2>1. CASE UNCHANGED N!vars BY <2>1 DEF N!vars
  <2>2. ASSUME NEW p \in Processes, NEW k \in Keys, NEW e \in Entries, N!Lock(p, k, e) PROVE H' = H
    <3>1. S' = S /\ \A q \in S : key'[q] = key[q] BY <2>2 DEF N!Lock
    <3> QED BY <3>1
  <2>3. ASSUME NEW p \in Processes, N!Enter(p) PROVE N!Mutex!MutexNext
    <3>1. \A q \in Processes : <<q, key[p]>> \notin H
      <4>1. SUFFICES ASSUME NEW q \in Processes, at[q] = "holding", key[q] = key[p] PROVE FALSE
        OBVIOUS
      <4>2. at[p] = "waiting" /\ locked[mine[p]] = None BY <2>3 DEF N!Enter
      <4>3. mine[q] = mine[p] BY <4>1, <4>2 DEF N!EntriesFollowUsers
      <4>4. locked[mine[q]] = q BY <4>1 DEF HoldersHaveIt
      <4> QED BY <4>2, <4>3, <4>4, LocksAreKnown DEF LocksAreKnown
    <3>2. S' = S \cup {p} /\ key' = key BY <2>3 DEF N!Enter
    <3>3. H' = H \cup {<<p, key[p]>>} BY <3>2
    <3>4. \E q \in Processes, k \in Keys :
            (\A r \in Processes : <<r, k>> \notin H) /\ H' = H \cup {<<q, k>>}
      BY <3>1, <3>3
    <3> QED BY <3>4 DEF N!Mutex!MutexNext, N!Mutex!Take
  <2>4. ASSUME NEW p \in Processes, N!Unlock(p) PROVE N!Mutex!MutexNext
    <3>1. p \in S /\ S' = S \ {p} /\ key' = key BY <2>4 DEF N!Unlock
    <3>2. <<p, key[p]>> \in H BY <3>1
    <3>3. H' = {<<q, key[q]>> : q \in S \ {p}} BY <3>1
    <3>4. H' = H \ {<<p, key[p]>>} BY <3>1, <3>3
    <3>5. \E q \in Processes, k \in Keys : <<q, k>> \in H /\ H' = H \ {<<q, k>>}
      BY <3>2, <3>4
    <3> QED BY <3>5 DEF N!Mutex!MutexNext, N!Mutex!Give
  <2>5. ASSUME NEW p \in Processes, N!Drop(p) PROVE H' = H
    <3>1. S' = S /\ key' = key BY <2>5 DEF N!Drop
    <3> QED BY <3>1
  <2> HIDE DEF H
  <2> QED BY <1>2, <2>1, <2>2, <2>3, <2>4, <2>5 DEF N!Next, N!Step
<1> QED BY <1>1, <1>2, LocksInductive, PTL DEF N!Spec, N!ImplementsMutex, N!Mutex!MutexSpec, N!Mutex!MutexInit
=============================================================================
