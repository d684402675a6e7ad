--------------------------- MODULE RecordsProofs ----------------------------
(***************************************************************************)
(* Proofs about what is recorded, for any number of capabilities,          *)
(* releases, messages, accounts and observations: entities keep what they  *)
(* refer to and the index is that of the plans (ScenarioCatalog); an       *)
(* update that rolled back has restored its own checkpoint, and no release *)
(* works on a schema it does not know (ReleaseUpdate, U); events are       *)
(* claimed in their time (Outbox, O); accounts change as entitled requests *)
(* ask (AccessControl, A); a group of observations is what their times     *)
(* say, and its risk only rises (Correlation, C).                          *)
(*                                                                         *)
(* Of the rollback it is proved what each step of it leaves behind         *)
(* (PutBack), and of the schema what every process that could be started   *)
(* next would read (Known). An administrator remains because none but a    *)
(* request that read the accounts since the last change writes them        *)
(* (Licensed, Sound). Of a group it is proved which of the observations of *)
(* its subject it has and what it shows of them (Gathered).                *)
(***************************************************************************)
EXTENDS MCRecords, Integers, FiniteSetTheorems, SequenceTheorems, NaturalsInduction, WellFoundedInduction, TLAPS

(* What a record of the catalog is: a sequence of revisions, of which the    *)
(* active one, if there is any, is one.                                      *)
IsRevision(rev) == DOMAIN rev = {"doc", "state", "version", "manifest"}
IsSequence(q) == \E S : q \in Seq(S)
IsRecord(rec) ==
    /\ DOMAIN rec = {"revs", "active", "version", "draft", "status"}
    /\ IsSequence(rec.revs) /\ rec.active \in 0 .. Len(rec.revs)
    /\ \A r \in DOMAIN rec.revs : IsRevision(rec.revs[r])

Recorded ==
    /\ DOMAIN records = Scenarios /\ DOMAIN index = Scenarios /\ DOMAIN places = Scenarios
    /\ \A s \in Scenarios : Exists(s) => IsRecord(records[s])
IndexInv == Recorded /\ IndexAgrees

-----------------------------------------------------------------------------
(* Every entity keeps its capabilities registered.                           *)

(* Every step keeps the entities that plans name (ScenarioCatalog).          *)
LEMMA EntitiesStandStep ==
    ASSUME EntitiesStand, [Next]_vars
    PROVE  EntitiesStand'
<1> USE DEF EntitiesStand, Registered, EntityReference
<1>1. CASE UNCHANGED regVars
  BY <1>1 DEF regVars
<1>2. CASE \E d \in Descriptors : Register(d)
  BY <1>2 DEF Register
<1>3. CASE \E e \in EntityOffers : RegisterEntity(e)
  BY <1>3 DEF RegisterEntity
<1>4. CASE \E k \in Keys : BeginRemove(k)
  BY <1>4 DEF BeginRemove
<1>5. CASE \E k \in Keys : EndRemove(k)
  BY <1>5 DEF EndRemove, MayRemove
<1>6. CASE \E id \in EntityIds : BeginRemoveEntity(id)
  BY <1>6 DEF BeginRemoveEntity
<1>7. CASE \E id \in EntityIds : EndRemoveEntity(id)
  BY <1>7 DEF EndRemoveEntity
<1>8. QED
  BY <1>1, <1>2, <1>3, <1>4, <1>5, <1>6, <1>7
  DEF Next, vars, RegistryStep, CreateDraft, UpdateDraft, ValidateDraft, RecordSimulation,
      PublishDraft, RollbackToVersion, SetScenarioStatus, Activate

(* An entity never refers to a capability that is gone, whenever it is       *)
(* registered between the two looks of Registry.Remove.                      *)
THEOREM EntitiesAlwaysStand == Spec => []EntitiesStand
<1>1. Init => EntitiesStand
  BY DEF Init, RegistryInit, EntitiesStand
<1>2. QED
  BY <1>1, EntitiesStandStep, PTL DEF Spec

-----------------------------------------------------------------------------
(* The index is that of the plans that run.                                  *)

(* A sequence with one more element.                                         *)
LEMMA AppendIs ==
    ASSUME NEW q, IsSequence(q), NEW x
    PROVE  /\ IsSequence(Append(q, x)) /\ Len(q) \in Nat /\ Len(Append(q, x)) = Len(q) + 1
           /\ DOMAIN q = 1 .. Len(q) /\ DOMAIN Append(q, x) = 1 .. (Len(q) + 1)
           /\ \A i \in 1 .. Len(q) : Append(q, x)[i] = q[i]
           /\ Append(q, x)[Len(q) + 1] = x
<1>1. PICK S : q \in Seq(S)
  BY DEF IsSequence
<1>2. q \in Seq(S \cup {x}) /\ x \in S \cup {x}
  BY <1>1
<1>3. Append(q, x) \in Seq(S \cup {x})
  BY <1>2
<1> QED
  BY <1>2, <1>3 DEF IsSequence

(* A sequence with one of its elements changed.                              *)
LEMMA ChangeIs ==
    ASSUME NEW q, IsSequence(q), NEW r \in DOMAIN q, NEW x
    PROVE  LET new == [q EXCEPT ![r] = x] IN
           /\ IsSequence(new) /\ Len(new) = Len(q) /\ Len(q) \in Nat
           /\ DOMAIN q = 1 .. Len(q) /\ DOMAIN new = DOMAIN q
           /\ \A i \in DOMAIN q : new[i] = IF i = r THEN x ELSE q[i]
<1>1. PICK S : q \in Seq(S)
  BY DEF IsSequence
<1>2. q \in Seq(S \cup {x})
  BY <1>1
<1>3. [q EXCEPT ![r] = x] \in Seq(S \cup {x}) /\ Len([q EXCEPT ![r] = x]) = Len(q)
  BY <1>2
<1> QED
  BY <1>2, <1>3 DEF IsSequence

(* A record can be told from none.                                           *)
LEMMA RecordIsThere == \A rec : IsRecord(rec) => rec # None
  BY DEF IsRecord, None

(* An activation leaves the index of what it activates.                      *)
LEMMA ActivationAgrees ==
    ASSUME IndexInv, NEW s \in Scenarios, NEW rec, IsRecord(rec), records' = [records EXCEPT ![s] = rec],
           NEW manifest, Activate(s, manifest), rec.revs[rec.active].manifest = manifest
    PROVE  IndexInv'
<1> USE DEF Activate, IndexInv, Recorded
<1>1. Recorded'
  BY DEF Exists
<1>2. IndexAgrees'
  BY DEF IndexAgrees, Exists, Revs
<1> QED
  BY <1>1, <1>2

(* A change of a record that leaves which revision is active, and this one   *)
(* as it is if it is published, leaves the index right.                      *)
LEMMA ChangeAgrees ==
    ASSUME IndexInv, NEW s \in Scenarios, Exists(s), NEW rec, IsRecord(rec),
           records' = [records EXCEPT ![s] = rec], UNCHANGED <<index, places, unindexed>>,
           rec.active = records[s].active,
           rec.active # 0 /\ rec.revs[rec.active].state = "published" =>
               rec.revs[rec.active] = Revs(s)[records[s].active]
    PROVE  IndexInv'
<1> USE DEF IndexInv, Recorded
<1>1. Recorded'
  BY DEF Exists
<1>2. IndexAgrees'
  BY DEF IndexAgrees, Exists, Revs
<1> QED
  BY <1>1, <1>2

(* A first draft, and one more (Catalog.CreateDraft).                        *)
LEMMA CreateAgrees ==
    ASSUME IndexInv, NEW s \in Scenarios, NEW doc \in Documents, CreateDraft(s, doc)
    PROVE  IndexInv'
<1>1. IsRevision(Draft(doc)) /\ UNCHANGED <<index, places, unindexed>>
  BY DEF IsRevision, Draft, CreateDraft
<1>2. CASE Exists(s)
  <2> DEFINE rec == [records[s] EXCEPT !.revs = Append(@, Draft(doc)), !.draft = Len(Revs(s)) + 1]
  <2>a. IsRecord(records[s])
    BY <1>2 DEF IndexInv, Recorded
  <2>b. rec = Drafted(s, doc)
    BY <1>2 DEF Drafted
  <2>1. IsRecord(records[s]) /\ records' = [records EXCEPT ![s] = rec]
    BY <2>a, <2>b DEF CreateDraft
  <2>2. rec.revs = Append(Revs(s), Draft(doc)) /\ rec.active = records[s].active
        /\ DOMAIN rec = DOMAIN records[s]
    BY <2>1 DEF IsRecord, Revs
  <2>3. IsRecord(rec) /\ (rec.active # 0 => rec.revs[rec.active] = Revs(s)[records[s].active])
    BY <1>1, <2>1, <2>2, AppendIs DEF IsRecord, Revs
  <2> HIDE DEF rec
  <2> QED
    BY <1>1, <1>2, <2>1, <2>2, <2>3, ChangeAgrees
<1>3. CASE ~Exists(s)
  <2> DEFINE rec == [revs |-> <<Draft(doc)>>, active |-> 0, version |-> 0, draft |-> 1, status |-> "disabled"]
  <2>1. records' = [records EXCEPT ![s] = rec]
    BY <1>3 DEF CreateDraft, Drafted
  <2>2. IsSequence(<<Draft(doc)>>)
    <3>1. <<Draft(doc)>> \in Seq({Draft(doc)})
      OBVIOUS
    <3> QED
      BY <3>1 DEF IsSequence
  <2>3. IsRecord(rec) /\ rec.active = 0
    BY <1>1, <2>2 DEF IsRecord
  <2> HIDE DEF rec
  <2>4. Recorded'
    BY <1>1, <2>1, <2>3 DEF IndexInv, Recorded, Exists
  <2>5. IndexAgrees'
    BY <1>1, <2>1, <2>3 DEF IndexInv, Recorded, IndexAgrees, Exists, Revs
  <2> QED
    BY <2>4, <2>5 DEF IndexInv
<1> QED
  BY <1>2, <1>3

(* A revision edited, validated or simulated is not published after it.      *)
LEMMA RevisionAgrees ==
    ASSUME IndexInv, NEW s \in Scenarios, NEW r, Exists(s), r \in DOMAIN Revs(s), NEW rev,
           IsRevision(rev), rev.state # "published", Change(s, r, rev), UNCHANGED <<index, places, unindexed>>
    PROVE  IndexInv'
<1> DEFINE rec == [records[s] EXCEPT !.revs = [@ EXCEPT ![r] = rev]]
<1>1. IsRecord(records[s]) /\ records' = [records EXCEPT ![s] = rec]
  BY DEF IndexInv, Recorded, Change
<1>2. rec.revs = [Revs(s) EXCEPT ![r] = rev] /\ rec.active = records[s].active
      /\ DOMAIN rec = DOMAIN records[s]
  BY <1>1 DEF IsRecord, Revs
<1>3. IsSequence(Revs(s))
  BY <1>1 DEF IsRecord, Revs
<1>4. IsRecord(rec)
  BY <1>1, <1>2, <1>3, ChangeIs DEF IsRecord, Revs
<1>5. rec.active # 0 /\ rec.revs[rec.active].state = "published" =>
          rec.revs[rec.active] = Revs(s)[records[s].active]
  BY <1>1, <1>2, <1>3, ChangeIs DEF IsRecord, Revs
<1> HIDE DEF rec
<1> QED
  BY <1>1, <1>2, <1>4, <1>5, ChangeAgrees

(* A publication (Catalog.PublishDraft).                                     *)
LEMMA PublishAgrees ==
    ASSUME IndexInv, NEW s \in Scenarios, NEW r, PublishDraft(s, r)
    PROVE  IndexInv'
<1> DEFINE old == Revs(s)[r]
           manifest == Compile(old.doc)
           next == records[s].version + 1
           rev == Published(old, next, manifest)
           rec == [records[s] EXCEPT !.revs[r] = rev, !.active = r, !.version = next, !.draft = 0,
                                     !.status = "active"]
<1>1. /\ IsRecord(records[s]) /\ records' = [records EXCEPT ![s] = rec] /\ Activate(s, manifest)
      /\ r \in DOMAIN Revs(s)
  BY DEF IndexInv, Recorded, PublishDraft
<1>2. IsRevision(rev) /\ rev.manifest = manifest
  BY <1>1 DEF IsRecord, IsRevision, Published, Revs
<1>3. rec.revs = [Revs(s) EXCEPT ![r] = rev] /\ rec.active = r /\ DOMAIN rec = DOMAIN records[s]
  BY <1>1 DEF IsRecord, Revs
<1>4. IsSequence(Revs(s))
  BY <1>1 DEF IsRecord, Revs
<1> HIDE DEF rev, rec, manifest
<1>5. IsRecord(rec) /\ rec.revs[rec.active].manifest = manifest
  BY <1>1, <1>2, <1>3, <1>4, ChangeIs DEF IsRecord, Revs
<1> QED
  BY <1>1, <1>5, ActivationAgrees

(* A rollback to a version published before (Catalog.RollbackToVersion).     *)
LEMMA RollbackAgrees ==
    ASSUME IndexInv, NEW s \in Scenarios, NEW v, RollbackToVersion(s, v)
    PROVE  IndexInv'
<1>1. PICK r \in GetVersion(s, v) :
        records' = [records EXCEPT ![s] = RolledBack(@, r)] /\ Activate(s, Revs(s)[r].manifest)
  BY DEF RollbackToVersion
<1> DEFINE rec == RolledBack(records[s], r)
<1>2. IsRecord(records[s]) /\ records' = [records EXCEPT ![s] = rec] /\ r \in DOMAIN Revs(s)
  BY <1>1 DEF IndexInv, Recorded, RollbackToVersion, GetVersion
<1>3. rec.revs = Revs(s) /\ rec.active = r /\ DOMAIN rec = DOMAIN records[s]
  BY <1>2 DEF IsRecord, RolledBack, Revs
<1>4. IsSequence(Revs(s))
  BY <1>2 DEF IsRecord, Revs
<1>5. DOMAIN Revs(s) = 1 .. Len(Revs(s)) /\ Len(Revs(s)) \in Nat
  BY <1>4 DEF IsSequence
<1>6. IsRecord(rec)
  BY <1>2, <1>3, <1>5 DEF IsRecord, Revs
<1> HIDE DEF rec
<1> QED
  BY <1>1, <1>2, <1>3, <1>6, ActivationAgrees

(* A scenario that is archived leaves the index (Catalog.SetScenarioStatus). *)
LEMMA StatusAgrees ==
    ASSUME IndexInv, NEW s \in Scenarios, NEW status, SetScenarioStatus(s, status)
    PROVE  IndexInv'
<1> DEFINE rec == [records[s] EXCEPT !.status = status]
<1>1. Exists(s) /\ IsRecord(records[s]) /\ records' = [records EXCEPT ![s] = rec]
  BY DEF IndexInv, Recorded, SetScenarioStatus
<1>2. rec.revs = Revs(s) /\ rec.active = records[s].active /\ DOMAIN rec = DOMAIN records[s]
  BY <1>1 DEF IsRecord, Revs
<1>3. IsRecord(rec)
  BY <1>1, <1>2 DEF IsRecord, Revs
<1> HIDE DEF rec
<1>4. CASE status = "archived"
  <2>1. Recorded'
    BY <1>1, <1>3, <1>4 DEF IndexInv, Recorded, SetScenarioStatus, Exists
  <2>2. IndexAgrees'
    BY <1>1, <1>3, <1>4 DEF IndexInv, Recorded, SetScenarioStatus, IndexAgrees, Exists, Revs
  <2> QED
    BY <2>1, <2>2 DEF IndexInv
<1>5. CASE status # "archived"
  BY <1>1, <1>2, <1>3, <1>5, ChangeAgrees DEF SetScenarioStatus
<1> QED
  BY <1>4, <1>5

(* Every step keeps the index right.                                         *)
LEMMA IndexStep == ASSUME IndexInv, [Next]_vars PROVE IndexInv'
<1>1. CASE UNCHANGED <<records, index, places, unindexed>>
  BY <1>1 DEF IndexInv, Recorded, IndexAgrees, Exists, Revs
<1>2. CASE UNCHANGED vars \/ RegistryStep
  BY <1>1, <1>2 DEF vars, catVars, RegistryStep
<1>3. ASSUME NEW s \in Scenarios, NEW r \in 1 .. MaxRevisions, NEW doc \in Documents, UpdateDraft(s, r, doc)
      PROVE  IndexInv'
  <2> DEFINE rev == [Revs(s)[r] EXCEPT !.doc = doc, !.state = "draft", !.manifest = None]
  <2>1. Exists(s) /\ r \in DOMAIN Revs(s) /\ Change(s, r, rev) /\ UNCHANGED <<index, places, unindexed>>
    BY <1>3 DEF UpdateDraft
  <2>2. IsRevision(rev) /\ rev.state # "published"
    BY <2>1 DEF IndexInv, Recorded, IsRecord, IsRevision, Revs
  <2> HIDE DEF rev
  <2> QED
    BY <2>1, <2>2, RevisionAgrees
<1>4. ASSUME NEW s \in Scenarios, NEW r \in 1 .. MaxRevisions, ValidateDraft(s, r)
      PROVE  IndexInv'
  <2> DEFINE rev == [Revs(s)[r] EXCEPT !.state = "validated", !.manifest = Compile(Revs(s)[r].doc)]
  <2>1. Exists(s) /\ r \in DOMAIN Revs(s) /\ Change(s, r, rev) /\ UNCHANGED <<index, places, unindexed>>
    BY <1>4 DEF ValidateDraft
  <2>2. IsRevision(rev) /\ rev.state # "published"
    BY <2>1 DEF IndexInv, Recorded, IsRecord, IsRevision, Revs
  <2> HIDE DEF rev
  <2> QED
    BY <2>1, <2>2, RevisionAgrees
<1>5. ASSUME NEW s \in Scenarios, NEW r \in 1 .. MaxRevisions, RecordSimulation(s, r)
      PROVE  IndexInv'
  <2> DEFINE rev == [Revs(s)[r] EXCEPT !.state = "simulated"]
  <2>1. Exists(s) /\ r \in DOMAIN Revs(s) /\ Change(s, r, rev) /\ UNCHANGED <<index, places, unindexed>>
    BY <1>5 DEF RecordSimulation
  <2>2. IsRevision(rev) /\ rev.state # "published"
    BY <2>1 DEF IndexInv, Recorded, IsRecord, IsRevision, Revs
  <2> HIDE DEF rev
  <2> QED
    BY <2>1, <2>2, RevisionAgrees
<1> QED
  BY <1>2, <1>3, <1>4, <1>5, CreateAgrees, PublishAgrees, RollbackAgrees, StatusAgrees DEF Next

(* What the registry and the catalog hold of uses is so: entities refer to   *)
(* capabilities that are registered, and the index is that of the plans the  *)
(* scenarios run (Registry.Remove and RegisterEntity; Catalog.PublishDraft,  *)
(* RollbackToVersion and SetScenarioStatus).                                 *)
THEOREM UseIsAlwaysKnown == Spec => []UseIsKnown
<1>1. Init => IndexInv
  BY DEF Init, IndexInv, Recorded, IndexAgrees, Exists
<1>2. EntitiesStand /\ IndexInv => UseIsKnown
  BY DEF UseIsKnown, IndexInv
<1>3. QED
  BY <1>1, <1>2, IndexStep, EntitiesAlwaysStand, PTL DEF Spec

-----------------------------------------------------------------------------
(* What the proof takes of the releases.                                     *)
Manifests == First \in Releases /\ Schema \in [Releases -> Nat]

Bundles == [schema : Nat, data : Nat, secrets : Nat, update : Nat]
Files == [id : Nat, schema : Nat, data : Nat]
Logs == [of : Nat, schema : Nat, data : Nat]
Making == {"secrets", "publish"}
Before == {"snapshot", "stage", "activate"} \cup Making
Placed == {"aside", "keys", "up"}
Restoring == {"restore", "place"} \cup Placed
Checkpointed == {"stage", "activate", "verify", "stop"} \cup Restoring

(* The types.                                                              *)
UpdateTypes ==
    /\ file \in Files \cup {U!None} /\ log \in Logs \cup {U!None} /\ secrets \in Nat
    /\ checkpoint \in Bundles \cup {U!None} /\ copy \in Bundles \cup {U!None}
    /\ image \in Releases /\ from \in Releases /\ to \in Releases
    /\ process \in {"down", "starting", "serving"} /\ opened \in Nat
    /\ view \in [schema : Nat, data : Nat]
    /\ inventory \in [version : Releases, schema : Nat] \cup {U!None}
    /\ pc \in {"idle", "verify", "stop"} \cup Before \cup Restoring
    /\ updates \in Nat /\ writes \in Nat /\ files \in Nat /\ troubles \in Nat

(* No file is numbered that was not made.                                    *)
Numbered ==
    /\ file # U!None => file.id <= files
    /\ log # U!None => log.of <= files
    /\ opened <= files

(* From the step on that publishes it, the checkpoint is of this update.     *)
OwnCheckpoint ==
    /\ pc \in Making => copy # U!None /\ copy.update = updates /\ checkpoint = U!None
    /\ pc \in Checkpointed => checkpoint # U!None /\ checkpoint.update = updates

(* Where the target could be stopped nobody touches what is put back.        *)
PutBack ==
    pc \in Restoring /\ stopped =>
        /\ ~wanted /\ process = "down"
        /\ pc \in Placed => file # U!None /\ U!Content(file) = U!Content(checkpoint)
        /\ pc = "up" /\ checkpoint.secrets # 0 => secrets = checkpoint.secrets

(* Whatever is read, or can be read next, the release in the container knows;*)
(* what was planned from and copied, the old one knows.                      *)
Known ==
    /\ pc \in Restoring => stopped
    /\ process # "down" => file # U!None /\ opened = file.id /\ view.schema <= Schema[image]
    /\ process = "serving" => view.schema >= Schema[image]
    /\ file # U!None => U!Read(file, log).schema <= Schema[image]
    /\ inventory # U!None => inventory.schema = Schema[inventory.version]
    /\ pc # "idle" => image \in {from, to} /\ Schema[from] <= Schema[to]
    /\ pc \in Before => image = from
    /\ pc \in Making => copy.schema <= Schema[from]
    /\ pc \in Checkpointed => checkpoint.schema <= Schema[from]
    /\ pc \in Placed => file # U!None /\ U!Read(file, log).schema <= Schema[from]

UpdateInv ==
    /\ UpdateTypes /\ Numbered /\ OwnCheckpoint /\ PutBack
    /\ ~misplanned /\ ~unstopped => Known

-----------------------------------------------------------------------------
(* None can be told from the records it stands in for.                     *)
LEMMA NoneIsNoRecord ==
    /\ U!None \notin Files /\ U!None \notin Logs /\ U!None \notin Bundles
    /\ U!None \notin [version : Releases, schema : Nat]
<1>1. DOMAIN U!None = {"none"}
  BY DEF U!None
<1>2. /\ \A f \in Files : DOMAIN f = {"id", "schema", "data"}
      /\ \A l \in Logs : DOMAIN l = {"of", "schema", "data"}
      /\ \A b \in Bundles : DOMAIN b = {"schema", "data", "secrets", "update"}
      /\ \A i \in [version : Releases, schema : Nat] : DOMAIN i = {"version", "schema"}
  BY DEF Files, Logs, Bundles
<1> QED
  BY <1>1, <1>2

(* What a release reads: the log counts only for the file it belongs to.   *)
LEMMA ReadIs ==
    ASSUME NEW f \in Files, NEW l \in Logs \cup {U!None}
    PROVE  /\ U!Read(f, l) \in [schema : Nat, data : Nat]
           /\ l = U!None => U!Read(f, l).schema = f.schema
           /\ l # U!None /\ l.of # f.id => U!Read(f, l).schema = 0
           /\ l # U!None /\ l.of = f.id => U!Read(f, l).schema = l.schema
BY NoneIsNoRecord DEF U!Read, U!Content, U!Mixed, Files, Logs

(* A process that closes its database, or is killed.                         *)
LEMMA StopIs ==
    ASSUME Manifests, UpdateTypes, Numbered, U!Closes \/ U!Killed
    PROVE  /\ process' = "down" /\ UNCHANGED <<opened, view>>
           /\ file' \in Files \cup {U!None} /\ log' \in Logs \cup {U!None}
           /\ file' # U!None => file'.id <= files
           /\ log' # U!None => log'.of <= files
           /\ file = U!None => file' = U!None
           /\ process = "down" => UNCHANGED <<file, log>>
           /\ Known /\ file' # U!None => U!Read(file', log').schema <= Schema[image]
<1>1. CASE UNCHANGED <<file, log>>
  BY <1>1 DEF U!Closes, U!Killed, UpdateTypes, Numbered, Known
<1>2. CASE /\ process = "serving" /\ file # U!None /\ opened = file.id /\ process' = "down"
           /\ UNCHANGED <<opened, view>> /\ log' = U!None
           /\ file' = [id |-> opened, schema |-> view.schema, data |-> view.data]
  <2>1. file' \in Files /\ file'.id = opened /\ file'.schema = view.schema
    BY <1>2 DEF UpdateTypes, Files
  <2>2. U!Read(file', log').schema = view.schema
    BY <1>2, <2>1, ReadIs
  <2> QED
    BY <1>2, <2>1, <2>2 DEF Numbered, Known
<1> QED
  BY <1>1, <1>2 DEF U!Closes, U!Killed

(* A step of Sentinel that leaves the updater's state alone.                 *)
LEMMA OpenStep == ASSUME Manifests, UpdateInv, U!Open PROVE UpdateInv'
<1> USE DEF U!updater, U!past
<1>1. /\ UpdateTypes /\ Numbered /\ process = "down" /\ wanted /\ process' = "starting"
      /\ opened' = file'.id /\ view' = U!Read(file', log)
      /\ UNCHANGED <<log, secrets, checkpoint, image, wanted, U!updater, updates, writes, troubles, U!past>>
  BY DEF UpdateInv, U!Open
<1>2. /\ file' \in Files /\ files' \in Nat /\ file'.id <= files' /\ files <= files'
      /\ file # U!None => file' = file /\ files' = files
      /\ file = U!None => file'.schema = 0 /\ (log # U!None => log.of # file'.id)
  <2>1. CASE file = U!None
    <3>1. file' = [id |-> files + 1, schema |-> 0, data |-> 0] /\ files' = files + 1
      BY <2>1 DEF U!Open
    <3> QED
      BY <1>1, <2>1, <3>1 DEF UpdateTypes, Numbered, Files, Logs
  <2>2. CASE file # U!None
    BY <1>1, <2>2 DEF U!Open, UpdateTypes, Numbered, Files
  <2> QED
    BY <2>1, <2>2
<1>3. view' \in [schema : Nat, data : Nat] /\ (file = U!None => view'.schema = 0)
  BY <1>1, <1>2, ReadIs DEF UpdateTypes
<1>4. UpdateTypes'
  BY <1>1, <1>2, <1>3 DEF UpdateTypes, Files
<1>5. Numbered'
  BY <1>1, <1>2 DEF UpdateTypes, Numbered, Logs, Files
<1>6. OwnCheckpoint' /\ PutBack'
  BY <1>1 DEF UpdateInv, OwnCheckpoint, PutBack
<1>7. ASSUME Known, ~misplanned, ~unstopped PROVE Known'
  <2>1. file' # U!None /\ view'.schema <= Schema[image] /\ Schema[image] \in Nat
    BY <1>1, <1>2, <1>3, <1>7, NoneIsNoRecord DEF Known, UpdateTypes, Manifests
  <2>2. pc \notin Restoring
    BY <1>1, <1>7 DEF Known, UpdateInv, PutBack
  <2> QED
    BY <1>1, <1>2, <1>7, <2>1, <2>2 DEF Known, Restoring, Placed
<1> QED
  BY <1>1, <1>4, <1>5, <1>6, <1>7 DEF UpdateInv

(* A commit of the process that is up.                                       *)
LEMMA CommitStep ==
    ASSUME Manifests, UpdateInv, process # "down", NEW v \in [schema : Nat, data : Nat], U!Commit(v),
           UNCHANGED <<file, secrets, checkpoint, image, wanted, opened, U!updater, U!past>>,
           UNCHANGED <<process, updates, files, troubles>>, writes' \in Nat,
           v.schema >= view.schema, Known => v.schema <= Schema[image]
    PROVE  UpdateInv'
<1> USE DEF U!updater, U!past
<1>1. /\ log' \in Logs /\ log'.of = opened /\ log'.schema = v.schema /\ view' = v
  BY DEF U!Commit, UpdateInv, UpdateTypes, Logs
<1>2. UpdateTypes' /\ Numbered'
  BY <1>1 DEF UpdateInv, UpdateTypes, Numbered
<1>3. OwnCheckpoint' /\ PutBack'
  BY DEF UpdateInv, OwnCheckpoint, PutBack
<1>4. ASSUME Known, ~misplanned, ~unstopped PROVE Known'
  <2>1. file \in Files /\ opened = file.id /\ Schema[image] \in Nat /\ view.schema \in Nat
    BY <1>4 DEF Known, UpdateInv, UpdateTypes, Manifests
  <2>2. U!Read(file, log').schema = v.schema
    BY <1>1, <2>1, NoneIsNoRecord, ReadIs
  <2>3. pc \notin Restoring
    BY <1>4 DEF Known, UpdateInv, PutBack
  <2> QED
    BY <1>1, <1>4, <2>1, <2>2, <2>3 DEF Known, Restoring, Placed
<1> QED
  BY <1>2, <1>3, <1>4 DEF UpdateInv

(* Sentinel writes: it migrates when it starts, and stores data.           *)
LEMMA MigrateStep == ASSUME Manifests, UpdateInv, U!Migrate PROVE UpdateInv'
<1> USE DEF U!updater, U!past, U!counts
<1>1. view \in [schema : Nat, data : Nat] /\ Schema[image] \in Nat /\ writes \in Nat
  BY DEF UpdateInv, UpdateTypes, Manifests
<1>2. CASE view.schema < Schema[image]
  <2> DEFINE v == [view EXCEPT !.schema = @ + 1]
  <2>1. v \in [schema : Nat, data : Nat] /\ v.schema = view.schema + 1
    BY <1>1
  <2>2. U!Commit(v) /\ UNCHANGED process
    BY <1>2 DEF U!Migrate
  <2> HIDE DEF v
  <2> QED
    BY <1>1, <1>2, <2>1, <2>2, CommitStep DEF U!Migrate
<1>3. CASE ~(view.schema < Schema[image])
  <2>1. /\ process = "starting" /\ process' = "serving"
        /\ UNCHANGED <<view, log, file, secrets, checkpoint, image, wanted, opened, U!updater, U!counts, U!past>>
    BY <1>3 DEF U!Migrate
  <2>2. UpdateTypes' /\ Numbered' /\ OwnCheckpoint' /\ PutBack'
    BY <2>1 DEF UpdateInv, UpdateTypes, Numbered, OwnCheckpoint, PutBack
  <2>3. ASSUME Known, ~misplanned, ~unstopped PROVE Known'
    BY <1>1, <1>3, <2>1, <2>3 DEF Known
  <2> QED
    BY <2>1, <2>2, <2>3 DEF UpdateInv
<1> QED
  BY <1>2, <1>3

(* The release writes its data (ReleaseUpdate).                              *)
LEMMA WriteStep == ASSUME Manifests, UpdateInv, U!Write PROVE UpdateInv'
<1> USE DEF U!updater, U!past
<1>1. view \in [schema : Nat, data : Nat] /\ Schema[image] \in Nat /\ writes' \in Nat
  BY DEF UpdateInv, UpdateTypes, Manifests, U!Write
<1>2. CASE U!Commit([view EXCEPT !.data = writes']) /\ UNCHANGED secrets
  <2> DEFINE v == [view EXCEPT !.data = writes']
  <2>1. v \in [schema : Nat, data : Nat] /\ v.schema = view.schema
    BY <1>1
  <2>2. U!Commit(v)
    BY <1>2
  <2> HIDE DEF v
  <2>3. Known => v.schema <= Schema[image]
    BY <2>1 DEF Known, U!Write
  <2> QED
    BY <1>1, <1>2, <2>1, <2>2, <2>3, CommitStep DEF U!Write
<1>3. CASE secrets' = writes' /\ UNCHANGED <<view, log>>
  <2>1. /\ process = "serving"
        /\ UNCHANGED <<file, checkpoint, image, wanted, process, opened, U!updater, updates, files, troubles, U!past>>
    BY DEF U!Write
  <2>2. UpdateTypes' /\ Numbered' /\ OwnCheckpoint' /\ PutBack'
    BY <1>1, <1>3, <2>1 DEF UpdateInv, UpdateTypes, Numbered, OwnCheckpoint, PutBack
  <2>3. Known => Known'
    BY <1>3, <2>1 DEF Known
  <2> QED
    BY <2>1, <2>2, <2>3 DEF UpdateInv
<1> QED
  BY <1>2, <1>3 DEF U!Write

(* A step that stops the container, or leaves it, and makes it one of        *)
(* release; the updater goes on or ends.                                     *)
LEMMA StopStep ==
    ASSUME Manifests, UpdateInv, U!Closes \/ U!Killed,
           NEW release \in Releases, image' = release,
           UNCHANGED <<secrets, checkpoint, inventory, from, to, copy>>,
           UNCHANGED <<updates, writes, files, misplanned>>, troubles' \in Nat,
           unstopped => unstopped',
           pc' \in {"idle", "verify", "stop"} \cup Before \cup Restoring,
           pc' \in Making => pc = pc',
           pc' \in Checkpointed => pc \in Checkpointed,
           pc' \in Placed => FALSE,
           pc' \in Restoring /\ stopped' => ~wanted',
           pc' \in Restoring => stopped' \/ unstopped',
           pc' # "idle" => pc # "idle",
           Known => (pc' # "idle" => release \in {from, to}) /\ (pc' \in Before => release = from),
           Known => file = U!None \/ Schema[image] <= Schema[release] \/ (pc = "up" /\ release = from)
    PROVE  UpdateInv'
<1>1. /\ process' = "down" /\ UNCHANGED <<opened, view>>
      /\ file' \in Files \cup {U!None} /\ log' \in Logs \cup {U!None}
      /\ file' # U!None => file'.id <= files
      /\ log' # U!None => log'.of <= files
      /\ file = U!None => file' = U!None
      /\ process = "down" => UNCHANGED <<file, log>>
      /\ Known /\ file' # U!None => U!Read(file', log').schema <= Schema[image]
  BY StopIs DEF UpdateInv
<1>2. UpdateTypes' /\ Numbered'
  BY <1>1 DEF UpdateInv, UpdateTypes, Numbered
<1>3. OwnCheckpoint' /\ PutBack'
  BY <1>1 DEF UpdateInv, OwnCheckpoint, PutBack, Placed
<1>4. ASSUME Known, ~misplanned, ~unstopped, ~unstopped' PROVE Known'
  <2>1. file' # U!None => U!Read(file', log').schema <= Schema[release]
    <3> SUFFICES ASSUME file' # U!None PROVE U!Read(file', log').schema <= Schema[release]
      OBVIOUS
    <3>1. U!Read(file', log').schema \in Nat /\ Schema[image] \in Nat /\ Schema[release] \in Nat
      BY <1>1, ReadIs DEF UpdateInv, UpdateTypes, Manifests
    <3>2. CASE Schema[image] <= Schema[release]
      BY <1>1, <1>4, <3>1, <3>2
    <3>3. CASE pc = "up" /\ release = from
      <4>1. UNCHANGED <<file, log>>
        BY <1>1, <1>4, <3>3 DEF Known, UpdateInv, PutBack, Restoring, Placed
      <4> QED
        BY <1>4, <3>3, <4>1 DEF Known, Placed
    <3> QED
      BY <1>1, <1>4, <3>2, <3>3
  <2> QED
    BY <1>1, <1>4, <2>1 DEF Known, Before
<1> QED
  BY <1>2, <1>3, <1>4 DEF UpdateInv

(* A step of the updater that does not touch the container or the disk.      *)
LEMMA PlanStep ==
    ASSUME UpdateInv, UNCHANGED <<file, log, secrets, U!container, inventory>>,
           checkpoint' \in Bundles \cup {U!None}, copy' \in Bundles \cup {U!None},
           from' \in Releases, to' \in Releases,
           pc' \in {"idle", "verify", "stop"} \cup Before, updates' \in Nat, troubles' \in Nat,
           UNCHANGED <<writes, files>>, misplanned => misplanned', unstopped => unstopped',
           OwnCheckpoint',
           Known /\ ~misplanned' =>
             /\ pc' # "idle" => image \in {from', to'} /\ Schema[from'] <= Schema[to']
             /\ pc' \in Before => image = from'
             /\ pc' \in Making => copy'.schema <= Schema[from']
             /\ pc' \in Checkpointed => checkpoint'.schema <= Schema[from']
    PROVE  UpdateInv'
<1> USE DEF U!container
<1>1. UpdateTypes' /\ Numbered'
  BY DEF UpdateInv, UpdateTypes, Numbered
<1>2. PutBack'
  BY DEF PutBack, Restoring, Placed, Before, Making
<1>3. Known /\ ~misplanned' => Known'
  BY DEF Known, Restoring, Placed, Before, Making
<1> QED
  BY <1>1, <1>2, <1>3 DEF UpdateInv

(* The updater looks, plans, copies and publishes the checkpoint before it *)
(* touches the container.                                                  *)
LEMMA InventoryStep == ASSUME Manifests, UpdateInv, U!Inventory PROVE UpdateInv'
<1> USE DEF U!disk, U!container, U!counts, U!past
<1>1. /\ inventory' \in [version : Releases, schema : Nat]
      /\ inventory'.version = image /\ inventory'.schema = view.schema
  BY DEF U!Inventory, UpdateInv, UpdateTypes
<1>2. UpdateTypes' /\ Numbered' /\ OwnCheckpoint' /\ PutBack'
  BY <1>1 DEF U!Inventory, UpdateInv, UpdateTypes, Numbered, OwnCheckpoint, PutBack
<1>3. Known => Known'
  <2> SUFFICES ASSUME Known PROVE Known'
    OBVIOUS
  <2>1. view.schema = Schema[image]
    BY DEF Known, U!Inventory, UpdateInv, UpdateTypes, Manifests
  <2> QED
    BY <1>1, <2>1 DEF Known, U!Inventory
<1> QED
  BY <1>2, <1>3 DEF U!Inventory, UpdateInv

(* An update begins (ReleaseUpdate).                                         *)
LEMMA ApplyStep == ASSUME Manifests, UpdateInv, NEW r \in Releases, U!Apply(r) PROVE UpdateInv'
<1>1. inventory \in [version : Releases, schema : Nat] /\ updates' \in Nat
  BY NoneIsNoRecord DEF U!Apply, UpdateInv, UpdateTypes
<1>a. misplanned => misplanned'
  BY Zenon DEF U!Apply
<1>2. OwnCheckpoint'
  BY DEF U!Apply, OwnCheckpoint, Making, Checkpointed, Restoring, Placed
<1>3. Known /\ ~misplanned' => Schema[image] <= Schema[r]
  <2> SUFFICES ASSUME Known, ~misplanned' PROVE Schema[image] <= Schema[r]
    OBVIOUS
  <2>1. inventory = [version |-> image, schema |-> view.schema]
    BY DEF U!Apply
  <2> QED
    BY <2>1 DEF Known, U!Apply, U!Compatible
<1> QED
  BY <1>1, <1>a, <1>2, <1>3, PlanStep
     DEF U!Apply, U!disk, U!container, UpdateInv, UpdateTypes, Before, Making, Checkpointed, Restoring, Placed

(* The database is copied (ReleaseUpdate).                                   *)
LEMMA SnapshotStep == ASSUME Manifests, UpdateInv, U!Snapshot PROVE UpdateInv'
<1> USE DEF U!disk, U!container, U!past
<1>1. /\ pc = "snapshot" /\ UNCHANGED <<U!disk, U!container, updates, writes, files, U!past, inventory, from, to>>
      /\ troubles' \in Nat
  BY DEF U!Snapshot, U!Ends, UpdateInv, UpdateTypes
<1>2. CASE pc' = "idle" /\ copy' = copy
  BY <1>1, <1>2, PlanStep DEF UpdateInv, UpdateTypes, OwnCheckpoint, Making, Checkpointed, Restoring, Placed, Before
<1>3. CASE /\ U!MayCreate /\ process = "serving" /\ pc' = "secrets"
           /\ copy' = [schema |-> view.schema, data |-> view.data, secrets |-> 0, update |-> updates]
  <2>1. copy' \in Bundles /\ copy'.schema = view.schema /\ copy'.update = updates
    BY <1>3 DEF UpdateInv, UpdateTypes, Bundles
  <2>2. OwnCheckpoint'
    BY <1>1, <1>3, <2>1, NoneIsNoRecord DEF OwnCheckpoint, U!MayCreate, Making, Checkpointed, Restoring, Placed
  <2>3. Known => copy'.schema <= Schema[from] /\ image = from /\ Schema[from] <= Schema[to]
    BY <1>1, <1>3, <2>1 DEF Known, Before
  <2> QED
    BY <1>1, <1>3, <2>1, <2>2, <2>3, PlanStep
       DEF UpdateInv, UpdateTypes, Making, Checkpointed, Restoring, Placed, Before
<1> QED
  BY <1>2, <1>3 DEF U!Snapshot, U!Ends

(* The secrets are copied (ReleaseUpdate).                                   *)
LEMMA CopyStep == ASSUME Manifests, UpdateInv, U!CopySecrets PROVE UpdateInv'
<1> USE DEF U!disk, U!container, U!past, U!counts
<1>1. /\ copy' \in Bundles /\ copy'.schema = copy.schema /\ copy'.update = updates /\ checkpoint = U!None
  BY DEF U!CopySecrets, UpdateInv, UpdateTypes, OwnCheckpoint, Making, Bundles
<1>2. OwnCheckpoint'
  BY <1>1, NoneIsNoRecord DEF U!CopySecrets, OwnCheckpoint, Checkpointed, Restoring, Placed
<1>3. Known => copy'.schema <= Schema[from] /\ image = from /\ Schema[from] <= Schema[to]
  BY <1>1 DEF Known, U!CopySecrets, Making, Before
<1> QED
  BY <1>1, <1>2, <1>3, PlanStep
     DEF U!CopySecrets, UpdateInv, UpdateTypes, Making, Checkpointed, Restoring, Placed, Before

(* The checkpoint is published (ReleaseUpdate).                              *)
LEMMA PublishStep == ASSUME Manifests, UpdateInv, U!PublishCheckpoint PROVE UpdateInv'
<1> USE DEF U!container, U!past, U!counts
<1>1. /\ pc = "publish" /\ checkpoint = U!None /\ copy \in Bundles /\ copy.update = updates
      /\ UNCHANGED <<file, log, secrets, U!container, U!past, inventory, from, to, copy, updates, writes, files>>
      /\ checkpoint' \in {U!None, copy} /\ troubles' \in Nat
  BY DEF U!PublishCheckpoint, U!Goes, U!Ends, U!Trouble, UpdateInv, UpdateTypes, OwnCheckpoint, Making
<1>2. \/ pc' = "idle"
      \/ pc' = "stage" /\ checkpoint' = copy
  BY <1>1 DEF U!PublishCheckpoint, U!Goes, U!Ends
<1>3. OwnCheckpoint'
  BY <1>1, <1>2, NoneIsNoRecord DEF OwnCheckpoint, Making, Checkpointed, Restoring, Placed
<1>4. Known => copy.schema <= Schema[from] /\ image = from /\ Schema[from] <= Schema[to]
  BY <1>1 DEF Known, Making, Before
<1> QED
  BY <1>1, <1>2, <1>3, <1>4, PlanStep
     DEF UpdateInv, UpdateTypes, Making, Checkpointed, Restoring, Placed, Before

(* The updater goes on to "activate" or to "stop", or ends.                  *)
LEMMA StageStep == ASSUME Manifests, UpdateInv, U!Stage \/ U!Verify PROVE UpdateInv'
<1> USE DEF U!disk, U!container, U!past, U!counts
<1>1. /\ UNCHANGED <<U!disk, U!container, U!past, inventory, from, to, copy, updates, writes, files>>
      /\ troubles' \in Nat
      /\ \/ pc' = "idle"
         \/ pc = "stage" /\ pc' = "activate"
         \/ pc = "verify" /\ pc' = "stop"
  BY DEF U!Stage, U!Verify, U!Goes, U!Ends, U!Trouble, UpdateInv, UpdateTypes
<1>2. OwnCheckpoint'
  BY <1>1 DEF UpdateInv, OwnCheckpoint, Making, Checkpointed, Restoring, Placed
<1>3. Known =>
        /\ pc' # "idle" => image \in {from, to} /\ Schema[from] <= Schema[to]
        /\ pc' \in Before => image = from
        /\ pc' \in Checkpointed => checkpoint.schema <= Schema[from]
  BY <1>1 DEF Known, Making, Checkpointed, Restoring, Placed, Before
<1>4. pc' \notin Making /\ pc' \in {"idle", "verify", "stop"} \cup Before
  BY <1>1 DEF Making, Before
<1> QED
  BY <1>1, <1>2, <1>3, <1>4, PlanStep DEF UpdateInv, UpdateTypes

(* A checkpoint is removed where no update needs it.                       *)
LEMMA RemoveStep == ASSUME Manifests, UpdateInv, U!RemoveCheckpoint PROVE UpdateInv'
<1>1. OwnCheckpoint'
  BY DEF U!RemoveCheckpoint, U!updater, OwnCheckpoint, Making, Checkpointed, Restoring, Placed
<1> QED
  BY <1>1, PlanStep
     DEF U!RemoveCheckpoint, U!container, U!updater, U!counts, U!past, UpdateInv, UpdateTypes, Before, Making,
         Checkpointed, Restoring, Placed

-----------------------------------------------------------------------------
(* The target is started over the database of the old release.             *)
LEMMA ActivateStep == ASSUME Manifests, UpdateInv, U!Activate PROVE UpdateInv'
<1>1. /\ pc = "activate" /\ UNCHANGED <<secrets, checkpoint, U!past, inventory, from, to, copy, stopped>>
      /\ UNCHANGED <<updates, writes, files>> /\ troubles' \in Nat /\ pc' \in {"verify", "stop"}
  BY DEF U!Activate, U!Goes, U!Trouble, U!counts, UpdateInv, UpdateTypes
<1>2. /\ from \in Releases /\ to \in Releases /\ image \in Releases
      /\ Known => image = from /\ Schema[from] <= Schema[to]
  BY <1>1 DEF UpdateInv, UpdateTypes, Known, Before
<1>3. pc \in Checkpointed /\ pc' \in Checkpointed /\ pc' \notin Restoring /\ pc' \notin Before \cup Making
  BY <1>1 DEF Checkpointed, Restoring, Placed, Before, Making
<1>4. CASE U!Recreated(to)
  BY <1>1, <1>2, <1>3, <1>4, StopStep DEF U!Recreated, Placed, Restoring, U!past
<1>5. CASE U!OnlyStopped
  <2>1. Schema[image] \in Nat
    BY <1>2 DEF Manifests
  <2> QED
    BY <1>1, <1>2, <1>3, <1>5, <2>1, StopStep DEF U!OnlyStopped, Placed, Restoring, U!past
<1>6. CASE U!Unmoved /\ pc' = "stop"
  BY <1>1, <1>2, <1>3, <1>6, PlanStep
     DEF U!Unmoved, U!container, U!past, UpdateInv, UpdateTypes, OwnCheckpoint, Known
<1> QED
  BY <1>4, <1>5, <1>6 DEF U!Activate, U!Goes

(* The target is stopped, if that succeeds, and what it has written set    *)
(* aside.                                                                  *)
LEMMA RollbackStep == ASSUME Manifests, UpdateInv, U!Rollback PROVE UpdateInv'
<1>1. /\ pc = "stop" /\ pc' = "restore"
      /\ UNCHANGED <<secrets, checkpoint, inventory, from, to, copy, misplanned>>
      /\ UNCHANGED <<updates, writes, files>> /\ troubles' \in Nat
      /\ image \in Releases /\ Schema[image] \in Nat
  BY DEF U!Rollback, U!Trouble, U!counts, UpdateInv, UpdateTypes, Manifests
<1>2. Known => image \in {from, to}
  BY <1>1 DEF Known
<1>3. /\ pc \in Checkpointed /\ pc' \in Checkpointed /\ pc' \in Restoring
      /\ pc' \notin Before \cup Making \cup Placed
  BY <1>1 DEF Checkpointed, Restoring, Placed, Before, Making
<1>4. CASE U!OnlyStopped /\ (stopped' \/ unstopped') /\ (unstopped => unstopped')
  BY <1>1, <1>2, <1>3, <1>4, StopStep DEF U!OnlyStopped
<1>5. CASE U!Unmoved /\ ~stopped' /\ unstopped'
  BY <1>1, <1>3, <1>5 DEF U!Unmoved, UpdateInv, UpdateTypes, Numbered, OwnCheckpoint, PutBack
<1> QED
  BY <1>4, <1>5 DEF U!Rollback

(* The old release is started over what was put back.                      *)
LEMMA StartStep == ASSUME Manifests, UpdateInv, U!StartOld PROVE UpdateInv'
<1>1. /\ pc = "up" /\ pc' = "idle"
      /\ UNCHANGED <<secrets, checkpoint, inventory, from, to, copy, U!past>>
      /\ UNCHANGED <<updates, writes, files>> /\ troubles' \in Nat
      /\ from \in Releases
  BY DEF U!StartOld, U!Ends, U!Trouble, U!counts, UpdateInv, UpdateTypes
<1>2. pc' \notin Before \cup Making \cup Checkpointed \cup Restoring \cup Placed
  BY <1>1 DEF Checkpointed, Restoring, Placed, Before, Making
<1>3. CASE U!Recreated(from)
  BY <1>1, <1>2, <1>3, StopStep DEF U!Recreated, U!past
<1>4. CASE U!Unmoved
  BY <1>1, <1>2, <1>4, PlanStep
     DEF U!Unmoved, U!container, U!past, UpdateInv, UpdateTypes, OwnCheckpoint
<1> QED
  BY <1>3, <1>4 DEF U!StartOld

(* Sentinel and the updater may die between any two steps.                 *)
LEMMA DieStep == ASSUME Manifests, UpdateInv, U!Dies PROVE UpdateInv'
<1>1. /\ UNCHANGED <<secrets, checkpoint, image, wanted, U!updater, U!past, opened, view, file, log>>
      /\ UNCHANGED <<updates, writes, files>> /\ troubles' \in Nat /\ process' = "down"
  BY DEF U!Dies, U!Killed, U!Trouble, UpdateInv, UpdateTypes
<1> QED
  BY <1>1 DEF U!updater, U!past, UpdateInv, UpdateTypes, Numbered, OwnCheckpoint, PutBack, Known

(* The updater dies, or the restore fails (ReleaseUpdate).                   *)
LEMMA UpdaterDiesStep == ASSUME Manifests, UpdateInv, U!UpdaterDies \/ U!RestoreFails PROVE UpdateInv'
<1>1. /\ UNCHANGED <<secrets, checkpoint, image, wanted, U!past, opened, view, file, log>>
      /\ UNCHANGED <<updates, writes, files, inventory, from, to, copy, stopped>>
      /\ troubles' \in Nat /\ pc' = "idle" /\ process' \in {"down", process}
  BY DEF U!UpdaterDies, U!RestoreFails, U!AfterFailure, U!Ends, U!Killed, U!Trouble, U!disk, U!container, UpdateInv, UpdateTypes
<1> QED
  BY <1>1 DEF U!past, UpdateInv, UpdateTypes, Numbered, OwnCheckpoint, PutBack, Known, Making, Checkpointed,
              Restoring, Placed, Before

(* The checkpoint is put back.                                               *)
LEMMA RestoreStep ==
    ASSUME Manifests, UpdateInv, U!MoveAside \/ U!PlaceDatabase \/ U!LeaveSecrets \/ U!MoveSecretsAside \/ U!PlaceSecrets
    PROVE  UpdateInv'
<1> USE DEF U!disk, U!container, U!past, U!counts
<1>1. /\ UNCHANGED <<log, checkpoint, U!container, U!past, inventory, from, to, copy, stopped>>
      /\ UNCHANGED <<updates, writes, troubles>>
      /\ pc \in Restoring /\ pc' \in Restoring /\ pc' # "restore" /\ pc # "up"
      /\ checkpoint \in Bundles /\ checkpoint.update = updates
  <2>1. pc \in Restoring /\ pc' \in Restoring /\ pc' # "restore" /\ pc # "up"
    BY DEF U!MoveAside, U!PlaceDatabase, U!LeaveSecrets, U!MoveSecretsAside, U!PlaceSecrets, U!Goes, Restoring, Placed
  <2>2. checkpoint # U!None /\ checkpoint.update = updates
    BY <2>1 DEF UpdateInv, OwnCheckpoint, Checkpointed
  <2> QED
    BY <2>1, <2>2 DEF U!MoveAside, U!PlaceDatabase, U!LeaveSecrets, U!MoveSecretsAside, U!PlaceSecrets, U!Goes, UpdateInv, UpdateTypes
<1>2. CASE U!MoveAside
  BY <1>1, <1>2 DEF U!MoveAside, U!Goes, UpdateInv, UpdateTypes, Numbered, OwnCheckpoint, PutBack, Known,
                    Making, Checkpointed, Restoring, Placed, Before
<1>3. CASE U!PlaceDatabase
  <2>1. /\ file' \in Files /\ file'.id = files + 1 /\ file'.schema = checkpoint.schema
        /\ file'.data = checkpoint.data /\ files' = files + 1 /\ pc' = "aside" /\ secrets' = secrets
        /\ files \in Nat
    BY <1>1, <1>3 DEF U!PlaceDatabase, U!Goes, UpdateInv, UpdateTypes, Files, Bundles
  <2>2. U!Content(file') = U!Content(checkpoint) /\ file' # U!None
    BY <2>1, NoneIsNoRecord DEF U!Content
  <2>3. UpdateTypes' /\ Numbered'
    BY <1>1, <2>1 DEF UpdateInv, UpdateTypes, Numbered, Logs, Files, Restoring, Placed
  <2>4. OwnCheckpoint' /\ PutBack'
    BY <1>1, <2>1, <2>2 DEF UpdateInv, OwnCheckpoint, PutBack, Making, Checkpointed, Restoring, Placed
  <2>5. ASSUME Known, ~misplanned, ~unstopped PROVE Known'
    <3>1. U!Read(file', log).schema <= checkpoint.schema
      <4>1. log \in Logs \cup {U!None} /\ (log # U!None => log.of # file'.id) /\ checkpoint.schema \in Nat
        BY <1>1, <2>1 DEF UpdateInv, UpdateTypes, Numbered, Logs, Bundles
      <4> QED
        BY <2>1, <4>1, ReadIs
    <3>2. /\ checkpoint.schema <= Schema[from] /\ image \in {from, to} /\ Schema[from] <= Schema[to]
          /\ process = "down"
      BY <1>1, <2>5 DEF Known, Checkpointed, UpdateInv, PutBack, Restoring, Placed
    <3>3. /\ U!Read(file', log).schema \in Nat /\ checkpoint.schema \in Nat
          /\ Schema[from] \in Nat /\ Schema[to] \in Nat
      BY <1>1, <2>1, ReadIs DEF UpdateInv, UpdateTypes, Manifests, Bundles
    <3>4. U!Read(file', log').schema <= Schema[from] /\ U!Read(file', log').schema <= Schema[image]
      BY <1>1, <3>1, <3>2, <3>3
    <3> QED
      BY <1>1, <2>1, <2>2, <2>5, <3>2, <3>4 DEF Known, Making, Checkpointed, Restoring, Placed, Before
  <2> QED
    BY <1>1, <2>3, <2>4, <2>5 DEF UpdateInv
<1>6. CASE U!LeaveSecrets
  BY <1>1, <1>6 DEF U!LeaveSecrets, U!Goes, UpdateInv, UpdateTypes, Numbered, OwnCheckpoint, PutBack, Known,
                    Making, Checkpointed, Restoring, Placed, Before
<1>4. CASE U!MoveSecretsAside
  BY <1>1, <1>4 DEF U!MoveSecretsAside, U!Goes, UpdateInv, UpdateTypes, Numbered, OwnCheckpoint, PutBack, Known,
                    Making, Checkpointed, Restoring, Placed, Before
<1>5. CASE U!PlaceSecrets
  BY <1>1, <1>5 DEF U!PlaceSecrets, U!Goes, UpdateInv, UpdateTypes, Numbered, OwnCheckpoint, PutBack, Known,
                    Making, Checkpointed, Restoring, Placed, Before, Bundles
<1> QED
  BY <1>2, <1>3, <1>4, <1>5, <1>6

(* At first the first release is installed, with its database.             *)
LEMMA UpdateInit == Manifests /\ U!Init => UpdateInv
<1> SUFFICES ASSUME Manifests, U!Init PROVE UpdateInv
  OBVIOUS
<1>1. /\ file \in Files /\ file.id = 1 /\ file.schema = Schema[First] /\ Schema[First] \in Nat
      /\ view \in [schema : Nat, data : Nat] /\ view.schema = Schema[First]
  BY DEF U!Init, Manifests, Files, U!Content
<1>2. UpdateTypes
  BY <1>1 DEF U!Init, Manifests, UpdateTypes
<1>3. U!Read(file, log).schema = Schema[First]
  BY <1>1, ReadIs DEF U!Init
<1> QED
  BY <1>1, <1>2, <1>3, NoneIsNoRecord
     DEF U!Init, UpdateInv, Numbered, OwnCheckpoint, PutBack, Known, Making, Checkpointed, Restoring, Placed, Before

(* All steps.                                                              *)
LEMMA UpdateStep == Manifests /\ UpdateInv /\ [U!Next]_(U!vars) => UpdateInv'
<1> SUFFICES ASSUME Manifests, UpdateInv, [U!Next]_(U!vars) PROVE UpdateInv'
  OBVIOUS
<1>1. CASE UNCHANGED U!vars
  BY <1>1 DEF U!vars, U!disk, U!container, U!updater, U!counts, U!past, UpdateInv, UpdateTypes, Numbered,
              OwnCheckpoint, PutBack, Known
<1> QED
  BY <1>1, OpenStep, MigrateStep, WriteStep, DieStep, InventoryStep, SnapshotStep, CopyStep, PublishStep,
     StageStep, ActivateStep, RollbackStep, RestoreStep, UpdaterDiesStep, StartStep, RemoveStep, ApplyStep
     DEF U!Next

(* No release works on a schema newer than its own, unless an update was   *)
(* planned from what was not there any more, or a target could not be      *)
(* stopped (update/manager.go: Apply, rollback; database/open.go refuses   *)
(* what it does not know).                                                 *)
THEOREM SchemasAreUnderstood ==
    ASSUME Manifests
    PROVE  U!Spec => []SchemaIsUnderstood
<1>1. UpdateInv => SchemaIsUnderstood
  BY DEF UpdateInv, Known, SchemaIsUnderstood, U!SchemaIsUnderstood
<1>2. U!Init => UpdateInv
  BY UpdateInit
<1>3. UpdateInv /\ [U!Next]_(U!vars) => UpdateInv'
  BY UpdateStep
<1> QED
  BY <1>1, <1>2, <1>3, PTL DEF U!Spec

(* Nothing is said of an update before it ends.                              *)
Unsaid == pc # "idle" => result = "none"

(* The result is said in the step that ends the update.                    *)
LEMMA UnsaidStep == Unsaid /\ [U!Next]_(U!vars) => Unsaid'
<1> SUFFICES ASSUME Unsaid, [U!Next]_(U!vars) PROVE Unsaid'
  OBVIOUS
<1> USE DEF Unsaid
<1>1. CASE UNCHANGED <<pc, result>>
  BY <1>1
<1>2. CASE pc' = "idle"
  BY <1>2
<1>3. CASE pc # "idle" /\ UNCHANGED result
  BY <1>3
<1>4. ASSUME NEW r \in Releases, U!Apply(r) PROVE Unsaid'
  BY <1>4 DEF U!Apply
<1>5. ASSUME U!Open \/ U!Migrate \/ U!Write \/ U!Dies \/ U!Inventory \/ U!RemoveCheckpoint
      PROVE  UNCHANGED <<pc, result>>
  BY <1>5 DEF U!Open, U!Migrate, U!Write, U!Dies, U!Inventory, U!RemoveCheckpoint, U!updater
<1>6. ASSUME \/ U!Snapshot \/ U!CopySecrets \/ U!PublishCheckpoint \/ U!Stage \/ U!Activate \/ U!Verify \/ U!Rollback
             \/ U!MoveAside \/ U!PlaceDatabase \/ U!LeaveSecrets \/ U!MoveSecretsAside \/ U!PlaceSecrets
             \/ U!RestoreFails \/ U!StartOld \/ U!UpdaterDies
      PROVE  pc' = "idle" \/ (pc # "idle" /\ UNCHANGED result)
  BY <1>6 DEF U!Snapshot, U!CopySecrets, U!PublishCheckpoint, U!Stage, U!Activate, U!Verify, U!Rollback, U!MoveAside,
              U!PlaceDatabase, U!LeaveSecrets, U!MoveSecretsAside, U!PlaceSecrets, U!RestoreFails, U!AfterFailure, U!StartOld,
              U!UpdaterDies, U!Goes, U!Ends
<1> QED
  BY <1>1, <1>2, <1>3, <1>4, <1>5, <1>6 DEF U!Next, U!vars, U!updater

(* A rollback that is reported as done has brought back the release, the   *)
(* database of the checkpoint of this update, and its secrets if it has    *)
(* any (manager.go:rollback, checkpoint.go:RestoreCriticalFromDirectory).  *)
THEOREM RollbacksRestore ==
    ASSUME Manifests
    PROVE  U!Spec => RollbackRestores
<1>1. UpdateInv /\ Unsaid /\ [U!Next]_(U!vars) =>
        [U!RollsBack =>
          /\ image' = from /\ wanted' /\ process' = "down"
          /\ checkpoint.update = updates
          /\ U!Content(file') = U!Content(checkpoint)
          /\ checkpoint.secrets # 0 => secrets' = checkpoint.secrets]_(U!vars)
  <2> SUFFICES ASSUME UpdateInv, Unsaid, U!Next, U!RollsBack
               PROVE  /\ image' = from /\ wanted' /\ process' = "down"
                      /\ checkpoint.update = updates
                      /\ U!Content(file') = U!Content(checkpoint)
                      /\ checkpoint.secrets # 0 => secrets' = checkpoint.secrets
    OBVIOUS
  <2>1. U!StartOld
    <3>1. pc = "up" /\ result = "none" /\ result' = "rolled_back"
      BY DEF U!RollsBack, Unsaid
    <3>2. \A r \in Releases : ~U!Apply(r)
      BY <3>1 DEF U!Apply
    <3>3. ~(U!Open \/ U!Migrate \/ U!Write \/ U!Dies \/ U!Inventory \/ U!RemoveCheckpoint)
      BY <3>1 DEF U!Open, U!Migrate, U!Write, U!Dies, U!Inventory, U!RemoveCheckpoint, U!updater
    <3>4. ~(\/ U!Snapshot \/ U!CopySecrets \/ U!PublishCheckpoint \/ U!Stage \/ U!Activate \/ U!Verify \/ U!Rollback
            \/ U!MoveAside \/ U!PlaceDatabase \/ U!LeaveSecrets \/ U!MoveSecretsAside \/ U!PlaceSecrets \/ U!RestoreFails
            \/ U!UpdaterDies)
      BY <3>1 DEF U!Snapshot, U!CopySecrets, U!PublishCheckpoint, U!Stage, U!Activate, U!Verify, U!Rollback, U!MoveAside,
                  U!PlaceDatabase, U!LeaveSecrets, U!MoveSecretsAside, U!PlaceSecrets, U!RestoreFails, U!UpdaterDies, U!Ends
    <3> QED
      BY <3>2, <3>3, <3>4 DEF U!Next
  <2>a. U!Recreated(from) /\ stopped
    BY <2>1 DEF U!StartOld, U!Ends, U!RollsBack
  <2>2. /\ process = "down" /\ U!Content(file) = U!Content(checkpoint)
        /\ (checkpoint.secrets # 0 => secrets = checkpoint.secrets)
        /\ checkpoint.update = updates
    BY <2>1, <2>a DEF U!StartOld, UpdateInv, PutBack, OwnCheckpoint, Checkpointed, Restoring, Placed
  <2>3. UNCHANGED <<file, secrets>> /\ process' = "down" /\ image' = from /\ wanted'
    BY <2>1, <2>a, <2>2 DEF U!StartOld, U!Recreated, U!Closes, U!Killed
  <2> QED
    BY <2>2, <2>3
<1>2. U!Init => UpdateInv /\ Unsaid
  BY UpdateInit DEF U!Init, Unsaid
<1>3. UpdateInv /\ Unsaid /\ [U!Next]_(U!vars) => UpdateInv' /\ Unsaid'
  BY UpdateStep, UnsaidStep
<1> QED
  BY <1>1, <1>2, <1>3, PTL DEF U!Spec, U!RollbackRestores, RollbackRestores

-----------------------------------------------------------------------------
(* What the proof takes of the constants.                                  *)
TimesAreNatural == Second \in Nat \ {0} /\ Lease \in Nat /\ Delays \subseteq Nat

Rows == [created : Nat, available : Nat, claimed : Nat, delivered : BOOLEAN]

(* A worker that was not robbed has the claim it took, or its lease is     *)
(* over.                                                                   *)
OutboxInv ==
    /\ now \in Nat \ {0}
    /\ row \in [Messages -> Rows]
    /\ hold \in [Workers -> [Messages -> Nat]]
    /\ \A m \in Messages : ~O!Exists(m) => row[m] = O!Absent /\ \A w \in Workers : hold[w][m] = 0
    /\ \A m \in Messages, w \in Workers :
           ~row[m].delivered /\ <<w, m>> \notin robbed =>
               hold[w][m] = row[m].claimed \/ hold[w][m] < now + Second

-----------------------------------------------------------------------------
(* A second on from a whole second is a whole second.                      *)
LEMMA OneSecondOn ==
    ASSUME NEW n \in Nat \ {0}, NEW t \in Nat, t % n = 0
    PROVE  (t + n) % n = 0
<1> DEFINE q == t \div n
           d == (t + n) \div n
           r == (t + n) % n
<1>1. q \in Int /\ d \in Int /\ r \in 0 .. n - 1
  OBVIOUS
<1>2. t = n * q
  OBVIOUS
<1>3. t + n = n * d + r
  OBVIOUS
<1> HIDE DEF q, d, r
<1>4. n * (q + 1 - d) = r
  BY <1>1, <1>2, <1>3
<1>5. CASE q + 1 - d >= 1
  BY <1>1, <1>4, <1>5
<1>6. CASE q + 1 - d <= -1
  BY <1>1, <1>4, <1>6
<1>7. CASE q + 1 - d = 0
  BY <1>1, <1>4, <1>7 DEF r
<1> QED
  BY <1>1, <1>5, <1>6, <1>7

(* The order of the texts is wrong by less than a second.                    *)
LEMMA TextOrder ==
    ASSUME TimesAreNatural, NEW s \in Nat, NEW t \in Nat, O!Text(s) <= O!Text(t)
    PROVE  s < t + Second
<1> USE DEF TimesAreNatural
<1>1. CASE t % Second # 0
  BY <1>1 DEF O!Text
<1>2. CASE t % Second = 0 /\ s = t + Second
  <2>1. s % Second = 0
    BY <1>2, OneSecondOn
  <2> QED
    BY <1>2, <2>1 DEF O!Text
<1>3. CASE t % Second = 0 /\ s # t + Second
  <2>1. O!Text(s) \in Nat /\ s <= O!Text(s) /\ O!Text(t) = t + Second
    BY <1>3 DEF O!Text
  <2> QED
    BY <1>3, <2>1 
<1> QED
  BY <1>1, <1>2, <1>3

(* What is claimed, and who has it.                                          *)
LEMMA ClaimStep ==
    ASSUME TimesAreNatural, OutboxInv, NEW w \in Workers, NEW limit \in Limits, O!Claim(w, limit)
    PROVE  /\ OutboxInv'
           /\ \A m \in Messages : O!Claims(m) =>
                  /\ row[m].available < now + Second
                  /\ \A x \in Workers : <<x, m>> \in robbed \/ hold[x][m] < now + Second
<1> DEFINE batch == O!Batch(limit)
           till == now + Lease
<1>1. till \in Nat /\ now \in Nat
  BY DEF OutboxInv, TimesAreNatural
<1>2. ASSUME NEW m \in batch
      PROVE  /\ m \in Messages /\ ~row[m].delivered /\ row[m].available < now + Second
             /\ row[m].claimed < now + Second
  <2>1. m \in Messages /\ O!Claimable(m)
    BY <1>2 DEF O!Batch
  <2>2. row[m] \in Rows
    BY <2>1 DEF OutboxInv
  <2>3. row[m].available \in Nat /\ row[m].claimed \in Nat
    BY <2>2 DEF Rows
  <2>4. row[m].available < now + Second
    BY <1>1, <2>1, <2>3, TextOrder DEF O!Claimable
  <2>5. CASE row[m].claimed = 0
    BY <1>1, <2>1, <2>4, <2>5 DEF O!Claimable, TimesAreNatural
  <2>6. CASE O!Text(row[m].claimed) < O!Text(now)
    <3>1. O!Text(row[m].claimed) \in Nat /\ O!Text(now) \in Nat
      BY <1>1, <2>3 DEF O!Text, TimesAreNatural
    <3> QED
      BY <1>1, <2>1, <2>3, <2>4, <2>6, <3>1, TextOrder DEF O!Claimable
  <2> QED
    BY <2>1, <2>4, <2>5, <2>6 DEF O!Claimable
<1>3. /\ row' = [m \in Messages |-> IF m \in batch THEN [row[m] EXCEPT !.claimed = till] ELSE row[m]]
      /\ hold' = [hold EXCEPT ![w] = [m \in Messages |-> IF m \in batch THEN till ELSE hold[w][m]]]
      /\ robbed' = robbed \ ({w} \X batch) /\ now' = now
  BY DEF O!Claim
<1> HIDE DEF batch, till
<1>4. ASSUME NEW m \in Messages
      PROVE  /\ m \in batch => row'[m] \in Rows /\ row'[m].claimed = till /\ row'[m].delivered = row[m].delivered
             /\ m \notin batch => row'[m] = row[m]
             /\ hold'[w][m] = IF m \in batch THEN till ELSE hold[w][m]
             /\ \A x \in Workers \ {w} : hold'[x][m] = hold[x][m]
  <2>1. row[m] \in Rows /\ hold \in [Workers -> [Messages -> Nat]]
    BY DEF OutboxInv
  <2>2. m \in batch => row'[m] = [row[m] EXCEPT !.claimed = till]
    BY <1>3
  <2>3. m \in batch => row'[m] \in Rows /\ row'[m].claimed = till
    BY <1>1, <2>1, <2>2 DEF Rows
  <2>4. m \in batch => row'[m].delivered = row[m].delivered
    BY <2>1, <2>2 DEF Rows
  <2>5. m \notin batch => row'[m] = row[m]
    BY <1>3
  <2>6. hold'[w] = [n \in Messages |-> IF n \in batch THEN till ELSE hold[w][n]]
    BY <1>3, <2>1
  <2>7. \A x \in Workers \ {w} : hold'[x] = hold[x]
    BY <1>3, <2>1
  <2> QED
    BY <2>3, <2>4, <2>5, <2>6, <2>7
<1>5. row' \in [Messages -> Rows]
  <2>1. \A m \in Messages : row'[m] \in Rows
    BY <1>4 DEF OutboxInv
  <2>2. row' = [m \in Messages |-> row'[m]]
    BY <1>3
  <2> QED
    BY <2>1, <2>2
<1>6. hold' \in [Workers -> [Messages -> Nat]]
  BY <1>1, <1>3 DEF OutboxInv
<1>7. ASSUME NEW m \in Messages, NEW x \in Workers, ~row'[m].delivered, <<x, m>> \notin robbed'
      PROVE  hold'[x][m] = row'[m].claimed \/ hold'[x][m] < now + Second
  <2>1. CASE m \notin batch
    <3>1. hold'[x][m] = hold[x][m] /\ row'[m] = row[m] /\ <<x, m>> \notin robbed
      BY <1>3, <1>4, <1>7, <2>1
    <3> QED
      BY <1>7, <3>1 DEF OutboxInv
  <2>2. CASE m \in batch /\ x = w
    BY <1>4, <2>2
  <2>3. CASE m \in batch /\ x # w
    <3>1. hold'[x][m] = hold[x][m] /\ ~row[m].delivered /\ <<x, m>> \notin robbed
      BY <1>3, <1>4, <1>7, <2>3
    <3>2. hold[x][m] = row[m].claimed \/ hold[x][m] < now + Second
      BY <3>1 DEF OutboxInv
    <3> QED
      BY <1>2, <2>3, <3>1, <3>2
  <2> QED
    BY <2>1, <2>2, <2>3
<1>8. ASSUME NEW m \in Messages, O!Claims(m)
      PROVE  /\ row[m].available < now + Second
             /\ \A x \in Workers : <<x, m>> \in robbed \/ hold[x][m] < now + Second
  <2>1. m \in batch
    <3>1. row[m] \in Rows
      BY DEF OutboxInv
    <3>2. row[m].claimed \in Nat
      BY <3>1 DEF Rows
    <3> QED
      BY <1>4, <1>8, <3>2 DEF O!Claims
  <2>2. ~row[m].delivered /\ row[m].available < now + Second /\ row[m].claimed < now + Second
    BY <1>2, <2>1
  <2> QED
    BY <2>2 DEF OutboxInv
<1>9. \A m \in Messages : ~O!Exists(m)' => row'[m] = O!Absent /\ \A x \in Workers : hold'[x][m] = 0
  <2> SUFFICES ASSUME NEW m \in Messages, row'[m].created = 0
               PROVE  row'[m] = O!Absent /\ \A x \in Workers : hold'[x][m] = 0
    BY DEF O!Exists
  <2>1. m \notin batch
    <3>1. m \in batch => row[m].created # 0 /\ row[m] \in Rows
      BY DEF batch, O!Batch, O!Claimable, O!Exists, OutboxInv
    <3>2. m \in batch => row'[m] = [row[m] EXCEPT !.claimed = till]
      BY <1>3
    <3>3. m \in batch => row'[m].created = row[m].created
      BY <3>1, <3>2 DEF Rows
    <3> QED
      BY <3>1, <3>3
  <2>2. row'[m] = row[m] /\ \A x \in Workers : hold'[x][m] = hold[x][m]
    BY <1>4, <2>1
  <2> QED
    BY <2>2 DEF OutboxInv, O!Exists
<1>10. now' \in Nat \ {0}
  BY <1>3 DEF OutboxInv
<1> QED
  BY <1>3, <1>5, <1>6, <1>7, <1>8, <1>9, <1>10 DEF OutboxInv

(* A row without a claim is that of a worker that gave it up, or of one that *)
(* was robbed.                                                               *)
LEMMA GivenUp ==
    ASSUME TimesAreNatural, OutboxInv, NEW w \in Workers, NEW m \in Messages, O!Ack(w, m) \/ \E d \in Delays : O!Fail(w, m, d)
    PROVE  OutboxInv' /\ \A n \in Messages : ~O!Claims(n)
<1>1. /\ hold' = [hold EXCEPT ![w] = [hold[w] EXCEPT ![m] = 0]] /\ now' = now /\ robbed \subseteq robbed'
      /\ hold \in [Workers -> [Messages -> Nat]] /\ now \in Nat
  BY DEF O!Ack, O!Fail, OutboxInv
<1>2. /\ hold' \in [Workers -> [Messages -> Nat]] /\ hold'[w][m] = 0
      /\ \A x \in Workers, n \in Messages : x # w \/ n # m => hold'[x][n] = hold[x][n]
  BY <1>1
<1>3. row[m] \in Rows /\ row \in [Messages -> Rows] /\ row[m].created # 0
  BY DEF OutboxInv, O!Exists, O!Ack, O!Fail
<1>4. PICK y \in Rows : /\ row' = [row EXCEPT ![m] = y] /\ y.created # 0
                        /\ IF row[m].delivered THEN y = row[m] ELSE y.claimed = 0
  <2>1. CASE row[m].delivered
    <3>1. row' = row
      BY <2>1 DEF O!Ack, O!Fail
    <3>2. row' = [row EXCEPT ![m] = row[m]]
      BY <1>3, <3>1
    <3> QED
      BY <1>3, <2>1, <3>2
  <2>2. CASE O!Ack(w, m) /\ ~row[m].delivered
    <3> DEFINE y == [row[m] EXCEPT !.delivered = TRUE, !.claimed = 0]
    <3>1. row' = [row EXCEPT ![m] = y]
      BY <1>3, <2>2 DEF O!Ack
    <3>2. y \in Rows /\ y.claimed = 0 /\ y.created # 0
      BY <1>3 DEF Rows
    <3> QED
      BY <2>2, <3>1, <3>2
  <2>3. ASSUME NEW d \in Delays, O!Fail(w, m, d), ~row[m].delivered
        PROVE  \E y \in Rows : row' = [row EXCEPT ![m] = y] /\ y.created # 0 /\ y.claimed = 0
    <3> DEFINE t == now + d
               y == [row[m] EXCEPT !.available = t, !.claimed = 0]
    <3>1. row' = [row EXCEPT ![m] = y]
      BY <1>3, <2>3 DEF O!Fail
    <3>2. t \in Nat
      BY <1>1 DEF TimesAreNatural
    <3> HIDE DEF t
    <3>3. y \in Rows /\ y.claimed = 0 /\ y.created # 0
      BY <1>3, <3>2 DEF Rows
    <3> QED
      BY <3>1, <3>3
  <2> QED
    BY <2>1, <2>2, <2>3
<1>5. /\ row' \in [Messages -> Rows] /\ row'[m] = y /\ \A n \in Messages \ {m} : row'[n] = row[n]
  BY <1>4 DEF OutboxInv
<1>6. ASSUME NEW x \in Workers, ~row'[m].delivered, <<x, m>> \notin robbed'
      PROVE  hold'[x][m] = row'[m].claimed \/ hold'[x][m] < now + Second
  <2>1. ~row[m].delivered /\ y.claimed = 0
    BY <1>4, <1>5, <1>6
  <2>2. CASE x = w
    BY <1>2, <1>5, <2>1, <2>2
  <2>3. CASE x # w
    <3>1. hold[x][m] = row[m].claimed \/ hold[x][m] < now + Second
      BY <1>1, <1>6, <2>1 DEF OutboxInv
    <3>2. CASE \E d \in Delays : O!Fail(w, m, d)
      <4>1. hold[x][m] # row[m].claimed \/ hold[x][m] = 0
        BY <1>6, <2>3, <3>2 DEF O!Fail
      <4> QED
        BY <1>2, <1>5, <2>1, <2>3, <3>1, <4>1
    <3>3. CASE O!Ack(w, m)
      <4>1. row' = [row EXCEPT ![m] = [row[m] EXCEPT !.delivered = TRUE, !.claimed = 0]]
        BY <2>1, <3>3 DEF O!Ack
      <4>2. row'[m] = [row[m] EXCEPT !.delivered = TRUE, !.claimed = 0]
        BY <1>3, <4>1
      <4>3. row'[m].delivered
        BY <1>3, <4>2 DEF Rows
      <4> QED
        BY <1>6, <4>3
    <3> QED
      BY <3>2, <3>3
  <2> QED
    BY <2>2, <2>3
<1>7. ASSUME NEW n \in Messages, NEW x \in Workers, ~row'[n].delivered, <<x, n>> \notin robbed'
      PROVE  hold'[x][n] = row'[n].claimed \/ hold'[x][n] < now + Second
  <2>1. CASE n = m
    BY <1>6, <1>7, <2>1
  <2>2. CASE n # m
    BY <1>1, <1>2, <1>5, <1>7, <2>2 DEF OutboxInv
  <2> QED
    BY <2>1, <2>2
<1>8. \A n \in Messages : ~O!Claims(n)
  <2> SUFFICES ASSUME NEW n \in Messages PROVE ~(row'[n].claimed > row[n].claimed)
    BY DEF O!Claims
  <2>1. row[n] \in Rows
    BY DEF OutboxInv
  <2>2. row[n].claimed \in Nat
    BY <2>1 DEF Rows
  <2> QED
    BY <1>4, <1>5, <2>2
<1>9. \A n \in Messages : ~O!Exists(n)' => row'[n] = O!Absent /\ \A x \in Workers : hold'[x][n] = 0
  BY <1>2, <1>4, <1>5 DEF OutboxInv, O!Exists
<1>10. now' \in Nat \ {0}
  BY <1>1 DEF OutboxInv
<1> QED
  BY <1>1, <1>2, <1>5, <1>7, <1>8, <1>9, <1>10 DEF OutboxInv

(* A message is new.                                                       *)
LEMMA EnqueueStep ==
    ASSUME TimesAreNatural, OutboxInv, NEW m \in Messages, NEW d \in Delays, O!Enqueue(m, d)
    PROVE  OutboxInv' /\ \A n \in Messages : ~O!Claims(n)
<1> DEFINE t == now + d
           y == [O!Absent EXCEPT !.created = now, !.available = t]
<1>1. t \in Nat /\ now \in Nat \ {0} /\ row[m].claimed = 0 /\ \A w \in Workers : hold[w][m] = 0
  BY DEF OutboxInv, TimesAreNatural, O!Enqueue, O!Absent
<1>2. row' = [row EXCEPT ![m] = y] /\ UNCHANGED <<now, hold, robbed>>
  BY DEF O!Enqueue
<1> HIDE DEF t
<1>3. y \in Rows /\ y.claimed = 0 /\ y.created # 0
  BY <1>1 DEF Rows, O!Absent
<1> HIDE DEF y
<1>4. row' \in [Messages -> Rows] /\ row'[m] = y /\ \A n \in Messages \ {m} : row'[n] = row[n]
  BY <1>2, <1>3 DEF OutboxInv
<1>5. \A n \in Messages, w \in Workers :
          ~row'[n].delivered /\ <<w, n>> \notin robbed =>
              hold[w][n] = row'[n].claimed \/ hold[w][n] < now + Second
  BY <1>1, <1>3, <1>4 DEF OutboxInv
<1>6. \A n \in Messages : ~O!Exists(n)' => row'[n] = O!Absent /\ \A w \in Workers : hold[w][n] = 0
  BY <1>3, <1>4 DEF OutboxInv, O!Exists
<1>7. \A n \in Messages : ~(row'[n].claimed > row[n].claimed)
  <2> SUFFICES ASSUME NEW n \in Messages PROVE ~(row'[n].claimed > row[n].claimed)
    OBVIOUS
  <2>1. row[n] \in Rows
    BY DEF OutboxInv
  <2>2. row[n].claimed \in Nat
    BY <2>1 DEF Rows
  <2> QED
    BY <1>1, <1>3, <1>4, <2>2
<1> QED
  BY <1>2, <1>4, <1>5, <1>6, <1>7 DEF OutboxInv, O!Claims

(* All steps, and what a claim may do.                                     *)
LEMMA OutboxStep ==
    ASSUME TimesAreNatural, OutboxInv, [O!Next]_(O!vars)
    PROVE  /\ OutboxInv'
           /\ \A m \in Messages : O!Claims(m) =>
                  /\ row[m].available < now + Second
                  /\ \A x \in Workers : <<x, m>> \in robbed \/ hold[x][m] < now + Second
<1>1. ASSUME row' = row PROVE \A m \in Messages : ~O!Claims(m)
  <2> SUFFICES ASSUME NEW m \in Messages PROVE ~(row[m].claimed > row[m].claimed)
    BY <1>1 DEF O!Claims
  <2>1. row[m] \in Rows
    BY DEF OutboxInv
  <2>2. row[m].claimed \in Nat
    BY <2>1 DEF Rows
  <2> QED
    BY <2>2
<1>2. CASE UNCHANGED O!vars
  BY <1>1, <1>2 DEF O!vars, OutboxInv, O!Exists
<1>3. CASE O!Tick
  <2>1. now' \in Nat \ {0} /\ now < now' /\ UNCHANGED <<row, hold, robbed>>
    BY <1>3 DEF O!Tick, OutboxInv
  <2>2. \A m \in Messages, w \in Workers :
            ~row[m].delivered /\ <<w, m>> \notin robbed =>
                hold[w][m] = row[m].claimed \/ hold[w][m] < now' + Second
    BY <2>1 DEF OutboxInv, TimesAreNatural
  <2> QED
    BY <1>1, <2>1, <2>2 DEF OutboxInv, O!Exists
<1>4. ASSUME NEW w \in Workers, O!Die(w)
      PROVE  OutboxInv' /\ row' = row
  <2>1. /\ hold' \in [Workers -> [Messages -> Nat]] /\ UNCHANGED <<now, row, robbed>>
        /\ \A x \in Workers, m \in Messages : hold'[x][m] = hold[x][m] \/ hold'[x][m] = 0
    BY <1>4 DEF O!Die, OutboxInv
  <2>2. \A x \in Workers, m \in Messages :
            ~row[m].delivered /\ <<x, m>> \notin robbed =>
                hold'[x][m] = row[m].claimed \/ hold'[x][m] < now + Second
    BY <2>1 DEF OutboxInv, TimesAreNatural
  <2> QED
    BY <2>1, <2>2 DEF OutboxInv, O!Exists
<1> QED
  BY <1>1, <1>2, <1>3, <1>4, EnqueueStep, ClaimStep, GivenUp DEF O!Next

(* A message is claimed neither a second before its retry time nor a second  *)
(* before the lease of a worker ends that still has it.                      *)
THEOREM TimesAreRespected == ASSUME TimesAreNatural PROVE O!Spec => RespectsTimes
<1> DEFINE Respected ==
             \A m \in Messages : O!Claims(m) =>
                 /\ row[m].available < now + Second
                 /\ \A w \in Workers : <<w, m>> \in robbed \/ hold[w][m] < now + Second
<1>1. O!Init => OutboxInv
  BY DEF O!Init, OutboxInv, O!Absent, Rows, O!Exists
<1>2. OutboxInv /\ [O!Next]_(O!vars) => OutboxInv'
  BY OutboxStep
<1>3. OutboxInv /\ [O!Next]_(O!vars) => [Respected]_(O!vars)
  BY OutboxStep
<1> QED
  BY <1>1, <1>2, <1>3, PTL DEF O!Spec, O!RespectsTimes, RespectsTimes

-----------------------------------------------------------------------------
(* What the proof takes of the constants.                                  *)
RolesAreKnown == Given \subseteq A!Roles /\ SessionTTL \in Nat

Accounts == [role : A!Roles \cup {"none"}, disabled : BOOLEAN]
Sessions == [of : Users, expires : Nat, proof : Nat, token : Nat, revoked : BOOLEAN]
Authenticated ==
    [pc : {"resolved", "admitted", "proved"}, route : A!Routes, session : Nat, token : Nat,
     role : A!Roles \cup {"none"}, proof : Nat]
Decided == [pc : {"decided"}, target : Users, access : Accounts]
Steps == {A!Idle, [pc |-> "setup"]} \cup [pc : {"login"}, of : Users] \cup Authenticated \cup Decided

Administrators(accounts) == {x \in Users : A!Administrator(accounts[x])}

(* What a request may do it may by the role its session had.               *)
Licensed(q, r, entitledOnes) ==
    /\ q \in Authenticated /\ q.role = "admin" => r \in entitledOnes
    /\ q.pc = "admitted" /\ q.route \in A!Managing => q.role = "admin"
    /\ q.pc = "decided" => r \in entitledOnes

(* A change that was decided, and not overtaken by another, leaves an      *)
(* administrator.                                                          *)
Sound(q, accounts) == ~A!Administrator(q.access) => Administrators(accounts) # {q.target}

(* Once there is an account there is an administrator.                     *)
AccessInv ==
    /\ clock \in Nat /\ user \in [Users -> Accounts] /\ session \in Seq(Sessions)
    /\ request \in [Requests -> Steps]
    /\ (entitled # {} \/ \E u \in Users : A!Exists(u)) => Administrators(user) # {}
    /\ \A r \in Requests : Licensed(request[r], r, entitled)
    /\ \A r \in Requests : request[r].pc = "decided" /\ r \notin stale => Sound(request[r], user)

-----------------------------------------------------------------------------
(* Where a request is says what it carries.                                *)
LEMMA StepKinds ==
    /\ A!Idle.pc = "idle" /\ [pc |-> "setup"].pc = "setup"
    /\ \A q \in [pc : {"login"}, of : Users] : q.pc = "login"
    /\ \A q \in Authenticated : q.pc \in {"resolved", "admitted", "proved"}
    /\ \A q \in Decided : q.pc = "decided"
BY DEF A!Idle, Authenticated, Decided

(* What a request has found out, by its pc (AccessControl).                  *)
LEMMA Kinds ==
    ASSUME NEW q \in Steps
    PROVE  /\ q.pc = "login" => q.of \in Users
           /\ q.pc \in {"resolved", "admitted", "proved"} <=> q \in Authenticated
           /\ q.pc = "decided" <=> q \in Decided
<1>1. q.pc = "login" => q \in [pc : {"login"}, of : Users]
  BY StepKinds DEF Steps
<1> QED
  BY <1>1, StepKinds DEF Steps

(* A step of one request that changes no account.                          *)
LEMMA RequestMoves ==
    ASSUME AccessInv, NEW r \in Requests, NEW q \in Steps, request' = [request EXCEPT ![r] = q],
           user' = user, clock' \in Nat, session' \in Seq(Sessions),
           \A x \in Requests \ {r} : x \in entitled => x \in entitled',
           entitled' # {} => Administrators(user) # {},
           \A x \in Requests \ {r} : request[x].pc = "decided" /\ x \notin stale' => x \notin stale,
           Licensed(q, r, entitled'),
           q.pc = "decided" /\ r \notin stale' => Sound(q, user)
    PROVE  AccessInv'
<1>1. request' \in [Requests -> Steps] /\ request'[r] = q /\ \A x \in Requests \ {r} : request'[x] = request[x]
  BY DEF AccessInv
<1>2. \A x \in Requests : Licensed(request'[x], x, entitled')
  BY <1>1 DEF AccessInv, Licensed
<1>3. \A x \in Requests : request'[x].pc = "decided" /\ x \notin stale' => Sound(request'[x], user)
  BY <1>1 DEF AccessInv
<1>4. (entitled' # {} \/ \E u \in Users : A!Exists(u)') => Administrators(user) # {}
  BY DEF AccessInv, A!Exists
<1> QED
  BY <1>1, <1>2, <1>3, <1>4 DEF AccessInv

(* A request that writes an account, and leaves an administrator.          *)
LEMMA AccountsChange ==
    ASSUME AccessInv, NEW r \in Requests, NEW u \in Users, NEW a \in Accounts,
           user' = [user EXCEPT ![u] = a], A!Ends(r), A!Writes(r), UNCHANGED <<clock, session, entitled>>,
           A!Administrator(a) \/ Administrators(user) \ {u} # {}
    PROVE  AccessInv' /\ \E x \in Users : A!Administrator(user'[x])
<1>1. user' \in [Users -> Accounts] /\ user'[u] = a /\ \A x \in Users \ {u} : user'[x] = user[x]
  BY DEF AccessInv
<1>2. PICK x \in Users : A!Administrator(user'[x])
  BY <1>1 DEF Administrators
<1>3. Administrators(user') # {}
  BY <1>2 DEF Administrators
<1>4. request' \in [Requests -> Steps] /\ request'[r] = A!Idle /\ \A y \in Requests \ {r} : request'[y] = request[y]
  BY DEF AccessInv, A!Ends, A!Goes, Steps
<1>5. A!Idle \notin Authenticated \cup Decided /\ A!Idle.pc = "idle"
  BY StepKinds
<1>6. \A y \in Requests : Licensed(request'[y], y, entitled')
  BY <1>4, <1>5 DEF AccessInv, Licensed
<1>7. \A y \in Requests : request'[y].pc = "decided" => y \in stale'
  BY <1>4, <1>5 DEF A!Writes
<1> QED
  BY <1>1, <1>2, <1>3, <1>4, <1>6, <1>7 DEF AccessInv

(* A request ends without a word to the accounts; a write of it makes the    *)
(* snapshots of the others old.                                              *)
LEMMA RequestEnds ==
    ASSUME AccessInv, NEW r \in Requests, A!Ends(r), user' = user, clock' = clock, entitled' = entitled,
           session' \in Seq(Sessions), A!Writes(r) \/ stale' = stale \ {r}
    PROVE  AccessInv'
<1>1. A!Idle \in Steps /\ A!Idle.pc = "idle" /\ A!Idle \notin Authenticated \cup Decided
  BY StepKinds DEF Steps
<1>2. \A x \in Requests \ {r} : request[x].pc = "decided" /\ x \notin stale' => x \notin stale
  BY DEF A!Writes
<1>3. Licensed(A!Idle, r, entitled')
  BY <1>1 DEF Licensed
<1>4. entitled' # {} => Administrators(user) # {}
  BY DEF AccessInv
<1>5. clock' \in Nat
  BY DEF AccessInv
<1> QED
  BY <1>1, <1>2, <1>3, <1>4, <1>5, RequestMoves DEF A!Ends, A!Goes

(* A request goes on; it is not one that has decided.                        *)
LEMMA RequestGoesOn ==
    ASSUME AccessInv, NEW r \in Requests, NEW q \in Steps, A!Goes(r, q), q.pc # "decided",
           UNCHANGED <<clock, user, session, stale, entitled>>, Licensed(q, r, entitled)
    PROVE  AccessInv'
<1>1. clock \in Nat /\ session \in Seq(Sessions) /\ (entitled # {} => Administrators(user) # {})
  BY DEF AccessInv
<1> QED
  BY <1>1, RequestMoves DEF A!Goes

(* The first setup and logins.                                             *)
LEMMA SetupBegins == ASSUME AccessInv, NEW r \in Requests, A!BeginSetup(r) PROVE AccessInv'
<1> DEFINE q == [pc |-> "setup"]
<1>1. q \in Steps /\ q.pc = "setup" /\ q \notin Authenticated \cup Decided
  BY StepKinds DEF Steps
<1>2. A!Goes(r, q) /\ UNCHANGED <<clock, user, session, stale, entitled>>
  BY DEF A!BeginSetup
<1> HIDE DEF q
<1>3. Licensed(q, r, entitled)
  BY <1>1 DEF Licensed
<1> QED
  BY <1>1, <1>2, <1>3, RequestGoesOn

(* A login reads the account (AccessControl).                                *)
LEMMA LoginBegins == ASSUME AccessInv, NEW r \in Requests, NEW u \in Users, A!BeginLogin(r, u) PROVE AccessInv'
<1> DEFINE q == [pc |-> "login", of |-> u]
<1>1. q \in Steps /\ q.pc = "login" /\ q \notin Authenticated \cup Decided
  BY StepKinds DEF Steps
<1>2. A!Goes(r, q) /\ UNCHANGED <<clock, user, session, stale, entitled>>
  BY DEF A!BeginLogin
<1> HIDE DEF q
<1>3. Licensed(q, r, entitled)
  BY <1>1 DEF Licensed
<1> QED
  BY <1>1, <1>2, <1>3, RequestGoesOn

(* A login ends (AccessControl).                                             *)
LEMMA LoginEnds == ASSUME AccessInv, RolesAreKnown, NEW r \in Requests, A!EndLogin(r) PROVE AccessInv'
<1> DEFINE s == [of |-> request[r].of, expires |-> clock + SessionTTL, proof |-> clock, token |-> 1, revoked |-> FALSE]
<1>1. request[r] \in Steps /\ request[r].of \in Users
  BY Kinds DEF A!EndLogin, AccessInv
<1>2. s \in Sessions
  BY <1>1 DEF Sessions, AccessInv, RolesAreKnown
<1>3. session' = Append(session, s) /\ A!Ends(r) /\ A!Writes(r) /\ UNCHANGED <<clock, user, entitled>>
  BY DEF A!EndLogin
<1> HIDE DEF s
<1>4. session' \in Seq(Sessions)
  BY <1>2, <1>3, AppendProperties DEF AccessInv
<1> QED
  BY <1>3, <1>4, RequestEnds

(* A session that is resolved tells the role its account has then.         *)
LEMMA SessionResolves ==
    ASSUME AccessInv, NEW r \in Requests, NEW s \in DOMAIN session, NEW route \in A!Routes,
           NEW t \in 1 .. session[s].token, A!Resolve(r, s, route, t)
    PROVE  AccessInv'
<1> DEFINE u == session[s].of
           role == user[u].role
           proof == session[s].proof
           q == [pc |-> "resolved", route |-> route, session |-> s, token |-> t, role |-> role, proof |-> proof]
<1>1. session[s] \in Sessions /\ s \in Nat
  BY ElementOfSeq, LenProperties DEF AccessInv
<1>2. u \in Users /\ proof \in Nat /\ session[s].token \in Nat
  BY <1>1 DEF Sessions
<1>3. user[u] \in Accounts /\ role \in A!Roles \cup {"none"} /\ ~user[u].disabled
  BY <1>2 DEF AccessInv, Accounts, A!Resolve, A!MayResolve
<1>4. t \in Nat
  BY <1>2
<1>5. /\ q \in Authenticated /\ q.pc = "resolved" /\ q.role = role
      /\ request' = [request EXCEPT ![r] = q]
      /\ UNCHANGED <<clock, user, session>> /\ (A!Writes(r) \/ UNCHANGED stale)
      /\ entitled' = IF A!Administrator(user[u]) THEN entitled \cup {r} ELSE entitled \ {r}
  <2>1. q \in Authenticated /\ q.pc = "resolved" /\ q.role = role
    BY <1>1, <1>2, <1>3, <1>4 DEF Authenticated
  <2> QED
    BY <2>1 DEF A!Resolve, A!Goes
<1> HIDE DEF q
<1>6. role = "admin" => A!Administrator(user[u])
  BY <1>3 DEF A!Administrator
<1> HIDE DEF role, proof
<1>7. Licensed(q, r, entitled')
  BY <1>5, <1>6, StepKinds DEF Licensed
<1>8. entitled' # {} => Administrators(user) # {}
  BY <1>2, <1>5 DEF AccessInv, Administrators
<1>9. q \in Steps
  BY <1>5 DEF Steps
<1>10. \A x \in Requests \ {r} : x \in entitled => x \in entitled'
  BY <1>5
<1>11. \A x \in Requests \ {r} : request[x].pc = "decided" /\ x \notin stale' => x \notin stale
  BY <1>5 DEF A!Writes
<1>12. clock' \in Nat /\ session' \in Seq(Sessions)
  BY <1>5 DEF AccessInv
<1> QED
  BY <1>5, <1>7, <1>8, <1>9, <1>10, <1>11, <1>12, RequestMoves

(* A change of one session.                                                *)
LEMMA SessionKept ==
    ASSUME NEW sessions \in Seq(Sessions), NEW k \in Nat, NEW e, sessions[k] \in Sessions => e \in Sessions
    PROVE  [sessions EXCEPT ![k] = e] \in Seq(Sessions)
<1>1. DOMAIN sessions = 1 .. Len(sessions) /\ Len(sessions) \in Nat
  BY LenProperties
<1>2. CASE k \in DOMAIN sessions
  BY <1>1, <1>2, ElementOfSeq, ExceptSeq
<1>3. CASE k \notin DOMAIN sessions
  <2>1. [sessions EXCEPT ![k] = e] = sessions
    BY <1>1, <1>3
  <2> QED
    BY <2>1
<1> QED
  BY <1>2, <1>3

(* Sessions are revoked, and their tokens and proofs renewed, within the   *)
(* serving of a request.                                                   *)
LEMMA SessionIsChanged ==
    ASSUME AccessInv, NEW r \in Requests, request[r].pc \in {"admitted", "proved"},
           A!Logout(r) \/ A!RotateCSRF(r) \/ A!MarkReauthenticated(r)
    PROVE  AccessInv'
<1> DEFINE k == request[r].session
           s == session[k]
           proof == clock
           token == s.token + 1
           e1 == [s EXCEPT !.revoked = TRUE]
           e2 == [s EXCEPT !.token = token]
           e3 == [s EXCEPT !.proof = proof]
<1>1. k \in Nat
  BY Kinds DEF AccessInv, Authenticated
<1>2. s \in Sessions => token \in Nat
  BY DEF Sessions
<1>3. proof \in Nat
  BY DEF AccessInv
<1>4. \/ session' = [session EXCEPT ![k] = e1]
      \/ session' = [session EXCEPT ![k] = e2]
      \/ session' = [session EXCEPT ![k] = e3]
  BY DEF A!Logout, A!RotateCSRF, A!MarkReauthenticated
<1>5. A!Ends(r) /\ A!Writes(r) /\ UNCHANGED <<clock, user, entitled>>
  BY DEF A!Logout, A!RotateCSRF, A!MarkReauthenticated
<1> HIDE DEF token, proof
<1>6. s \in Sessions => e1 \in Sessions /\ e2 \in Sessions /\ e3 \in Sessions
  BY <1>2, <1>3 DEF Sessions
<1> HIDE DEF e1, e2, e3, k
<1>7. session' \in Seq(Sessions)
  BY <1>1, <1>4, <1>6, SessionKept DEF AccessInv
<1> QED
  BY <1>5, <1>7, RequestEnds

(* What admits a request to a managed route is the role it has read.         *)
LEMMA AdmissionHolds ==
    ASSUME AccessInv, NEW r \in Requests, A!Admit(r) \/ A!Prove(r)
    PROVE  AccessInv'
<1> DEFINE p == request[r]
           place == IF p.pc = "resolved" THEN "admitted" ELSE "proved"
           q == [p EXCEPT !.pc = place]
<1>1. p \in Authenticated /\ Licensed(p, r, entitled)
  BY Kinds DEF AccessInv, A!Admit, A!Prove, A!Serves
<1>2. place \in {"admitted", "proved"}
  OBVIOUS
<1>3. A!Goes(r, q) /\ UNCHANGED <<clock, user, session, stale, entitled>>
  BY DEF A!Admit, A!Prove, A!Serves
<1>4. place = "admitted" /\ p.route \in A!Managing => p.role = "admin"
  BY DEF A!Admit, A!Prove, A!Serves, A!Admissible, A!Allowed
<1> HIDE DEF place
<1>5. q \in Authenticated /\ q.pc = place /\ q.role = p.role /\ q.route = p.route
  BY <1>1, <1>2 DEF Authenticated
<1> HIDE DEF q
<1>6. Licensed(q, r, entitled)
  BY <1>1, <1>2, <1>4, <1>5 DEF Licensed
<1> QED
  BY <1>2, <1>3, <1>5, <1>6, RequestGoesOn DEF Steps

(* Users.Update looks for another administrator before it writes.          *)
LEMMA DecisionIsSound ==
    ASSUME AccessInv, RolesAreKnown, NEW r \in Requests, NEW u \in Users, NEW role \in Given, NEW d \in BOOLEAN,
           A!Decide(r, u, [role |-> role, disabled |-> d])
    PROVE  AccessInv'
<1> DEFINE p == request[r]
           access == [role |-> role, disabled |-> d]
           q == [pc |-> "decided", target |-> u, access |-> access]
<1>1. p \in Authenticated /\ Licensed(p, r, entitled) /\ p.pc = "admitted" /\ p.route = "access"
  BY Kinds DEF AccessInv, A!Decide, A!Serves
<1>2. access \in Accounts
  BY DEF RolesAreKnown, Accounts
<1>3. A!Goes(r, q) /\ UNCHANGED <<clock, user, session, stale, entitled>>
  BY DEF A!Decide
<1>4. ~A!Administrator(access) => ~A!LastAdministrator(u)
  BY DEF A!Decide
<1> HIDE DEF access
<1>6. q \in Decided /\ q.pc = "decided" /\ q.target = u /\ q.access = access
  BY <1>2 DEF Decided
<1> HIDE DEF q
<1>7. r \in entitled
  BY <1>1 DEF Licensed, A!Managing
<1>8. Licensed(q, r, entitled) /\ q \in Steps
  BY <1>6, <1>7, StepKinds DEF Licensed, Steps
<1>9. Sound(q, user)
  BY <1>4, <1>6 DEF Sound, A!LastAdministrator, Administrators
<1>10. clock \in Nat /\ session \in Seq(Sessions) /\ (entitled # {} => Administrators(user) # {})
  BY DEF AccessInv
<1> QED
  BY <1>3, <1>8, <1>9, <1>10, RequestMoves DEF A!Goes

-----------------------------------------------------------------------------
(* The steps that change accounts                                            *)

Governed(r) ==
    /\ \E x \in Users : A!Administrator(user'[x])
    /\ request'[r] # request[r] /\ (request[r].pc = "setup" \/ r \in entitled)

(* The three writes of accounts: the first setup, a new account, a change. *)
LEMMA SetupGoverned ==
    ASSUME AccessInv, NEW r \in Requests, NEW u \in Users, A!EndSetup(r, u)
    PROVE  AccessInv' /\ Governed(r)
<1> DEFINE a == [role |-> "admin", disabled |-> FALSE]
<1>1. a \in Accounts /\ A!Administrator(a)
  BY DEF Accounts, A!Roles, A!Administrator
<1>2. /\ user' = [user EXCEPT ![u] = a] /\ A!Ends(r) /\ A!Writes(r) /\ UNCHANGED <<clock, session, entitled>>
      /\ request[r].pc = "setup"
  BY DEF A!EndSetup, A!Create
<1> HIDE DEF a
<1>3. request'[r] # request[r]
  BY <1>2, StepKinds DEF A!Ends, A!Goes, AccessInv
<1> QED
  BY <1>1, <1>2, <1>3, AccountsChange DEF Governed

(* Accounts are created by who may (AccessControl).                          *)
LEMMA CreationGoverned ==
    ASSUME AccessInv, RolesAreKnown, NEW r \in Requests, NEW u \in Users, NEW role \in Given, A!CreateUser(r, u, role)
    PROVE  AccessInv' /\ Governed(r)
<1> DEFINE a == [role |-> role, disabled |-> FALSE]
<1>1. a \in Accounts
  BY DEF RolesAreKnown, Accounts
<1>2. /\ user' = [user EXCEPT ![u] = a] /\ A!Ends(r) /\ A!Writes(r) /\ UNCHANGED <<clock, session, entitled>>
      /\ request[r].pc = "admitted" /\ request[r].route = "create" /\ ~A!Exists(u)
  BY DEF A!CreateUser, A!Serves, A!Create
<1> HIDE DEF a
<1>3. request[r] \in Authenticated /\ request[r].role = "admin" /\ r \in entitled
  BY <1>2, Kinds DEF AccessInv, Licensed, A!Managing
<1>4. Administrators(user) \ {u} # {}
  <2>1. Administrators(user) # {}
    BY <1>3 DEF AccessInv
  <2>2. ~A!Administrator(user[u])
    BY <1>2 DEF A!Exists, A!NoUser, A!Administrator
  <2> QED
    BY <2>1, <2>2 DEF Administrators
<1>5. request'[r] # request[r]
  BY <1>2, StepKinds DEF A!Ends, A!Goes, AccessInv
<1> QED
  BY <1>1, <1>2, <1>3, <1>4, <1>5, AccountsChange DEF Governed

(* Accounts are changed by who may (AccessControl).                          *)
LEMMA UpdateGoverned ==
    ASSUME AccessInv, NEW r \in Requests, A!UpdateAccess(r)
    PROVE  AccessInv' /\ Governed(r)
<1> DEFINE q == request[r]
<1>1. /\ user' = [user EXCEPT ![q.target] = q.access] /\ A!Ends(r) /\ A!Writes(r)
      /\ UNCHANGED <<clock, session, entitled>> /\ q.pc = "decided" /\ r \notin stale
  BY DEF A!UpdateAccess, A!MayWrite
<1>2. q \in Decided /\ r \in entitled /\ Sound(q, user)
  BY <1>1, Kinds DEF AccessInv, Licensed
<1>3. q.target \in Users /\ q.access \in Accounts
  BY <1>2 DEF Decided
<1>4. Administrators(user) # {}
  BY <1>2 DEF AccessInv
<1>5. A!Administrator(q.access) \/ Administrators(user) \ {q.target} # {}
  BY <1>2, <1>4 DEF Sound
<1>6. request'[r] # request[r]
  BY <1>1, StepKinds DEF A!Ends, A!Goes, AccessInv
<1> QED
  BY <1>1, <1>2, <1>3, <1>5, <1>6, AccountsChange DEF Governed

-----------------------------------------------------------------------------
(* All steps.                                                              *)
LEMMA AccessStep ==
    ASSUME AccessInv, RolesAreKnown, [A!Next]_(A!vars)
    PROVE  AccessInv' /\ (user' # user => \E r \in Requests : Governed(r))
<1>1. CASE UNCHANGED A!vars
  BY <1>1 DEF A!vars, AccessInv, A!Exists
<1>2. CASE A!Tick
  <2>1. clock' \in Nat /\ UNCHANGED <<user, session, request, stale, entitled>>
    BY <1>2 DEF A!Tick, AccessInv
  <2> QED
    BY <2>1 DEF AccessInv, A!Exists
<1>3. ASSUME NEW r \in Requests, A!GiveUp(r) PROVE AccessInv' /\ user' = user
  <2>1. session' \in Seq(Sessions) /\ A!Ends(r) /\ stale' = stale \ {r} /\ UNCHANGED <<clock, user, entitled>>
    BY <1>3 DEF A!GiveUp, AccessInv
  <2> QED
    BY <2>1, RequestEnds
<1>4. ASSUME NEW r \in Requests, A!BeginSetup(r) \/ A!EndLogin(r) \/ A!Admit(r) \/ A!Prove(r)
      PROVE  AccessInv' /\ user' = user
  BY <1>4, SetupBegins, LoginEnds, AdmissionHolds DEF A!BeginSetup, A!EndLogin, A!Admit, A!Prove
<1>5. ASSUME NEW r \in Requests, A!Logout(r) \/ A!RotateCSRF(r) \/ A!MarkReauthenticated(r)
      PROVE  AccessInv' /\ user' = user
  BY <1>5, SessionIsChanged DEF A!Logout, A!RotateCSRF, A!MarkReauthenticated, A!Serves
<1>6. ASSUME NEW r \in Requests, NEW u \in Users, A!BeginLogin(r, u)
      PROVE  AccessInv' /\ user' = user
  BY <1>6, LoginBegins DEF A!BeginLogin
<1>7. ASSUME NEW r \in Requests, NEW u \in Users, NEW role \in Given, NEW d \in BOOLEAN,
             A!Decide(r, u, [role |-> role, disabled |-> d])
      PROVE  AccessInv' /\ user' = user
  BY <1>7, DecisionIsSound DEF A!Decide
<1>8. ASSUME NEW r \in Requests, NEW s \in DOMAIN session, NEW route \in A!Routes,
             NEW t \in 1 .. session[s].token, A!Resolve(r, s, route, t)
      PROVE  AccessInv' /\ user' = user
  BY <1>8, SessionResolves DEF A!Resolve
<1> QED
  BY <1>1, <1>2, <1>3, <1>4, <1>5, <1>6, <1>7, <1>8, SetupGoverned, CreationGoverned, UpdateGoverned
  DEF A!Next, A!vars

(* Accounts change by the first setup or by a request that began as an       *)
(* enabled administrator's, and an enabled administrator stays.              *)
THEOREM AccessStaysGoverned == ASSUME RolesAreKnown PROVE A!Spec => AccessIsGoverned
<1> DEFINE Governs ==
             user' # user =>
                 /\ \E u \in Users : A!Administrator(user'[u])
                 /\ \E r \in Requests : request'[r] # request[r] /\ (request[r].pc = "setup" \/ r \in entitled)
<1>1. A!Init => AccessInv
  <2> SUFFICES ASSUME A!Init PROVE AccessInv
    OBVIOUS
  <2>1. user \in [Users -> Accounts] /\ \A u \in Users : ~A!Exists(u)
    BY DEF A!Init, A!NoUser, Accounts, A!Exists
  <2>2. request \in [Requests -> Steps] /\ \A r \in Requests : request[r] = A!Idle
    BY DEF A!Init, Steps
  <2>3. A!Idle.pc = "idle" /\ A!Idle \notin Authenticated \cup Decided
    BY StepKinds
  <2> QED
    BY <2>1, <2>2, <2>3, EmptySeq DEF A!Init, AccessInv, Licensed
<1>2. AccessInv /\ [A!Next]_(A!vars) => AccessInv'
  BY AccessStep
<1>3. AccessInv /\ [A!Next]_(A!vars) => [Governs]_(A!vars)
  BY AccessStep DEF Governed
<1> QED
  BY <1>1, <1>2, <1>3, PTL DEF A!Spec, A!AccessIsGoverned, AccessIsGoverned

-----------------------------------------------------------------------------
ObservationsAreKnown ==
  /\ \A o \in Observations : o.id \in Nat /\ o.at \in Nat
  /\ \A o, p \in Observations : o.id = p.id => o = p
  /\ Window \in Nat /\ MaxLateness \in Nat /\ MaxLateness <= Window
  /\ MaxEventsPerGroup \in Nat \ {0}

\* Events in the order of Before, an observation perhaps more than once; and each once.
Ordered(e) == \A i, j \in 1 .. Len(e) : i < j => ~C!Before(e[j], e[i])
Rising(e) == \A i, j \in 1 .. Len(e) : i < j => C!Before(e[i], e[j])

Reaches(G, max) == (\E o \in G : o.at = max) /\ \A o \in G : o.at <= max
Apart(S, G, max) == \A x \in S \ G : x.at + Window < max /\ \A o \in G : x.at + Window < o.at + MaxLateness
Chained(G) == \A o \in G : (\E p \in G : C!Before(p, o)) => \E p \in G : C!Before(p, o) /\ o.at <= p.at + Window
Shows(e, G) ==
  /\ e \in Seq(Observations) /\ Len(e) \in 1 .. MaxEventsPerGroup /\ Rising(e)
  /\ \A i \in 1 .. Len(e) : e[i] \in G
  /\ \A o \in G : (\E i \in 1 .. Len(e) : e[i] = o) \/ (Len(e) = MaxEventsPerGroup /\ C!Before(o, e[1]))
Gathered(G, S, g) ==
  G \subseteq S /\ Reaches(G, g.max) /\ Apart(S, G, g.max) /\ Chained(G) /\ Shows(g.events, G)

Groups == [first : Nat, max : Nat, events : Seq(Observations)]
CorrelationTypes ==
  /\ group \in [C!Subjects -> Groups] /\ taken \in [C!Subjects -> SUBSET Observations] /\ spoilt \subseteq C!Subjects
  /\ \A s \in C!Subjects : IsFiniteSet(taken[s]) /\ Ordered(group[s].events)
Together ==
  \A s \in C!Subjects :
    /\ group[s] = C!NoGroup => taken[s] = {}
    /\ group[s] # C!NoGroup /\ s \notin spoilt => \E G \in SUBSET taken[s] : Gathered(G, taken[s], group[s])
CorrelationInv == CorrelationTypes /\ Together

-----------------------------------------------------------------------------
(* Before is a strict total order of the observations.                     *)
LEMMA Order ==
    ASSUME ObservationsAreKnown, NEW o \in Observations, NEW p \in Observations, NEW q \in Observations
    PROVE  /\ ~(C!Before(o, p) /\ C!Before(p, o))
           /\ o = p \/ C!Before(o, p) \/ C!Before(p, o)
           /\ C!Before(o, p) /\ C!Before(p, q) => C!Before(o, q)
           /\ C!Before(o, p) => o.at <= p.at
           /\ C!Before(o, p) => o # p
BY DEF ObservationsAreKnown, C!Before

(* A set of natural numbers that is not empty has a least.                 *)
LEMMA LeastOf ==
    ASSUME NEW S \in SUBSET Nat, S # {}
    PROVE  \E m \in S : \A y \in S : m <= y
<1> DEFINE R == {ss \in Nat \X Nat : ss[1] < ss[2]}
<1>1. IsWellFoundedOn(R, Nat)
  BY NatLessThanWellFounded, Zenon DEF OpToRel
<1> HIDE DEF R
<1>2. PICK m \in S : \A y \in S : ~(<<y, m>> \in R)
  BY <1>1, WFMin
<1>3. ASSUME NEW y \in S
      PROVE  m <= y
  <2>1. m \in Nat /\ y \in Nat /\ (y < m => <<y, m>> \in R)
    BY DEF R
  <2> QED
    BY <1>2, <2>1
<1> QED
  BY <1>3

(* Where a new event is put: everything in front of it is not after it, and everything behind is.*)
LEMMA PlaceIsThere ==
    ASSUME ObservationsAreKnown, NEW e \in Seq(Observations), Ordered(e), NEW o \in Observations
    PROVE  /\ C!Place(e, o) \in 0 .. Len(e)
           /\ \A i \in 1 .. Len(e) : i <= C!Place(e, o) <=> ~C!Before(o, e[i])
<1> DEFINE V == {i \in 1 .. Len(e) : C!Before(o, e[i])}
<1>0. Len(e) \in Nat /\ \A i \in 1 .. Len(e) : e[i] \in Observations
  BY LenProperties, ElementOfSeq
<1>1. \E k \in 0 .. Len(e) : \A i \in 1 .. Len(e) : i <= k <=> ~C!Before(o, e[i])
  <2>1. CASE V = {}
    <3>1. Len(e) \in 0 .. Len(e) /\ \A i \in 1 .. Len(e) : i <= Len(e) <=> ~C!Before(o, e[i])
      BY <1>0, <2>1
    <3> QED
      BY <3>1
  <2>2. CASE V # {}
    <3>1. V \in SUBSET Nat
      BY <1>0
    <3>2. PICK m \in V : \A y \in V : m <= y
      BY <2>2, <3>1, LeastOf
    <3>3. m \in 1 .. Len(e) /\ C!Before(o, e[m])
      BY <3>2
    <3>4. ASSUME NEW i \in 1 .. Len(e)
          PROVE  i <= m - 1 <=> ~C!Before(o, e[i])
      <4>1. CASE i < m
        BY <4>1, <3>2, <3>3, <1>0
      <4>2. CASE i = m
        BY <4>2, <3>3, <1>0
      <4>3. CASE i > m
        <5>1. ~C!Before(e[i], e[m])
          BY <4>3, <3>3 DEF Ordered
        <5>2. e[i] = e[m] \/ C!Before(e[m], e[i])
          BY <5>1, <1>0, <3>3, Order
        <5>3. C!Before(o, e[i])
          BY <5>2, <1>0, <3>3, Order
        <5> QED
          BY <4>3, <5>3, <3>3, <1>0
      <4> QED
        BY <4>1, <4>2, <4>3, <3>3, <1>0
    <3>5. m - 1 \in 0 .. Len(e)
      BY <3>3, <1>0
    <3> QED
      BY <3>4, <3>5
  <2> QED
    BY <2>1, <2>2
<1> QED
  BY <1>1 DEF C!Place

(* What the sorted sequence holds, and that it is in order.                *)
LEMMA SortedHolds ==
    ASSUME ObservationsAreKnown, NEW e \in Seq(Observations), Ordered(e), NEW o \in Observations
    PROVE  /\ C!Sorted(e, o) \in Seq(Observations) /\ Len(C!Sorted(e, o)) = Len(e) + 1
           /\ \E k \in 0 .. Len(e) :
                /\ \A i \in 1 .. Len(e) : i <= k <=> ~C!Before(o, e[i])
                /\ \A i \in 1 .. Len(e) + 1 :
                     C!Sorted(e, o)[i] = IF i <= k THEN e[i] ELSE IF i = k + 1 THEN o ELSE e[i - 1]
<1> DEFINE k == C!Place(e, o)
           t == [i \in 1 .. Len(e) + 1 |-> IF i <= k THEN e[i] ELSE IF i = k + 1 THEN o ELSE e[i - 1]]
<1>0. Len(e) \in Nat /\ \A i \in 1 .. Len(e) : e[i] \in Observations
  BY LenProperties, ElementOfSeq
<1>1. k \in 0 .. Len(e) /\ \A i \in 1 .. Len(e) : i <= k <=> ~C!Before(o, e[i])
  BY PlaceIsThere
<1>2. C!Sorted(e, o) = t
  BY DEF C!Sorted
<1> HIDE DEF k
<1>3. t \in [1 .. Len(e) + 1 -> Observations]
  BY <1>0, <1>1
<1>4. t \in Seq(Observations) /\ Len(t) = Len(e) + 1
  BY <1>0, <1>3
<1> QED
  BY <1>1, <1>2, <1>4

(* The sorted sequence is in order, and has each once if it had.           *)
LEMMA SortedIsOrdered ==
    ASSUME ObservationsAreKnown, NEW e \in Seq(Observations), Ordered(e), NEW o \in Observations
    PROVE  /\ Ordered(C!Sorted(e, o))
           /\ Rising(e) /\ (\A i \in 1 .. Len(e) : e[i] # o) => Rising(C!Sorted(e, o))
<1> DEFINE t == C!Sorted(e, o)
<1>0. Len(e) \in Nat /\ \A i \in 1 .. Len(e) : e[i] \in Observations
  BY LenProperties, ElementOfSeq
<1>1. Len(t) = Len(e) + 1
  BY SortedHolds
<1>2. PICK k \in 0 .. Len(e) :
        /\ \A i \in 1 .. Len(e) : i <= k <=> ~C!Before(o, e[i])
        /\ \A i \in 1 .. Len(e) + 1 : t[i] = IF i <= k THEN e[i] ELSE IF i = k + 1 THEN o ELSE e[i - 1]
  BY SortedHolds
<1> HIDE DEF t
<1>3. ASSUME NEW i \in 1 .. Len(t), NEW j \in 1 .. Len(t), i < j
      PROVE  /\ ~C!Before(t[j], t[i])
             /\ Rising(e) /\ (\A h \in 1 .. Len(e) : e[h] # o) => C!Before(t[i], t[j])
  <2>1. CASE j <= k
    <3>1. t[i] = e[i] /\ t[j] = e[j] /\ i \in 1 .. Len(e) /\ j \in 1 .. Len(e)
      BY <1>0, <1>1, <1>2, <1>3, <2>1
    <3> QED
      BY <3>1, <1>3 DEF Ordered, Rising
  <2>2. CASE j = k + 1
    <3>1. t[i] = e[i] /\ t[j] = o /\ i \in 1 .. Len(e) /\ i <= k
      BY <1>0, <1>1, <1>2, <1>3, <2>2
    <3>2. ~C!Before(o, e[i]) /\ e[i] \in Observations
      BY <3>1, <1>2, <1>0
    <3>3. e[i] # o => C!Before(e[i], o)
      BY <3>2, Order
    <3> QED
      BY <3>1, <3>2, <3>3
  <2>3. CASE j > k + 1 /\ i <= k
    <3>1. t[i] = e[i] /\ t[j] = e[j - 1] /\ i \in 1 .. Len(e) /\ j - 1 \in 1 .. Len(e) /\ i < j - 1
      BY <1>0, <1>1, <1>2, <1>3, <2>3
    <3> QED
      BY <3>1 DEF Ordered, Rising
  <2>4. CASE j > k + 1 /\ i = k + 1
    <3>1. t[i] = o /\ t[j] = e[j - 1] /\ j - 1 \in 1 .. Len(e) /\ ~(j - 1 <= k)
      BY <1>0, <1>1, <1>2, <1>3, <2>4
    <3>2. C!Before(o, e[j - 1]) /\ e[j - 1] \in Observations
      BY <3>1, <1>2, <1>0
    <3> QED
      BY <3>1, <3>2, Order
  <2>5. CASE j > k + 1 /\ i > k + 1
    <3>1. /\ t[i] = e[i - 1] /\ t[j] = e[j - 1] /\ i - 1 \in 1 .. Len(e) /\ j - 1 \in 1 .. Len(e)
          /\ i - 1 < j - 1
      BY <1>0, <1>1, <1>2, <1>3, <2>5
    <3> QED
      BY <3>1 DEF Ordered, Rising
  <2> QED
    BY <2>1, <2>2, <2>3, <2>4, <2>5, <1>1, <1>2, <1>0
<1>4. Ordered(t)
  BY <1>3 DEF Ordered
<1>5. Rising(e) /\ (\A i \in 1 .. Len(e) : e[i] # o) => Rising(t)
  BY <1>3 DEF Rising
<1> QED
  BY <1>4, <1>5 DEF t

(* What is left of a sequence that was cut to its newest n.                *)
LEMMA NewestHolds ==
    ASSUME NEW S, NEW t \in Seq(S), NEW n \in Nat
    PROVE  /\ C!Newest(t, n) \in Seq(S)
           /\ Len(C!Newest(t, n)) = IF Len(t) <= n THEN Len(t) ELSE n
           /\ \A i \in 1 .. Len(C!Newest(t, n)) : C!Newest(t, n)[i] = t[i + (Len(t) - Len(C!Newest(t, n)))]
<1>0. Len(t) \in Nat
  BY LenProperties
<1>1. CASE Len(t) <= n
  BY <1>0, <1>1 DEF C!Newest
<1>2. CASE Len(t) > n
  <2>1. C!Newest(t, n) = SubSeq(t, Len(t) - n + 1, Len(t))
    BY <1>0, <1>2 DEF C!Newest
  <2>2. \A i \in Len(t) - n + 1 .. Len(t) : t[i] \in S
    BY <1>0, <1>2, ElementOfSeq
  <2>3. /\ SubSeq(t, Len(t) - n + 1, Len(t)) \in Seq(S)
        /\ Len(SubSeq(t, Len(t) - n + 1, Len(t))) = n
        /\ \A i \in 1 .. n : SubSeq(t, Len(t) - n + 1, Len(t))[i] = t[i + (Len(t) - n)]
    BY <1>0, <1>2, <2>2
  <2> QED
    BY <1>0, <1>2, <2>1, <2>3
<1> QED
  BY <1>0, <1>1, <1>2

-----------------------------------------------------------------------------
(* Of any observations one is the first.                                   *)
LEMMA FirstOf ==
    ASSUME ObservationsAreKnown, NEW T \in SUBSET Observations, T # {}
    PROVE  \E m \in T : \A x \in T : x = m \/ C!Before(m, x)
<1> DEFINE Times == {x.at : x \in T}
<1>1. Times \in SUBSET Nat /\ Times # {}
  BY DEF ObservationsAreKnown
<1>2. PICK t \in Times : \A u \in Times : t <= u
  BY <1>1, LeastOf
<1> DEFINE Ids == {x.id : x \in {y \in T : y.at = t}}
<1>3. Ids \in SUBSET Nat /\ Ids # {}
  BY <1>2 DEF ObservationsAreKnown
<1>4. PICK i \in Ids : \A j \in Ids : i <= j
  BY <1>3, LeastOf
<1>5. PICK m \in T : m.at = t /\ m.id = i
  BY <1>4
<1>6. ASSUME NEW x \in T
      PROVE  x = m \/ C!Before(m, x)
  <2>1. x.at \in Nat /\ m.at \in Nat /\ m.at <= x.at /\ x.id \in Nat /\ m.id \in Nat
    BY <1>2, <1>5 DEF ObservationsAreKnown
  <2>2. x.at = m.at => m.id <= x.id
    BY <1>4, <1>5
  <2>3. x.id = m.id => x = m
    BY DEF ObservationsAreKnown
  <2> QED
    BY <2>1, <2>2, <2>3 DEF C!Before
<1> QED
  BY <1>6

(* A part of a finite set that is not all of it is smaller.                *)
LEMMA PartIsSmaller ==
    ASSUME NEW V, IsFiniteSet(V), NEW B \in SUBSET V, B # V
    PROVE  Cardinality(B) < Cardinality(V) /\ Cardinality(V) \in Nat /\ Cardinality(B) \in Nat
<1>1. IsFiniteSet(B) /\ Cardinality(B) <= Cardinality(V) /\ Cardinality(V) # Cardinality(B)
  BY FS_Subset
<1>2. Cardinality(V) \in Nat /\ Cardinality(B) \in Nat
  BY <1>1, FS_CardinalityType
<1> QED
  BY <1>1, <1>2

(* Of finitely many observations one is the last.                          *)
LEMMA LastOf ==
    ASSUME ObservationsAreKnown, NEW T \in SUBSET Observations, IsFiniteSet(T), T # {}
    PROVE  \E m \in T : \A x \in T : x = m \/ C!Before(x, m)
<1> DEFINE After(o) == {x \in T : C!Before(o, x)}
           Sizes == {Cardinality(After(o)) : o \in T}
<1>1. \A o \in T : IsFiniteSet(After(o)) /\ Cardinality(After(o)) \in Nat
  BY FS_Subset, FS_CardinalityType
<1>2. Sizes \in SUBSET Nat /\ Sizes # {}
  BY <1>1
<1>3. PICK n \in Sizes : \A k \in Sizes : n <= k
  BY <1>2, LeastOf
<1>4. PICK m \in T : Cardinality(After(m)) = n
  BY <1>3
<1>5. ASSUME NEW x \in T, C!Before(m, x)
      PROVE  FALSE
  <2>1. After(x) \subseteq After(m) /\ x \in After(m) /\ x \notin After(x)
    BY <1>5, Order
  <2>2. Cardinality(After(x)) < Cardinality(After(m))
    <3>1. After(x) \in SUBSET After(m) /\ After(x) # After(m) /\ IsFiniteSet(After(m))
      BY <2>1, <1>1
    <3> HIDE DEF After
    <3> QED
      BY <3>1, PartIsSmaller
  <2>3. n <= Cardinality(After(x))
    BY <1>3
  <2>4. n \in Nat /\ Cardinality(After(x)) \in Nat
    BY <1>1, <1>4
  <2> HIDE DEF After, Sizes
  <2> QED
    BY <2>2, <2>3, <2>4, <1>4
<1> QED
  BY <1>5, Order

-----------------------------------------------------------------------------
(* A group that begins with an observation far from all before.            *)
LEMMA Begun ==
    ASSUME ObservationsAreKnown, NEW S \in SUBSET Observations, NEW o \in Observations, o \notin S,
           \A x \in S : x.at + Window < o.at
    PROVE  Reaches({o}, o.at) /\ Apart(S \cup {o}, {o}, o.at) /\ Chained({o})
<1>1. o.at \in Nat /\ MaxLateness \in Nat /\ Window \in Nat /\ \A x \in S : x.at \in Nat
  BY DEF ObservationsAreKnown
<1>2. Reaches({o}, o.at)
  BY <1>1 DEF Reaches
<1>3. Apart(S \cup {o}, {o}, o.at)
  BY <1>1 DEF Apart
<1>4. Chained({o})
  BY Order DEF Chained
<1> QED
  BY <1>2, <1>3, <1>4

(* A group that an observation joins, neither late nor further than the    *)
(* window, before or behind or between what the group has.                 *)
LEMMA Joined ==
    ASSUME ObservationsAreKnown, NEW S \in SUBSET Observations, NEW G \in SUBSET S,
           NEW o \in Observations, o \notin S, NEW max \in Nat,
           Reaches(G, max), Apart(S, G, max), Chained(G),
           max <= o.at + MaxLateness, o.at <= max + Window
    PROVE  /\ Reaches(G \cup {o}, C!Latest(max, o.at)) /\ Apart(S \cup {o}, G \cup {o}, C!Latest(max, o.at))
           /\ Chained(G \cup {o})
<1>1. /\ o.at \in Nat /\ MaxLateness \in Nat /\ Window \in Nat /\ MaxLateness <= Window
      /\ \A x \in S : x.at \in Nat /\ x \in Observations
  BY DEF ObservationsAreKnown
<1>2. Reaches(G \cup {o}, C!Latest(max, o.at))
  BY <1>1 DEF Reaches, C!Latest
<1>3. Apart(S \cup {o}, G \cup {o}, C!Latest(max, o.at))
  <2>1. (S \cup {o}) \ (G \cup {o}) = S \ G
    OBVIOUS
  <2>2. max <= C!Latest(max, o.at) /\ C!Latest(max, o.at) \in Nat
    BY <1>1 DEF C!Latest
  <2>3. ASSUME NEW x \in S \ G
        PROVE  /\ x.at + Window < C!Latest(max, o.at)
               /\ x.at + Window < o.at + MaxLateness
               /\ \A p \in G : x.at + Window < p.at + MaxLateness
    <3>1. x.at + Window < max /\ \A p \in G : x.at + Window < p.at + MaxLateness
      BY DEF Apart
    <3> QED
      BY <3>1, <2>2, <1>1
  <2> QED
    BY <2>1, <2>3 DEF Apart
<1>4. PICK l \in G : l.at = max
  BY DEF Reaches
<1>5. ASSUME NEW p \in G, C!Before(o, p)
      PROVE  p.at <= o.at + Window
  BY <1>1 DEF Reaches
<1>6. ASSUME NEW q \in G, C!Before(q, o)
      PROVE  \E p \in G : C!Before(p, o) /\ o.at <= p.at + Window
  <2>1. CASE C!Before(l, o)
    BY <2>1, <1>4
  <2>2. CASE ~C!Before(l, o)
    <3> DEFINE T == {x \in G : ~C!Before(x, o)}
    <3>1. T \in SUBSET Observations /\ T # {}
      BY <2>2, <1>1
    <3>2. PICK r \in T : \A x \in T : x = r \/ C!Before(r, x)
      BY <3>1, FirstOf
    <3>3. r \in G /\ r # o /\ C!Before(o, r) /\ C!Before(q, r)
      BY <1>1, <1>6, Order
    <3>4. PICK p \in G : C!Before(p, r) /\ r.at <= p.at + Window
      BY <3>3 DEF Chained
    <3>5. C!Before(p, o)
      BY <3>2, <3>4, <1>1, Order
    <3>6. o.at <= r.at /\ r.at \in Nat /\ p.at \in Nat
      BY <3>3, <1>1, Order
    <3> HIDE DEF T
    <3> QED
      BY <3>4, <3>5, <3>6, <1>1
  <2> QED
    BY <2>1, <2>2
<1>7. Chained(G \cup {o})
  <2>1. ASSUME NEW p \in G \cup {o}, NEW q \in G \cup {o}, C!Before(q, p)
        PROVE  \E h \in G \cup {o} : C!Before(h, p) /\ p.at <= h.at + Window
    <3>1. CASE p = o
      <4>1. q \in G
        BY <2>1, <3>1, Order
      <4> QED
        BY <4>1, <3>1, <2>1, <1>6
    <3>2. CASE p # o /\ q = o
      BY <3>2, <2>1, <1>5
    <3>3. CASE p # o /\ q # o
      BY <3>3, <2>1 DEF Chained
    <3> QED
      BY <3>1, <3>2, <3>3
  <2> QED
    BY <2>1 DEF Chained
<1> QED
  BY <1>2, <1>3, <1>7

(* What the sequence shows of the group when an observation joins.         *)
LEMMA Shown ==
    ASSUME ObservationsAreKnown, NEW G \in SUBSET Observations, NEW e, Shows(e, G),
           NEW o \in Observations, o \notin G
    PROVE  Shows(C!Newest(C!Sorted(e, o), MaxEventsPerGroup), G \cup {o})
<1> DEFINE n == MaxEventsPerGroup
           t == C!Sorted(e, o)
           c == C!Newest(t, n)
<1>0. n \in Nat \ {0} /\ e \in Seq(Observations) /\ Len(e) \in 1 .. n
  BY DEF ObservationsAreKnown, Shows
<1>1. Rising(e) /\ (\A i \in 1 .. Len(e) : e[i] \in G /\ e[i] # o /\ e[i] \in Observations)
  BY DEF Shows
<1>2. Ordered(e)
  BY <1>1, Order DEF Rising, Ordered
<1>3. t \in Seq(Observations) /\ Len(t) = Len(e) + 1 /\ Rising(t)
  BY <1>0, <1>1, <1>2, SortedHolds, SortedIsOrdered
<1>4. PICK k \in 0 .. Len(e) :
        /\ \A i \in 1 .. Len(e) : i <= k <=> ~C!Before(o, e[i])
        /\ \A i \in 1 .. Len(e) + 1 : t[i] = IF i <= k THEN e[i] ELSE IF i = k + 1 THEN o ELSE e[i - 1]
  BY <1>0, <1>2, SortedHolds
<1>5. /\ c \in Seq(Observations) /\ Len(c) = IF Len(t) <= n THEN Len(t) ELSE n
      /\ \A i \in 1 .. Len(c) : c[i] = t[i + (Len(t) - Len(c))]
  BY <1>0, <1>3, NewestHolds
<1> HIDE DEF n, t, c
<1>6. Len(c) \in 1 .. n /\ \A i \in 1 .. Len(c) : i + (Len(t) - Len(c)) \in 1 .. Len(t)
  BY <1>0, <1>3, <1>5
<1>7. Rising(c)
  <2>1. ASSUME NEW i \in 1 .. Len(c), NEW j \in 1 .. Len(c), i < j
        PROVE  C!Before(c[i], c[j])
    <3>1. i + (Len(t) - Len(c)) < j + (Len(t) - Len(c))
      BY <2>1, <1>6, <1>3, <1>0
    <3> QED
      BY <3>1, <1>3, <1>5, <1>6 DEF Rising
  <2> QED
    BY <2>1 DEF Rising
<1>8. \A i \in 1 .. Len(t) : t[i] \in G \cup {o}
  BY <1>0, <1>1, <1>3, <1>4
<1>9. \A i \in 1 .. Len(c) : c[i] \in G \cup {o}
  BY <1>5, <1>6, <1>8
<1>10. ASSUME NEW i \in 1 .. Len(e)
       PROVE  \E j \in 1 .. Len(t) : t[j] = e[i]
  <2>1. CASE i <= k
    <3>1. i \in 1 .. Len(t) /\ t[i] = e[i]
      BY <2>1, <1>0, <1>3, <1>4
    <3> QED
      BY <3>1
  <2>2. CASE i > k
    <3>1. i + 1 \in 1 .. Len(t) /\ t[i + 1] = e[i]
      BY <2>2, <1>0, <1>3, <1>4
    <3> QED
      BY <3>1
  <2> QED
    BY <2>1, <2>2, <1>0
<1>11. k + 1 \in 1 .. Len(t) /\ t[k + 1] = o
  BY <1>0, <1>3, <1>4
<1>12. ASSUME NEW p \in G \cup {o}
       PROVE  (\E i \in 1 .. Len(c) : c[i] = p) \/ (Len(c) = n /\ C!Before(p, c[1]))
  <2>1. CASE \E j \in 1 .. Len(t) : t[j] = p
    <3>1. PICK j \in 1 .. Len(t) : t[j] = p
      BY <2>1
    <3>2. CASE Len(t) <= n
      <4>1. Len(c) = Len(t) /\ j + (Len(t) - Len(c)) = j
        BY <3>2, <1>5, <1>3, <1>0
      <4> QED
        BY <4>1, <3>1, <1>5
    <3>3. CASE Len(t) > n /\ j > 1
      <4>1. j - 1 \in 1 .. Len(c) /\ (j - 1) + (Len(t) - Len(c)) = j
        BY <3>3, <1>5, <1>3, <1>0
      <4> QED
        BY <4>1, <3>1, <1>5
    <3>4. CASE Len(t) > n /\ j = 1
      <4>1. Len(c) = n /\ 1 \in 1 .. Len(c) /\ 1 + (Len(t) - Len(c)) = 2 /\ 1 \in 1 .. Len(t) /\ 2 \in 1 .. Len(t)
        BY <3>4, <1>5, <1>3, <1>0
      <4>2. c[1] = t[2]
        BY <4>1, <1>5
      <4>3. C!Before(t[1], t[2])
        BY <4>1, <1>3 DEF Rising
      <4> QED
        BY <4>1, <4>2, <4>3, <3>1, <3>4
    <3> QED
      BY <3>2, <3>3, <3>4, <1>0, <1>3
  <2>2. CASE Len(e) = n /\ p \in G /\ C!Before(p, e[1])
    <3>1. /\ Len(c) = n /\ 1 \in 1 .. Len(c) /\ 1 + (Len(t) - Len(c)) = 2
          /\ 1 \in 1 .. Len(t) /\ 2 \in 1 .. Len(t) /\ 1 \in 1 .. Len(e)
      BY <2>2, <1>5, <1>3, <1>0
    <3>2. c[1] = t[2]
      BY <3>1, <1>5
    <3>3. CASE k = 0
      <4>1. t[2] = e[1]
        BY <3>3, <3>1, <1>0, <1>3, <1>4
      <4> QED
        BY <4>1, <3>1, <3>2, <2>2
    <3>4. CASE k # 0
      <4>1. t[1] = e[1]
        BY <3>4, <3>1, <1>0, <1>3, <1>4
      <4>2. C!Before(t[1], t[2])
        BY <3>1, <1>3 DEF Rising
      <4>3. p \in Observations /\ t[1] \in Observations /\ t[2] \in Observations
        BY <3>1, <1>3, ElementOfSeq, <2>2
      <4> QED
        BY <4>1, <4>2, <4>3, <3>1, <3>2, <2>2, Order
    <3> QED
      BY <3>3, <3>4
  <2> QED
    <3>1. p = o => \E j \in 1 .. Len(t) : t[j] = p
      BY <1>11
    <3>2. p \in G => (\E i \in 1 .. Len(e) : e[i] = p) \/ (Len(e) = n /\ C!Before(p, e[1]))
      BY DEF Shows, n
    <3> QED
      BY <3>1, <3>2, <2>1, <2>2, <1>10
<1> QED
  BY <1>5, <1>6, <1>7, <1>9, <1>12 DEF Shows, n, c, t

-----------------------------------------------------------------------------
(* Where all pauses are clear, what belongs together is what the property  *)
(* finds from all that was taken.                                          *)
LEMMA TogetherIsCluster ==
    ASSUME ObservationsAreKnown, NEW S \in SUBSET Observations, IsFiniteSet(S), NEW G \in SUBSET S,
           NEW max \in Nat, Reaches(G, max), Apart(S, G, max), Chained(G), C!Clear(S)
    PROVE  C!Cluster(S) = G
<1>1. /\ MaxLateness \in Nat /\ Window \in Nat /\ MaxLateness <= Window
      /\ \A x \in S : x.at \in Nat /\ x \in Observations
  BY DEF ObservationsAreKnown
<1>2. ASSUME NEW x \in S \ G, NEW o \in G
      PROVE  C!Before(x, o) /\ x.at + Window < o.at + MaxLateness
  <2>1. x.at + Window < o.at + MaxLateness
    BY DEF Apart
  <2>2. x.at \in Nat /\ o.at \in Nat
    BY <1>1
  <2> QED
    BY <2>1, <2>2, <1>1 DEF C!Before
<1>3. ASSUME NEW o \in G, NEW a \in S, NEW b \in S, <<a, b>> \in C!Neighbours(S),
             b.at > a.at + Window, ~C!Before(a, o)
      PROVE  FALSE
  <2>1. C!Before(a, b) /\ ~\E x \in S : C!Before(a, x) /\ C!Before(x, b)
    BY <1>3 DEF C!Neighbours
  <2>2. C!Before(o, b) /\ o \in S
    BY <2>1, <1>1, <1>3, Order
  <2>3. b \in G
    BY <2>2, <1>1, <1>2, Order
  <2>4. PICK p \in G : C!Before(p, b) /\ b.at <= p.at + Window
    BY <2>2, <2>3 DEF Chained
  <2>5. p = a \/ C!Before(p, a)
    BY <2>1, <2>4, <1>1, Order
  <2>6. p.at <= a.at
    BY <2>5, <1>1, Order
  <2> QED
    BY <2>4, <2>6, <1>1, <1>3
<1>4. ASSUME NEW o \in S \ G
      PROVE  \E a \in S, b \in S : <<a, b>> \in C!Neighbours(S) /\ b.at > a.at + Window /\ ~C!Before(a, o)
  <2>1. S \ G \in SUBSET Observations /\ IsFiniteSet(S \ G) /\ S \ G # {}
    BY FS_Subset
  <2>2. PICK a \in S \ G : \A x \in S \ G : x = a \/ C!Before(x, a)
    BY <2>1, LastOf
  <2>3. G \in SUBSET Observations /\ G # {}
    BY DEF Reaches
  <2>4. PICK b \in G : \A x \in G : x = b \/ C!Before(b, x)
    BY <2>3, FirstOf
  <2>5. C!Before(a, b) /\ a.at + Window < b.at + MaxLateness
    BY <1>2
  <2>6. ~\E x \in S : C!Before(a, x) /\ C!Before(x, b)
    BY <2>2, <2>4, <1>1, Order
  <2>7. <<a, b>> \in C!Neighbours(S)
    BY <2>5, <2>6 DEF C!Neighbours
  <2>8. b.at - a.at <= Window - MaxLateness \/ b.at - a.at > Window
    BY <2>7 DEF C!Clear, C!Pause
  <2>9. b.at > a.at + Window
    BY <2>5, <2>8, <1>1
  <2>10. ~C!Before(a, o)
    BY <2>2, <1>1, Order
  <2> QED
    BY <2>7, <2>9, <2>10
<1>5. \A p \in C!Neighbours(S) : p = <<p[1], p[2]>> /\ p[1] \in S /\ p[2] \in S
  BY DEF C!Neighbours
<1>6. G \subseteq C!Cluster(S)
  <2>1. ASSUME NEW o \in G, NEW p \in C!Neighbours(S), C!Pause(p) > Window, ~C!Before(p[1], o)
        PROVE  FALSE
    <3>1. p[2].at > p[1].at + Window
      BY <2>1, <1>1, <1>5 DEF C!Pause
    <3> QED
      BY <3>1, <2>1, <1>3, <1>5
  <2> QED
    BY <2>1 DEF C!Cluster
<1>7. C!Cluster(S) \subseteq G
  <2>1. ASSUME NEW o \in S \ G
        PROVE  \E p \in C!Neighbours(S) : C!Pause(p) > Window /\ ~C!Before(p[1], o)
    <3>1. PICK a \in S, b \in S : <<a, b>> \in C!Neighbours(S) /\ b.at > a.at + Window /\ ~C!Before(a, o)
      BY <1>4
    <3>2. C!Pause(<<a, b>>) > Window
      BY <3>1, <1>1 DEF C!Pause
    <3> QED
      BY <3>1, <3>2
  <2> QED
    BY <2>1 DEF C!Cluster
<1> QED
  BY <1>6, <1>7

(* The sequence has the newest of the group, as many as there is room for. *)
LEMMA ShowsKept ==
    ASSUME ObservationsAreKnown, NEW G \in SUBSET Observations, IsFiniteSet(G), NEW e, Shows(e, G)
    PROVE  C!Elements(e) = C!Kept(G)
<1> DEFINE n == MaxEventsPerGroup
           After(o) == {x \in G : C!Before(o, x)}
<1>1. n \in Nat \ {0} /\ e \in Seq(Observations) /\ Len(e) \in 1 .. n /\ Rising(e)
  BY DEF ObservationsAreKnown, Shows
<1>2. \A i \in 1 .. Len(e) : e[i] \in G /\ e[i] \in Observations
  BY DEF Shows
<1>3. \A i, j \in 1 .. Len(e) : i # j => e[i] # e[j]
  BY <1>1, <1>2, Order DEF Rising
<1>4. \A o \in G : IsFiniteSet(After(o)) /\ Cardinality(After(o)) \in Nat
  BY FS_Subset, FS_CardinalityType
<1>5. ASSUME NEW m \in 0 .. Len(e)
      PROVE  LET T == {e[j] : j \in m + 1 .. Len(e)}
             IN  IsFiniteSet(T) /\ Cardinality(T) = Len(e) - m
  <2> DEFINE D == m + 1 .. Len(e)
             T == {e[j] : j \in D}
             f == [j \in D |-> e[j]]
  <2>1. D \subseteq 1 .. Len(e)
    BY <1>1
  <2>2. f \in Surjection(D, T)
    BY DEF Surjection
  <2>3. f \in Injection(D, T)
    BY <2>1, <1>3 DEF Injection, IsInjective
  <2>4. IsFiniteSet(D) /\ Cardinality(D) = Len(e) - m
    <3>1. m + 1 \in Int /\ Len(e) \in Int
      BY <1>1
    <3> QED
      BY <3>1, <1>1, FS_Interval
  <2> HIDE DEF D, T, f
  <2>5. IsFiniteSet(T) /\ Cardinality(T) = Cardinality(D)
    BY <2>2, <2>3, <2>4, FS_Surjection
  <2> QED
    BY <2>4, <2>5 DEF T, D
<1>6. ASSUME NEW i \in 1 .. Len(e)
      PROVE  Cardinality(After(e[i])) < n
  <2>1. After(e[i]) \subseteq {e[j] : j \in i + 1 .. Len(e)}
    <3>1. ASSUME NEW o \in G, C!Before(e[i], o)
          PROVE  \E j \in i + 1 .. Len(e) : o = e[j]
      <4>1. 1 \in 1 .. Len(e) /\ (e[1] = e[i] \/ C!Before(e[1], e[i]))
        BY <1>1 DEF Rising
      <4>2. ~C!Before(o, e[1])
        BY <4>1, <3>1, <1>2, Order
      <4>3. PICK j \in 1 .. Len(e) : e[j] = o
        BY <4>2 DEF Shows
      <4>4. j > i
        BY <4>3, <3>1, <1>1, <1>2, Order DEF Rising
      <4> QED
        BY <4>3, <4>4, <1>1
    <3> QED
      BY <3>1
  <2>2. i \in 0 .. Len(e)
    BY <1>1
  <2>3. IsFiniteSet({e[j] : j \in i + 1 .. Len(e)}) /\ Cardinality({e[j] : j \in i + 1 .. Len(e)}) = Len(e) - i
    BY <2>2, <1>5
  <2>4. Cardinality(After(e[i])) <= Len(e) - i
    BY <2>1, <2>3, FS_Subset
  <2>5. Cardinality(After(e[i])) \in Nat
    BY <1>2, <1>4
  <2> HIDE DEF After
  <2> QED
    BY <2>4, <2>5, <1>1
<1>7. ASSUME NEW o \in G, ~\E i \in 1 .. Len(e) : e[i] = o
      PROVE  ~(Cardinality(After(o)) < n)
  <2>1. Len(e) = n /\ C!Before(o, e[1])
    BY <1>7 DEF Shows
  <2>2. {e[j] : j \in 0 + 1 .. Len(e)} \subseteq After(o)
    <3>1. ASSUME NEW j \in 1 .. Len(e)
          PROVE  e[j] \in G /\ C!Before(o, e[j])
      <4>1. 1 \in 1 .. Len(e) /\ (e[1] = e[j] \/ C!Before(e[1], e[j]))
        BY <1>1 DEF Rising
      <4> QED
        BY <4>1, <2>1, <1>2, Order
    <3> QED
      BY <3>1
  <2>3. 0 \in 0 .. Len(e)
    BY <1>1
  <2>4. Cardinality({e[j] : j \in 0 + 1 .. Len(e)}) = Len(e) - 0
    BY <2>3, <1>5
  <2>5. Cardinality({e[j] : j \in 0 + 1 .. Len(e)}) <= Cardinality(After(o))
    BY <2>2, <1>4, FS_Subset
  <2>6. Cardinality(After(o)) \in Nat
    BY <1>4
  <2> HIDE DEF After
  <2> QED
    BY <2>1, <2>4, <2>5, <2>6, <1>1
<1>8. \A V : C!Cardinality(V) = Cardinality(V)
  BY DEF C!Cardinality, Cardinality
<1> QED
  BY <1>2, <1>6, <1>7, <1>8 DEF C!Kept, C!Elements

(* The sequence that a group begins with.                                  *)
LEMMA ShownAlone ==
    ASSUME ObservationsAreKnown, NEW o \in Observations, NEW e \in Seq(Observations)
    PROVE  Len(e) = 0 => Shows(C!Newest(C!Sorted(e, o), MaxEventsPerGroup), {o})
<1> DEFINE t == C!Sorted(e, o)
<1>1. Len(e) = 0 => Ordered(e)
  BY DEF Ordered
<1>2. Ordered(e) =>
        /\ t \in Seq(Observations) /\ Len(t) = Len(e) + 1
        /\ \E k \in 0 .. Len(e) : \A i \in 1 .. Len(e) + 1 :
             t[i] = IF i <= k THEN e[i] ELSE IF i = k + 1 THEN o ELSE e[i - 1]
  BY SortedHolds
<1> HIDE DEF t
<1>3. ASSUME Len(e) = 0
      PROVE  Shows(C!Newest(t, MaxEventsPerGroup), {o})
  <2>1. t \in Seq(Observations) /\ Len(t) = 1 /\ t[1] = o
    BY <1>1, <1>2, <1>3
  <2>2. C!Newest(t, MaxEventsPerGroup) = t
    BY <2>1 DEF C!Newest, ObservationsAreKnown
  <2>3. Rising(t)
    BY <2>1 DEF Rising
  <2>4. Shows(t, {o})
    BY <2>1, <2>3 DEF Shows, ObservationsAreKnown
  <2> QED
    BY <2>2, <2>4
<1> QED
  BY <1>3 DEF t

-----------------------------------------------------------------------------
(* Before the first observation there is no group.                         *)
LEMMA CorrelationInit ==
    ASSUME ObservationsAreKnown, C!Init
    PROVE  CorrelationInv
<1>1. C!NoGroup \in Groups /\ Ordered(C!NoGroup.events)
  BY DEF C!NoGroup, Groups, Ordered
<1>2. \A s \in C!Subjects : group[s] = C!NoGroup /\ taken[s] = {} /\ IsFiniteSet(taken[s])
  BY FS_EmptySet DEF C!Init
<1> QED
  BY <1>1, <1>2 DEF C!Init, CorrelationInv, CorrelationTypes, Together

(* What an observation finds when it is taken, and what it leaves.         *)
Found(o) == IF C!IsNew(o) THEN [first |-> o.id, max |-> o.at, events |-> <<>>] ELSE group[o.subject]
Left(o) ==
  [first |-> Found(o).first, max |-> C!Latest(Found(o).max, o.at),
   events |-> C!Newest(C!Sorted(Found(o).events, o), MaxEventsPerGroup)]

(* What Take does, by what it finds and leaves.                            *)
LEMMA Taken ==
    ASSUME ObservationsAreKnown, CorrelationInv, NEW o \in Observations, C!Take(o)
    PROVE  /\ o.subject \in C!Subjects /\ ~C!IsLate(o)
           /\ group' = [group EXCEPT ![o.subject] = Left(o)]
           /\ taken' = [taken EXCEPT ![o.subject] = @ \cup {o}]
           /\ spoilt' = IF o \in taken[o.subject] THEN spoilt \cup {o.subject} ELSE spoilt
           /\ Found(o) \in Groups /\ Ordered(Found(o).events)
           /\ Left(o) \in Groups /\ Ordered(Left(o).events) /\ Left(o) # C!NoGroup
<1> DEFINE e == Found(o).events
           t == C!Sorted(e, o)
           c == C!Newest(t, MaxEventsPerGroup)
<1>0. o.subject \in C!Subjects /\ o.id \in Nat /\ o.at \in Nat /\ MaxEventsPerGroup \in Nat \ {0}
  BY DEF C!Subjects, ObservationsAreKnown
<1>1. Found(o) \in Groups /\ Ordered(e)
  <2>1. CASE C!IsNew(o)
    <3>1. Found(o) = [first |-> o.id, max |-> o.at, events |-> <<>>]
      BY <2>1 DEF Found
    <3> QED
      BY <3>1, <1>0 DEF Groups, Ordered
  <2>2. CASE ~C!IsNew(o)
    BY <2>2, <1>0 DEF Found, CorrelationInv, CorrelationTypes
  <2> QED
    BY <2>1, <2>2
<1>2. e \in Seq(Observations)
  BY <1>1 DEF Groups
<1>3. t \in Seq(Observations) /\ Len(t) = Len(e) + 1 /\ Ordered(t) /\ Len(e) \in Nat
  BY <1>1, <1>2, SortedHolds, SortedIsOrdered, LenProperties
<1>4. /\ c \in Seq(Observations) /\ Len(c) = IF Len(t) <= MaxEventsPerGroup THEN Len(t) ELSE MaxEventsPerGroup
      /\ \A i \in 1 .. Len(c) : c[i] = t[i + (Len(t) - Len(c))]
  BY <1>0, <1>3, NewestHolds
<1> HIDE DEF e, t, c
<1>5. Len(c) \in Nat \ {0} /\ \A i \in 1 .. Len(c) : i + (Len(t) - Len(c)) \in 1 .. Len(t)
  BY <1>0, <1>3, <1>4
<1>6. Ordered(c)
  <2>1. ASSUME NEW i \in 1 .. Len(c), NEW j \in 1 .. Len(c), i < j
        PROVE  ~C!Before(c[j], c[i])
    <3>1. i + (Len(t) - Len(c)) < j + (Len(t) - Len(c))
      BY <2>1, <1>5, <1>3
    <3> QED
      BY <3>1, <1>3, <1>4, <1>5 DEF Ordered
  <2> QED
    BY <2>1 DEF Ordered
<1>7. Left(o) = [first |-> Found(o).first, max |-> C!Latest(Found(o).max, o.at), events |-> c]
  BY DEF Left, c, t, e
<1>8. C!Latest(Found(o).max, o.at) \in Nat /\ Found(o).first \in Nat
  BY <1>0, <1>1 DEF C!Latest, Groups
<1>9. Left(o) \in Groups /\ Left(o).events = c
  BY <1>4, <1>7, <1>8 DEF Groups
<1>10. Left(o) # C!NoGroup
  BY <1>5, <1>9 DEF C!NoGroup
<1>11. /\ ~C!IsLate(o)
       /\ group' = [group EXCEPT ![o.subject] = Left(o)]
       /\ taken' = [taken EXCEPT ![o.subject] = @ \cup {o}]
       /\ spoilt' = IF o \in taken[o.subject] THEN spoilt \cup {o.subject} ELSE spoilt
  BY DEF C!Take, Left, Found
<1> QED
  BY <1>0, <1>1, <1>6, <1>9, <1>10, <1>11 DEF e

(* What belongs together when an observation was taken.                    *)
LEMMA TakeGathers ==
    ASSUME ObservationsAreKnown, CorrelationInv, NEW o \in Observations, C!Take(o),
           NEW S, S = taken[o.subject], o.subject \notin spoilt, o \notin S
    PROVE  \E G \in SUBSET (S \cup {o}) : Gathered(G, S \cup {o}, Left(o))
<1> DEFINE s == o.subject
           g == group[s]
<1>0. /\ o.at \in Nat /\ Window \in Nat /\ MaxLateness \in Nat /\ MaxEventsPerGroup \in Nat \ {0}
      /\ s \in C!Subjects /\ S \in SUBSET Observations /\ g \in Groups /\ ~C!IsLate(o)
  BY Taken DEF ObservationsAreKnown, CorrelationInv, CorrelationTypes
<1>1. g # C!NoGroup => \E G \in SUBSET S : Gathered(G, S, g)
  BY <1>0 DEF CorrelationInv, Together
<1>2. CASE C!IsNew(o)
  <2>1. \A x \in S : x.at + Window < o.at
    <3>1. CASE g = C!NoGroup
      <4>1. S = {}
        BY <3>1, <1>0 DEF CorrelationInv, Together
      <4> QED
        BY <4>1
    <3>2. CASE g # C!NoGroup
      <4>1. PICK G \in SUBSET S : Gathered(G, S, g)
        BY <1>1, <3>2
      <4>2. g.max \in Nat /\ o.at > g.max + Window /\ \A x \in S : x.at \in Nat
        BY <1>0, <1>2, <3>2 DEF C!IsNew, Groups, ObservationsAreKnown
      <4>3. (\A x \in G : x.at <= g.max) /\ \A x \in S \ G : x.at + Window < g.max
        BY <4>1 DEF Gathered, Reaches, Apart
      <4>4. ASSUME NEW x \in S
            PROVE  x.at + Window < o.at
        <5>1. x.at <= g.max \/ x.at + Window < g.max
          BY <4>3
        <5> QED
          BY <5>1, <4>2, <1>0
      <4> QED
        BY <4>4
    <3> QED
      BY <3>1, <3>2
  <2>2. Reaches({o}, o.at) /\ Apart(S \cup {o}, {o}, o.at) /\ Chained({o})
    BY <1>0, <2>1, Begun
  <2>3. Left(o).max = o.at /\ Left(o).events = C!Newest(C!Sorted(<<>>, o), MaxEventsPerGroup)
    BY <1>0, <1>2 DEF Left, Found, C!Latest
  <2>4. Shows(Left(o).events, {o})
    <3>1. <<>> \in Seq(Observations) /\ Len(<<>>) = 0
      OBVIOUS
    <3> QED
      BY <2>3, <3>1, ShownAlone
  <2> QED
    BY <2>2, <2>3, <2>4 DEF Gathered
<1>3. CASE ~C!IsNew(o)
  <2>1. g # C!NoGroup /\ g.max \in Nat
    BY <1>0, <1>3 DEF C!IsNew, Groups
  <2>2. PICK G \in SUBSET S : Gathered(G, S, g)
    BY <1>1, <2>1
  <2>3. g.max <= o.at + MaxLateness /\ o.at <= g.max + Window
    BY <1>0, <1>3, <2>1 DEF C!IsNew, C!IsLate
  <2>4. Reaches(G, g.max) /\ Apart(S, G, g.max) /\ Chained(G) /\ Shows(g.events, G)
    BY <2>2 DEF Gathered
  <2>5. /\ Reaches(G \cup {o}, C!Latest(g.max, o.at)) /\ Apart(S \cup {o}, G \cup {o}, C!Latest(g.max, o.at))
        /\ Chained(G \cup {o})
    BY <1>0, <2>1, <2>3, <2>4, Joined
  <2>6. Shows(C!Newest(C!Sorted(g.events, o), MaxEventsPerGroup), G \cup {o})
    BY <1>0, <2>4, Shown
  <2>7. /\ Left(o).max = C!Latest(g.max, o.at)
        /\ Left(o).events = C!Newest(C!Sorted(g.events, o), MaxEventsPerGroup)
    BY <1>3 DEF Left, Found
  <2> QED
    BY <2>5, <2>6, <2>7 DEF Gathered
<1> QED
  BY <1>2, <1>3

(* Every step keeps together what belongs together.                        *)
LEMMA CorrelationStep ==
    ASSUME ObservationsAreKnown, CorrelationInv, [C!Next]_(C!vars)
    PROVE  CorrelationInv'
<1>1. ASSUME NEW o \in Observations, C!Late(o)
      PROVE  CorrelationInv'
  <2>1. o.subject \in C!Subjects /\ spoilt' = spoilt \cup {o.subject} /\ group' = group /\ taken' = taken
    BY <1>1 DEF C!Late, C!Subjects
  <2>2. CorrelationTypes'
    BY <2>1 DEF CorrelationInv, CorrelationTypes
  <2>3. Together'
    BY <2>1 DEF CorrelationInv, Together
  <2> QED
    BY <2>2, <2>3 DEF CorrelationInv
<1>2. ASSUME NEW o \in Observations, C!Take(o)
      PROVE  CorrelationInv'
  <2> DEFINE s == o.subject
  <2>1. /\ s \in C!Subjects
        /\ group' = [group EXCEPT ![s] = Left(o)] /\ taken' = [taken EXCEPT ![s] = @ \cup {o}]
        /\ spoilt' = IF o \in taken[s] THEN spoilt \cup {s} ELSE spoilt
        /\ Left(o) \in Groups /\ Ordered(Left(o).events) /\ Left(o) # C!NoGroup
    BY <1>2, Taken
  <2>2. /\ group \in [C!Subjects -> Groups]
        /\ taken \in [C!Subjects -> SUBSET Observations] /\ spoilt \subseteq C!Subjects
        /\ \A u \in C!Subjects : IsFiniteSet(taken[u]) /\ Ordered(group[u].events)
    BY DEF CorrelationInv, CorrelationTypes
  <2>3. /\ group'[s] = Left(o) /\ taken'[s] = taken[s] \cup {o}
        /\ \A u \in C!Subjects \ {s} : group'[u] = group[u] /\ taken'[u] = taken[u]
    BY <2>1, <2>2
  <2>4. IsFiniteSet(taken[s] \cup {o})
    BY <2>1, <2>2, FS_AddElement
  <2>5. CorrelationTypes'
    <3>1. /\ group' \in [C!Subjects -> Groups]
          /\ taken' \in [C!Subjects -> SUBSET Observations] /\ spoilt' \subseteq C!Subjects
      BY <2>1, <2>2
    <3>2. \A u \in C!Subjects : IsFiniteSet(taken'[u]) /\ Ordered(group'[u].events)
      BY <2>1, <2>2, <2>3, <2>4
    <3> QED
      BY <3>1, <3>2 DEF CorrelationTypes
  <2>6. s \notin spoilt' => \E G \in SUBSET taken'[s] : Gathered(G, taken'[s], group'[s])
    <3>1. ASSUME s \notin spoilt'
          PROVE  s \notin spoilt /\ o \notin taken[s]
      BY <3>1, <2>1
    <3> QED
      BY <3>1, <2>3, <1>2, TakeGathers
  <2>7. ASSUME NEW u \in C!Subjects \ {s}
        PROVE  /\ group'[u] = C!NoGroup => taken'[u] = {}
               /\ group'[u] # C!NoGroup /\ u \notin spoilt' =>
                    \E G \in SUBSET taken'[u] : Gathered(G, taken'[u], group'[u])
    <3>1. group'[u] = group[u] /\ taken'[u] = taken[u] /\ (u \notin spoilt' => u \notin spoilt)
      BY <2>1, <2>3
    <3> QED
      BY <3>1 DEF CorrelationInv, Together
  <2>8. Together'
    BY <2>1, <2>3, <2>6, <2>7 DEF Together
  <2> QED
    BY <2>5, <2>8 DEF CorrelationInv
<1>3. ASSUME NEW t \in Nat, C!Prune(t)
      PROVE  CorrelationInv'
  <2> DEFINE gone == {s \in C!Subjects : group[s] # C!NoGroup /\ group[s].max < t}
  <2>1. /\ group' = [s \in C!Subjects |-> IF s \in gone THEN C!NoGroup ELSE group[s]]
        /\ taken' = [s \in C!Subjects |-> IF s \in gone THEN {} ELSE taken[s]]
        /\ spoilt' = spoilt \ gone
    BY <1>3 DEF C!Prune
  <2>2. C!NoGroup \in Groups /\ Ordered(C!NoGroup.events) /\ IsFiniteSet({})
    BY FS_EmptySet DEF C!NoGroup, Groups, Ordered
  <2> HIDE DEF gone
  <2>3. /\ group \in [C!Subjects -> Groups]
        /\ taken \in [C!Subjects -> SUBSET Observations] /\ spoilt \subseteq C!Subjects
        /\ \A u \in C!Subjects : IsFiniteSet(taken[u]) /\ Ordered(group[u].events)
    BY DEF CorrelationInv, CorrelationTypes
  <2>4. CorrelationTypes'
    <3>1. /\ group' \in [C!Subjects -> Groups]
          /\ taken' \in [C!Subjects -> SUBSET Observations] /\ spoilt' \subseteq C!Subjects
      BY <2>1, <2>2, <2>3
    <3>2. \A u \in C!Subjects : IsFiniteSet(taken'[u]) /\ Ordered(group'[u].events)
      BY <2>1, <2>2, <2>3
    <3> QED
      BY <3>1, <3>2 DEF CorrelationTypes
  <2>5. ASSUME NEW u \in C!Subjects
        PROVE  /\ group'[u] = C!NoGroup => taken'[u] = {}
               /\ group'[u] # C!NoGroup /\ u \notin spoilt' =>
                    \E G \in SUBSET taken'[u] : Gathered(G, taken'[u], group'[u])
    <3>1. CASE u \in gone
      BY <3>1, <2>1
    <3>2. CASE u \notin gone
      <4>1. group'[u] = group[u] /\ taken'[u] = taken[u] /\ (u \notin spoilt' => u \notin spoilt)
        BY <3>2, <2>1
      <4> QED
        BY <4>1 DEF CorrelationInv, Together
    <3> QED
      BY <3>1, <3>2
  <2>6. Together'
    BY <2>5 DEF Together
  <2> QED
    BY <2>4, <2>6 DEF CorrelationInv
<1>4. CASE UNCHANGED C!vars
  <2>1. group' = group /\ taken' = taken /\ spoilt' = spoilt
    BY <1>4 DEF C!vars
  <2> QED
    BY <2>1 DEF CorrelationInv, CorrelationTypes, Together
<1>5. ASSUME NEW o \in Observations, C!Duplicate(o)
      PROVE  CorrelationInv'
  BY <1>4, <1>5 DEF C!Duplicate
<1>6. \A t \in {o.at + 1 : o \in Observations} : t \in Nat
  BY DEF ObservationsAreKnown
<1> QED
  BY <1>1, <1>2, <1>3, <1>4, <1>5, <1>6 DEF C!Next

(* A group does not depend on the order its observations came in.          *)
LEMMA InvAgrees ==
    ASSUME ObservationsAreKnown, CorrelationInv
    PROVE  C!ShuffledAgree
<1>1. ASSUME NEW s \in C!Subjects, group[s] # C!NoGroup, s \notin spoilt, C!Clear(taken[s])
      PROVE  C!Elements(group[s].events) = C!Kept(C!Cluster(taken[s])) /\ Rising(group[s].events)
  <2>1. taken[s] \in SUBSET Observations /\ IsFiniteSet(taken[s]) /\ group[s].max \in Nat
    BY DEF CorrelationInv, CorrelationTypes, Groups
  <2>2. PICK G \in SUBSET taken[s] : Gathered(G, taken[s], group[s])
    BY <1>1 DEF CorrelationInv, Together
  <2>3. C!Cluster(taken[s]) = G
    BY <1>1, <2>1, <2>2, TogetherIsCluster DEF Gathered
  <2>4. G \in SUBSET Observations /\ IsFiniteSet(G) /\ Shows(group[s].events, G)
    BY <2>1, <2>2, FS_Subset DEF Gathered
  <2>5. C!Elements(group[s].events) = C!Kept(G)
    BY <2>4, ShowsKept
  <2> QED
    BY <2>3, <2>4, <2>5 DEF Shows
<1> QED
  BY <1>1 DEF C!ShuffledAgree, Rising

(* ShuffledAgree: a group has what the observations that were taken say, in*)
(* their order, in whichever order and however often they came.            *)
THEOREM GroupsAgree == ASSUME ObservationsAreKnown PROVE C!Spec => []ShuffledAgree
<1>1. C!Init => CorrelationInv
  BY CorrelationInit
<1>2. CorrelationInv /\ [C!Next]_(C!vars) => CorrelationInv'
  BY CorrelationStep
<1>3. CorrelationInv => ShuffledAgree
  BY InvAgrees DEF ShuffledAgree
<1> QED
  BY <1>1, <1>2, <1>3, PTL DEF C!Spec

-----------------------------------------------------------------------------
(* What further is asked of observations where the risk of a group is.     *)
EvidenceIsKnown ==
  /\ \A o \in Observations :
       o.confidence \in Nat /\ o.dwell \in Nat /\ o.cross \in Nat /\ IsFiniteSet(o.artifacts)
  /\ MaxArtifacts \in Nat

(* A finite set of numbers has a greatest, which no greater set has below. *)
LEMMA GreatestOf ==
    ASSUME NEW S \in SUBSET Nat, IsFiniteSet(S), S # {}
    PROVE  C!Greatest(S) \in S /\ \A y \in S : y <= C!Greatest(S)
<1> DEFINE Above(x) == {y \in S : y > x}
           Sizes == {Cardinality(Above(x)) : x \in S}
<1>1. \A x \in S : IsFiniteSet(Above(x)) /\ Cardinality(Above(x)) \in Nat
  BY FS_Subset, FS_CardinalityType
<1>2. Sizes \in SUBSET Nat /\ Sizes # {}
  BY <1>1
<1>3. PICK n \in Sizes : \A k \in Sizes : n <= k
  BY <1>2, LeastOf
<1>4. PICK m \in S : Cardinality(Above(m)) = n
  BY <1>3
<1>5. ASSUME NEW x \in S, x > m
      PROVE  FALSE
  <2>1. Above(x) \in SUBSET Above(m) /\ Above(x) # Above(m)
    <3>1. x \in Above(m) /\ x \notin Above(x)
      BY <1>5
    <3>2. ASSUME NEW y \in S, y > x
          PROVE  y > m
      <4>1. x \in Nat /\ m \in Nat /\ y \in Nat
        OBVIOUS
      <4> QED
        BY <4>1, <3>2, <1>5
    <3>3. Above(x) \subseteq Above(m)
      BY <3>2
    <3> HIDE DEF Above
    <3> QED
      BY <3>1, <3>3
  <2>2. n <= Cardinality(Above(x)) /\ IsFiniteSet(Above(m))
    BY <1>1, <1>3
  <2> HIDE DEF Above, Sizes
  <2>3. Cardinality(Above(x)) < Cardinality(Above(m)) /\ Cardinality(Above(m)) \in Nat /\ Cardinality(Above(x)) \in Nat
    BY <2>1, <2>2, PartIsSmaller
  <2> QED
    BY <2>2, <2>3, <1>4
<1>6. \A y \in S : y <= m
  BY <1>5
<1> QED
  BY <1>6 DEF C!Greatest

(* Where everything is exceeded, the greatest is.                          *)
LEMMA GreatestGrows ==
    ASSUME NEW S \in SUBSET Nat, IsFiniteSet(S), S # {}, NEW T \in SUBSET Nat, IsFiniteSet(T),
           \A x \in S : \E y \in T : x <= y
    PROVE  C!Greatest(S) \in Nat /\ C!Greatest(T) \in Nat /\ C!Greatest(S) <= C!Greatest(T)
<1>1. T # {}
  OBVIOUS
<1>2. C!Greatest(S) \in S /\ C!Greatest(T) \in T /\ \A y \in T : y <= C!Greatest(T)
  BY <1>1, GreatestOf
<1>3. PICK y \in T : C!Greatest(S) <= y
  BY <1>2
<1>4. C!Greatest(S) \in Nat /\ C!Greatest(T) \in Nat /\ y \in Nat /\ y <= C!Greatest(T)
  BY <1>2
<1> QED
  BY <1>3, <1>4

(* What a function makes of a finite set, and the elements of a sequence.  *)
LEMMA ImageIsFinite ==
    ASSUME NEW E, IsFiniteSet(E), NEW f
    PROVE  IsFiniteSet({f[x] : x \in E})
<1> DEFINE T == {f[x] : x \in E}
           h == [x \in E |-> f[x]]
<1>1. h \in Surjection(E, T)
  BY DEF Surjection
<1> QED
  BY <1>1, FS_Surjection

(* A sequence has finitely many elements.                                  *)
LEMMA ElementsAreFinite ==
    ASSUME NEW S, NEW e \in Seq(S)
    PROVE  IsFiniteSet(C!Elements(e)) /\ C!Elements(e) \in SUBSET S
<1>1. Len(e) \in Nat /\ \A i \in 1 .. Len(e) : e[i] \in S
  BY LenProperties, ElementOfSeq
<1>2. IsFiniteSet(1 .. Len(e))
  <2>1. 1 \in Int /\ Len(e) \in Int
    BY <1>1
  <2> QED
    BY <2>1, FS_Interval
<1> QED
  BY <1>1, <1>2, ImageIsFinite DEF C!Elements

-----------------------------------------------------------------------------
(* mergeIdentity along the events is a function, of any number of them.    *)
LEMMA FoldExists ==
    ASSUME NEW e, NEW n \in Nat
    PROVE  \E m : m = [i \in 0 .. n |-> IF i = 0 THEN "" ELSE C!MergeIdentity(m[i - 1], e[i].identity)]
<1> DEFINE Good(k) == \E m : m = [i \in 0 .. k |-> IF i = 0 THEN "" ELSE C!MergeIdentity(m[i - 1], e[i].identity)]
           Bad == {k \in Nat : ~Good(k)}
<1>1. Good(0)
  <2> DEFINE m == [i \in 0 .. 0 |-> ""]
  <2>1. m = [i \in 0 .. 0 |-> IF i = 0 THEN "" ELSE C!MergeIdentity(m[i - 1], e[i].identity)]
    OBVIOUS
  <2> QED
    BY <2>1
<1>2. ASSUME NEW k \in Nat, Good(k)
      PROVE  Good(k + 1)
  <2>1. PICK m : m = [i \in 0 .. k |-> IF i = 0 THEN "" ELSE C!MergeIdentity(m[i - 1], e[i].identity)]
    BY <1>2
  <2>0. \A i \in 0 .. k : m[i] = IF i = 0 THEN "" ELSE C!MergeIdentity(m[i - 1], e[i].identity)
    BY <2>1
  <2> DEFINE w == [i \in 0 .. k + 1 |-> IF i <= k THEN m[i] ELSE C!MergeIdentity(m[k], e[k + 1].identity)]
  <2>2. \A i \in 0 .. k : w[i] = m[i]
    OBVIOUS
  <2>3. ASSUME NEW i \in 0 .. k + 1
        PROVE  w[i] = IF i = 0 THEN "" ELSE C!MergeIdentity(w[i - 1], e[i].identity)
    <3>1. CASE i = 0
      <4>1. w[0] = m[0] /\ m[0] = ""
        <5>1. 0 \in 0 .. k
          OBVIOUS
        <5> HIDE DEF w
        <5> QED
          BY <5>1, <2>0, <2>2
      <4> QED
        BY <4>1, <3>1
    <3>2. CASE i \in 1 .. k
      <4>1. i - 1 \in 0 .. k /\ i \in 0 .. k /\ i # 0
        BY <3>2
      <4>2. w[i - 1] = m[i - 1] /\ w[i] = m[i] /\ m[i] = C!MergeIdentity(m[i - 1], e[i].identity)
        BY <4>1, <2>0, <2>2
      <4> HIDE DEF w
      <4> QED
        BY <4>1, <4>2
    <3>3. CASE i = k + 1
      <4>1. i - 1 = k /\ i # 0 /\ ~(i <= k)
        BY <3>3
      <4>2. w[i] = C!MergeIdentity(m[k], e[k + 1].identity) /\ w[i - 1] = m[k]
        BY <4>1, <2>2
      <4> HIDE DEF w
      <4> QED
        BY <4>1, <4>2, <3>3
    <3>4. i = 0 \/ i \in 1 .. k \/ i = k + 1
      OBVIOUS
    <3> HIDE DEF w
    <3> QED
      BY <3>1, <3>2, <3>3, <3>4
  <2>4. w = [i \in 0 .. k + 1 |-> IF i = 0 THEN "" ELSE C!MergeIdentity(w[i - 1], e[i].identity)]
    BY <2>3
  <2> QED
    BY <2>4
<1> HIDE DEF Good
<1>3. ASSUME NEW k \in Bad
      PROVE  \E j \in Bad : j < k
  <2>1. k \in Nat /\ ~Good(k) /\ k # 0
    BY <1>1
  <2>2. k - 1 \in Nat /\ ~Good(k - 1)
    <3>1. k - 1 \in Nat /\ k = (k - 1) + 1
      BY <2>1
    <3> QED
      BY <3>1, <2>1, <1>2
  <2> QED
    BY <2>2
<1>4. Bad = {}
  <2>1. Bad \in SUBSET Nat
    OBVIOUS
  <2> HIDE DEF Bad
  <2>2. SUFFICES ASSUME Bad # {} PROVE FALSE
    OBVIOUS
  <2>3. PICK k \in Bad : \A j \in Bad : k <= j
    BY <2>1, <2>2, LeastOf
  <2>4. PICK j \in Bad : j < k
    BY <1>3
  <2> QED
    BY <2>1, <2>3, <2>4
<1>5. Good(n)
  BY <1>4
<1> QED
  BY <1>5 DEF Good

(* The merged identity is the highest of those that were observed.         *)
LEMMA IdentityIsHighest ==
    ASSUME NEW S, NEW e \in Seq(S)
    PROVE  /\ \A i \in 1 .. Len(e) : C!Rank(e[i].identity) <= C!Rank(C!Identity(e))
           /\ C!Identity(e) = "" \/ \E i \in 1 .. Len(e) : C!Identity(e) = e[i].identity
<1> DEFINE Is(m) == m = [i \in 0 .. Len(e) |-> IF i = 0 THEN "" ELSE C!MergeIdentity(m[i - 1], e[i].identity)]
           m == CHOOSE m : Is(m)
           P(k) == /\ \A i \in 1 .. k : C!Rank(e[i].identity) <= C!Rank(m[k])
                   /\ m[k] = "" \/ \E i \in 1 .. k : m[k] = e[i].identity
           Bad == {k \in 0 .. Len(e) : ~P(k)}
<1>0. Len(e) \in Nat
  BY LenProperties
<1>1. C!Identity(e) = m[Len(e)]
  BY DEF C!Identity
<1>2. Is(m)
  <2>1. \E w : Is(w)
    BY <1>0, FoldExists
  <2> QED
    BY <2>1
<1> HIDE DEF m
<1>3. m[0] = "" /\ \A k \in 1 .. Len(e) : m[k] = C!MergeIdentity(m[k - 1], e[k].identity)
  <2>1. \A i \in 0 .. Len(e) : m[i] = IF i = 0 THEN "" ELSE C!MergeIdentity(m[i - 1], e[i].identity)
    BY <1>2
  <2>2. 0 \in 0 .. Len(e) /\ \A k \in 1 .. Len(e) : k \in 0 .. Len(e) /\ k # 0
    BY <1>0
  <2> QED
    BY <2>1, <2>2
<1>4. \A x : C!Rank(x) \in Nat
  BY DEF C!Rank
<1>5. P(0)
  <2>1. 1 .. 0 = {}
    OBVIOUS
  <2> QED
    BY <1>3, <2>1
<1>6. ASSUME NEW k \in 1 .. Len(e), P(k - 1)
      PROVE  P(k)
  <2>1. m[k] = C!MergeIdentity(m[k - 1], e[k].identity)
    BY <1>3
  <2>2. (\A i \in 1 .. k - 1 : C!Rank(e[i].identity) <= C!Rank(m[k - 1])) /\
        (m[k - 1] = "" \/ \E i \in 1 .. k - 1 : m[k - 1] = e[i].identity)
    BY <1>6
  <2>3. C!Rank(m[k - 1]) <= C!Rank(m[k]) /\ C!Rank(e[k].identity) <= C!Rank(m[k])
    BY <2>1, <1>4 DEF C!MergeIdentity
  <2>4. m[k] = m[k - 1] \/ m[k] = e[k].identity
    BY <2>1 DEF C!MergeIdentity
  <2>5. \A i \in 1 .. k : i = k \/ i \in 1 .. k - 1
    BY <1>0
  <2>6. ASSUME NEW i \in 1 .. k
        PROVE  C!Rank(e[i].identity) <= C!Rank(m[k])
    <3>1. CASE i = k
      BY <3>1, <2>3
    <3>2. CASE i \in 1 .. k - 1
      <4>1. C!Rank(e[i].identity) <= C!Rank(m[k - 1])
        BY <3>2, <2>2
      <4>2. C!Rank(e[i].identity) \in Nat /\ C!Rank(m[k - 1]) \in Nat /\ C!Rank(m[k]) \in Nat
        BY <1>4
      <4> QED
        BY <4>1, <4>2, <2>3
    <3> QED
      BY <3>1, <3>2, <2>5
  <2>7. m[k] = "" \/ \E i \in 1 .. k : m[k] = e[i].identity
    <3>1. k \in 1 .. k /\ \A i \in 1 .. k - 1 : i \in 1 .. k
      BY <1>0
    <3> QED
      BY <3>1, <2>2, <2>4
  <2> QED
    BY <2>6, <2>7
<1> HIDE DEF P
<1>7. Bad = {}
  <2>1. Bad \in SUBSET Nat
    BY <1>0
  <2>2. SUFFICES ASSUME Bad # {} PROVE FALSE
    OBVIOUS
  <2>3. PICK k \in Bad : \A j \in Bad : k <= j
    BY <2>1, <2>2, LeastOf
  <2>4. k \in 1 .. Len(e) /\ k - 1 \in 0 .. Len(e) /\ k - 1 < k /\ ~P(k)
    BY <1>0, <1>5, <2>3
  <2>5. k - 1 \notin Bad
    BY <2>1, <2>3, <2>4
  <2> QED
    BY <1>6, <2>4, <2>5
<1>8. P(Len(e))
  BY <1>0, <1>7
<1> QED
  BY <1>1, <1>8 DEF P

-----------------------------------------------------------------------------
(* The greatest of some number of the observations.                        *)
Most(f, E) == C!Greatest({f[o] : o \in E})
MostWith(f, E, a) == C!Greatest({f[o] : o \in E} \cup {a})

(* More observations have a greatest number that is no smaller.            *)
LEMMA NumbersGrow ==
    ASSUME NEW E, IsFiniteSet(E), E # {}, NEW F, IsFiniteSet(F), E \subseteq F,
           NEW f, \A o \in F : f[o] \in Nat
    PROVE  Most(f, E) \in Nat /\ Most(f, F) \in Nat /\ Most(f, E) <= Most(f, F)
<1> DEFINE S == {f[o] : o \in E}
           T == {f[o] : o \in F}
<1>1. IsFiniteSet(S) /\ IsFiniteSet(T)
  BY ImageIsFinite
<1>2. S \in SUBSET Nat /\ S # {} /\ T \in SUBSET Nat
  OBVIOUS
<1>3. \A x \in S : \E y \in T : x <= y
  OBVIOUS
<1> HIDE DEF S, T
<1>4. C!Greatest(S) \in Nat /\ C!Greatest(T) \in Nat /\ C!Greatest(S) <= C!Greatest(T)
  BY <1>1, <1>2, <1>3, GreatestGrows
<1> QED
  BY <1>4 DEF S, T, Most

(* The confidence of more observations.                                    *)
LEMMA ConfidenceGrows ==
    ASSUME EvidenceIsKnown, NEW F \in SUBSET Observations, IsFiniteSet(F), NEW E \in SUBSET F, E # {}
    PROVE  /\ C!Greatest({o.confidence : o \in E}) \in Nat /\ C!Greatest({o.confidence : o \in F}) \in Nat
           /\ C!Greatest({o.confidence : o \in E}) <= C!Greatest({o.confidence : o \in F})
<1> DEFINE f == [o \in F |-> o.confidence]
<1>1. IsFiniteSet(E) /\ E \subseteq F /\ \A o \in F : f[o] \in Nat
  BY FS_Subset DEF EvidenceIsKnown
<1>2. {f[o] : o \in E} = {o.confidence : o \in E} /\ {f[o] : o \in F} = {o.confidence : o \in F}
  OBVIOUS
<1> HIDE DEF f
<1>3. Most(f, E) \in Nat /\ Most(f, F) \in Nat /\ Most(f, E) <= Most(f, F)
  BY <1>1, NumbersGrow
<1> QED
  BY <1>2, <1>3 DEF Most

(* Numbers of observations with one more that is counted for them together.*)
LEMMA NumbersGrowWith ==
    ASSUME NEW E, IsFiniteSet(E), NEW F, IsFiniteSet(F), E \subseteq F,
           NEW f, \A o \in F : f[o] \in Nat, NEW a \in Nat, NEW b \in Nat, a <= b
    PROVE  MostWith(f, E, a) \in Nat /\ MostWith(f, F, b) \in Nat /\ MostWith(f, E, a) <= MostWith(f, F, b)
<1> DEFINE S == {f[o] : o \in E} \cup {a}
           T == {f[o] : o \in F} \cup {b}
<1>1. IsFiniteSet(S) /\ IsFiniteSet(T)
  <2>1. IsFiniteSet({f[o] : o \in E}) /\ IsFiniteSet({f[o] : o \in F})
    BY ImageIsFinite
  <2> QED
    BY <2>1, FS_AddElement
<1>2. S \in SUBSET Nat /\ S # {} /\ T \in SUBSET Nat
  OBVIOUS
<1>3. \A x \in S : \E y \in T : x <= y
  <2>1. \A o \in E : o \in F /\ f[o] <= f[o]
    OBVIOUS
  <2>2. ASSUME NEW x \in S
        PROVE  \E y \in T : x <= y
    <3>1. CASE x = a
      BY <3>1
    <3>2. CASE x # a
      <4>1. PICK o \in E : x = f[o]
        BY <3>2
      <4>2. x \in T /\ x <= x
        BY <4>1, <2>1
      <4> QED
        BY <4>2
    <3> QED
      BY <3>1, <3>2
  <2> QED
    BY <2>2
<1> HIDE DEF S, T
<1>4. C!Greatest(S) \in Nat /\ C!Greatest(T) \in Nat /\ C!Greatest(S) <= C!Greatest(T)
  BY <1>1, <1>2, <1>3, GreatestGrows
<1> QED
  BY <1>4 DEF S, T, MostWith

(* The dwell of more observations and a longer span.                       *)
LEMMA DwellGrows ==
    ASSUME EvidenceIsKnown, NEW F \in SUBSET Observations, IsFiniteSet(F), NEW E \in SUBSET F,
           NEW a \in Nat, NEW b \in Nat, a <= b
    PROVE  /\ C!Greatest({o.dwell : o \in E} \cup {a}) \in Nat /\ C!Greatest({o.dwell : o \in F} \cup {b}) \in Nat
           /\ C!Greatest({o.dwell : o \in E} \cup {a}) <= C!Greatest({o.dwell : o \in F} \cup {b})
<1> DEFINE f == [o \in F |-> o.dwell]
<1>1. IsFiniteSet(E) /\ E \subseteq F /\ \A o \in F : f[o] \in Nat
  BY FS_Subset DEF EvidenceIsKnown
<1>2. {f[o] : o \in E} = {o.dwell : o \in E} /\ {f[o] : o \in F} = {o.dwell : o \in F}
  OBVIOUS
<1> HIDE DEF f
<1>3. MostWith(f, E, a) \in Nat /\ MostWith(f, F, b) \in Nat /\ MostWith(f, E, a) <= MostWith(f, F, b)
  BY <1>1, NumbersGrowWith
<1> QED
  BY <1>2, <1>3 DEF MostWith

(* The cameras of more observations and from more sources.                 *)
LEMMA CrossGrows ==
    ASSUME EvidenceIsKnown, NEW F \in SUBSET Observations, IsFiniteSet(F), NEW E \in SUBSET F,
           NEW a \in Nat, NEW b \in Nat, a <= b
    PROVE  /\ C!Greatest({o.cross : o \in E} \cup {a}) \in Nat /\ C!Greatest({o.cross : o \in F} \cup {b}) \in Nat
           /\ C!Greatest({o.cross : o \in E} \cup {a}) <= C!Greatest({o.cross : o \in F} \cup {b})
<1> DEFINE f == [o \in F |-> o.cross]
<1>1. IsFiniteSet(E) /\ E \subseteq F /\ \A o \in F : f[o] \in Nat
  BY FS_Subset DEF EvidenceIsKnown
<1>2. {f[o] : o \in E} = {o.cross : o \in E} /\ {f[o] : o \in F} = {o.cross : o \in F}
  OBVIOUS
<1> HIDE DEF f
<1>3. MostWith(f, E, a) \in Nat /\ MostWith(f, F, b) \in Nat /\ MostWith(f, E, a) <= MostWith(f, F, b)
  BY <1>1, NumbersGrowWith
<1> QED
  BY <1>2, <1>3 DEF MostWith

(* The sources of more observations, but for the first.                    *)
LEMMA SourcesGrow ==
    ASSUME NEW F, IsFiniteSet(F), NEW E \in SUBSET F, E # {}
    PROVE  /\ Cardinality({o.source : o \in E}) - 1 \in Nat /\ Cardinality({o.source : o \in F}) - 1 \in Nat
           /\ Cardinality({o.source : o \in E}) - 1 <= Cardinality({o.source : o \in F}) - 1
<1> DEFINE f == [o \in F |-> o.source]
           S == {o.source : o \in E}
           T == {o.source : o \in F}
<1>1. {f[o] : o \in F} = T /\ S \in SUBSET T /\ S # {} /\ T # {}
  OBVIOUS
<1>2. IsFiniteSet(T)
  <2>1. IsFiniteSet({f[o] : o \in F})
    BY ImageIsFinite
  <2> QED
    BY <1>1, <2>1
<1> HIDE DEF f, S, T
<1>3. IsFiniteSet(S) /\ Cardinality(S) <= Cardinality(T)
  BY <1>1, <1>2, FS_Subset
<1>4. Cardinality(S) \in Nat /\ Cardinality(T) \in Nat
  BY <1>2, <1>3, FS_CardinalityType
<1>5. Cardinality(S) # 0 /\ Cardinality(T) # 0
  BY <1>1, <1>2, <1>3, FS_EmptySet
<1>6. Cardinality(S) - 1 \in Nat /\ Cardinality(T) - 1 \in Nat /\ Cardinality(S) - 1 <= Cardinality(T) - 1
  BY <1>3, <1>4, <1>5
<1> QED
  BY <1>6 DEF S, T

(* The artifacts of more observations.                                     *)
LEMMA ArtifactsGrow ==
    ASSUME EvidenceIsKnown, NEW F \in SUBSET Observations, IsFiniteSet(F), NEW E \in SUBSET F
    PROVE  /\ Cardinality(UNION {o.artifacts : o \in E}) \in Nat /\ Cardinality(UNION {o.artifacts : o \in F}) \in Nat
           /\ Cardinality(UNION {o.artifacts : o \in E}) <= Cardinality(UNION {o.artifacts : o \in F})
<1> DEFINE f == [o \in F |-> o.artifacts]
           S == {o.artifacts : o \in E}
           T == {o.artifacts : o \in F}
<1>1. {f[o] : o \in F} = T /\ S \in SUBSET T
  OBVIOUS
<1>2. IsFiniteSet(T)
  <2>1. IsFiniteSet({f[o] : o \in F})
    BY ImageIsFinite
  <2> QED
    BY <1>1, <2>1
<1>3. \A V \in T : IsFiniteSet(V)
  BY DEF EvidenceIsKnown
<1> HIDE DEF f, S, T
<1>4. IsFiniteSet(UNION T) /\ UNION S \in SUBSET (UNION T)
  BY <1>1, <1>2, <1>3, FS_UNION
<1>5. IsFiniteSet(UNION S) /\ Cardinality(UNION S) <= Cardinality(UNION T)
  BY <1>4, FS_Subset
<1>6. Cardinality(UNION S) \in Nat /\ Cardinality(UNION T) \in Nat
  BY <1>4, <1>5, FS_CardinalityType
<1> QED
  BY <1>5, <1>6 DEF S, T

(* The time from the first to the last of the events.                      *)
LEMMA FurtherApart ==
    ASSUME NEW a \in Nat, NEW b \in Nat, NEW c \in Nat, NEW d \in Nat, c <= a, a <= b, b <= d
    PROVE  b - a \in Nat /\ d - c \in Nat /\ b - a <= d - c
OBVIOUS

(* The span of a sequence that has all the events of another.              *)
LEMMA SpanGrows ==
    ASSUME ObservationsAreKnown, NEW e \in Seq(Observations), NEW t \in Seq(Observations), Len(e) # 0,
           Ordered(e), Ordered(t), C!Elements(e) \subseteq C!Elements(t)
    PROVE  /\ e[Len(e)].at - e[1].at \in Nat /\ t[Len(t)].at - t[1].at \in Nat
           /\ e[Len(e)].at - e[1].at <= t[Len(t)].at - t[1].at
<1>1. /\ Len(e) \in Nat
      /\ Len(t) \in Nat
      /\ \A i \in 1 .. Len(e) : e[i].at \in Nat
      /\ \A i \in 1 .. Len(t) : t[i].at \in Nat
  BY LenProperties, ElementOfSeq DEF ObservationsAreKnown
<1>2. \A i, j \in 1 .. Len(e) : i <= j => e[i].at <= e[j].at
  BY <1>1 DEF Ordered, C!Before
<1>3. \A i, j \in 1 .. Len(t) : i <= j => t[i].at <= t[j].at
  BY <1>1 DEF Ordered, C!Before
<1>4. 1 \in 1 .. Len(e) /\ Len(e) \in 1 .. Len(e) /\ 1 <= Len(e)
  BY <1>1
<1>5. PICK i \in 1 .. Len(t) : t[i] = e[1]
  BY <1>4 DEF C!Elements
<1>6. PICK j \in 1 .. Len(t) : t[j] = e[Len(e)]
  BY <1>4 DEF C!Elements
<1>7. 1 \in 1 .. Len(t) /\ Len(t) \in 1 .. Len(t) /\ 1 <= i /\ j <= Len(t)
  BY <1>1, <1>5, <1>6
<1>8. t[1].at <= e[1].at /\ e[Len(e)].at <= t[Len(t)].at /\ e[1].at <= e[Len(e)].at
  BY <1>2, <1>3, <1>4, <1>5, <1>6, <1>7
<1>9. t[1].at \in Nat /\ e[1].at \in Nat /\ t[Len(t)].at \in Nat /\ e[Len(e)].at \in Nat
  BY <1>1, <1>4, <1>7
<1> QED
  BY <1>8, <1>9, FurtherApart

-----------------------------------------------------------------------------
(* The order of identities in mergeIdentity is that of their weights.      *)
LEMMA WeightsAreRanks ==
    ASSUME NEW x, NEW y, C!Rank(x) <= C!Rank(y)
    PROVE  C!Weight(x) \in Nat /\ C!Weight(y) \in Nat /\ C!Weight(x) <= C!Weight(y)
BY DEF C!Rank, C!Weight, C!When

(* The identity of more events ranks no lower.                             *)
LEMMA IdentityGrows ==
    ASSUME NEW S, NEW e \in Seq(S), NEW t \in Seq(S), C!Elements(e) \subseteq C!Elements(t)
    PROVE  C!Rank(C!Identity(e)) <= C!Rank(C!Identity(t))
<1>1. C!Rank("") = 0 /\ \A x : C!Rank(x) \in Nat
  BY DEF C!Rank
<1>2. CASE C!Identity(e) = ""
  <2>1. C!Rank(C!Identity(e)) = 0
    BY <1>1, <1>2
  <2>2. C!Rank(C!Identity(t)) \in Nat
    BY <1>1
  <2> HIDE <1>2
  <2> QED
    BY <2>1, <2>2
<1>3. CASE \E i \in 1 .. Len(e) : C!Identity(e) = e[i].identity
  <2>1. PICK i \in 1 .. Len(e) : C!Identity(e) = e[i].identity
    BY <1>3
  <2>2. PICK j \in 1 .. Len(t) : t[j] = e[i]
    BY DEF C!Elements
  <2>3. C!Rank(t[j].identity) <= C!Rank(C!Identity(t))
    BY IdentityIsHighest
  <2> QED
    BY <2>1, <2>2, <2>3
<1> QED
  BY <1>2, <1>3, IdentityIsHighest

(* Every feature of more events is at least that of fewer.                 *)
LEMMA FeaturesGrow ==
    ASSUME ObservationsAreKnown, EvidenceIsKnown, NEW e \in Seq(Observations), NEW t \in Seq(Observations),
           Len(e) # 0, Ordered(e), Ordered(t), C!Elements(e) \subseteq C!Elements(t),
           NEW f, f = C!Features(e), NEW g, g = C!Features(t)
    PROVE  /\ f.confidence \in Nat /\ g.confidence \in Nat /\ f.confidence <= g.confidence
           /\ f.dwell \in Nat /\ g.dwell \in Nat /\ f.dwell <= g.dwell
           /\ f.cross \in Nat /\ g.cross \in Nat /\ f.cross <= g.cross
           /\ f.evidence \in Nat /\ g.evidence \in Nat /\ f.evidence <= g.evidence
           /\ (f.person => g.person) /\ (f.entry => g.entry)
           /\ f.identity = C!Identity(e) /\ g.identity = C!Identity(t)
           /\ f.alarm = C!Alarm(e) /\ g.alarm = C!Alarm(t)
<1> DEFINE E == C!Elements(e)
           F == C!Elements(t)
<1>1. F \in SUBSET Observations /\ IsFiniteSet(F) /\ E \in SUBSET F
  BY ElementsAreFinite
<1>2. E # {}
  <2>1. 1 \in 1 .. Len(e)
    BY LenProperties
  <2> QED
    BY <2>1 DEF C!Elements
<1> DEFINE a == e[Len(e)].at - e[1].at
           b == t[Len(t)].at - t[1].at
           c == Cardinality({o.source : o \in E}) - 1
           d == Cardinality({o.source : o \in F}) - 1
           x == Cardinality(UNION {o.artifacts : o \in E})
           y == Cardinality(UNION {o.artifacts : o \in F})
<1>3. a \in Nat /\ b \in Nat /\ a <= b
  BY SpanGrows
<1>4. c \in Nat /\ d \in Nat /\ c <= d
  BY <1>1, <1>2, SourcesGrow
<1>5. x \in Nat /\ y \in Nat /\ x <= y
  BY <1>1, ArtifactsGrow
<1>6. /\ f.confidence = C!Greatest({o.confidence : o \in E}) /\ g.confidence = C!Greatest({o.confidence : o \in F})
      /\ f.dwell = C!Greatest({o.dwell : o \in E} \cup {a}) /\ g.dwell = C!Greatest({o.dwell : o \in F} \cup {b})
      /\ f.cross = C!Greatest({o.cross : o \in E} \cup {c}) /\ g.cross = C!Greatest({o.cross : o \in F} \cup {d})
      /\ f.evidence = C!Least(MaxArtifacts, x) /\ g.evidence = C!Least(MaxArtifacts, y)
      /\ f.identity = C!Identity(e) /\ g.identity = C!Identity(t)
      /\ f.alarm = C!Alarm(e) /\ g.alarm = C!Alarm(t)
  <2>1. \A V : C!Cardinality(V) = Cardinality(V)
    BY DEF C!Cardinality, Cardinality
  <2> QED
    BY <2>1 DEF C!Features
<1>7. /\ f.person = (\E o \in E : o.person) /\ g.person = (\E o \in F : o.person)
      /\ f.entry = (\E o \in E : o.entry) /\ g.entry = (\E o \in F : o.entry)
  BY DEF C!Features
<1>8. (f.person => g.person) /\ (f.entry => g.entry)
  BY <1>1, <1>7
<1> HIDE DEF E, F, a, b, c, d, x, y
<1>9. f.confidence \in Nat /\ g.confidence \in Nat /\ f.confidence <= g.confidence
  BY <1>1, <1>2, <1>6, ConfidenceGrows
<1>10. f.dwell \in Nat /\ g.dwell \in Nat /\ f.dwell <= g.dwell
  BY <1>1, <1>3, <1>6, DwellGrows
<1>11. f.cross \in Nat /\ g.cross \in Nat /\ f.cross <= g.cross
  BY <1>1, <1>4, <1>6, CrossGrows
<1>12. f.evidence \in Nat /\ g.evidence \in Nat /\ f.evidence <= g.evidence
  BY <1>5, <1>6 DEF C!Least, EvidenceIsKnown
<1> QED
  BY <1>6, <1>8, <1>9, <1>10, <1>11, <1>12

(* A risk is at least that of features none of which is greater.           *)
LEMMA ScoreGrows ==
    ASSUME NEW f, NEW g,
           f.confidence \in Nat, g.confidence \in Nat, f.confidence <= g.confidence,
           f.dwell \in Nat, g.dwell \in Nat, f.dwell <= g.dwell,
           f.cross \in Nat, g.cross \in Nat, f.cross <= g.cross,
           f.evidence \in Nat, g.evidence \in Nat, f.evidence <= g.evidence,
           f.person => g.person, f.entry => g.entry, C!Rank(f.identity) <= C!Rank(g.identity),
           f.alarm = g.alarm \/ C!Away(g.alarm)
    PROVE  C!Score(f) <= C!Score(g)
<1>1. 18 * f.confidence \in Nat /\ 18 * g.confidence \in Nat /\ 18 * f.confidence <= 18 * g.confidence
  OBVIOUS
<1>2. C!When(f.person, 900) \in Nat /\ C!When(g.person, 900) \in Nat /\ C!When(f.person, 900) <= C!When(g.person, 900)
  BY DEF C!When
<1>3. C!Weight(f.identity) \in Nat /\ C!Weight(g.identity) \in Nat /\ C!Weight(f.identity) <= C!Weight(g.identity)
  BY WeightsAreRanks
<1>4. /\ C!When(C!Away(f.alarm), 600) \in Nat /\ C!When(C!Away(g.alarm), 600) \in Nat
      /\ C!When(C!Away(f.alarm), 600) <= C!When(C!Away(g.alarm), 600)
  BY DEF C!When
<1>5. C!When(f.entry, 900) \in Nat /\ C!When(g.entry, 900) \in Nat /\ C!When(f.entry, 900) <= C!When(g.entry, 900)
  BY DEF C!When
<1>6. /\ 5 * C!Least(60, f.dwell) \in Nat
      /\ 5 * C!Least(60, g.dwell) \in Nat
      /\ 5 * C!Least(60, f.dwell) <= 5 * C!Least(60, g.dwell)
  BY DEF C!Least
<1>7. /\ 150 * C!Least(2, f.cross) \in Nat
      /\ 150 * C!Least(2, g.cross) \in Nat
      /\ 150 * C!Least(2, f.cross) <= 150 * C!Least(2, g.cross)
  BY DEF C!Least
<1>8. /\ 100 * C!Least(3, f.evidence) \in Nat /\ 100 * C!Least(3, g.evidence) \in Nat
      /\ 100 * C!Least(3, f.evidence) <= 100 * C!Least(3, g.evidence)
  BY DEF C!Least
<1> DEFINE a1 == 18 * f.confidence         b1 == 18 * g.confidence
           a2 == C!When(f.person, 900)       b2 == C!When(g.person, 900)
           a3 == C!Weight(f.identity)        b3 == C!Weight(g.identity)
           a4 == C!When(C!Away(f.alarm), 600)  b4 == C!When(C!Away(g.alarm), 600)
           a5 == C!When(f.entry, 900)        b5 == C!When(g.entry, 900)
           a6 == 5 * C!Least(60, f.dwell)    b6 == 5 * C!Least(60, g.dwell)
           a7 == 150 * C!Least(2, f.cross)   b7 == 150 * C!Least(2, g.cross)
           a8 == 100 * C!Least(3, f.evidence)
           b8 == 100 * C!Least(3, g.evidence)
<1>9. /\ a1 \in Nat /\ b1 \in Nat /\ a1 <= b1 /\ a2 \in Nat /\ b2 \in Nat /\ a2 <= b2
       /\ a3 \in Nat /\ b3 \in Nat /\ a3 <= b3 /\ a4 \in Nat /\ b4 \in Nat /\ a4 <= b4
       /\ a5 \in Nat /\ b5 \in Nat /\ a5 <= b5 /\ a6 \in Nat /\ b6 \in Nat /\ a6 <= b6
       /\ a7 \in Nat /\ b7 \in Nat /\ a7 <= b7 /\ a8 \in Nat /\ b8 \in Nat /\ a8 <= b8
  BY <1>1, <1>2, <1>3, <1>4, <1>5, <1>6, <1>7, <1>8
<1>10. /\ C!Score(f) = C!Least(6000, a1 + a2 + a3 + a4 + a5 + a6 + a7 + a8)
       /\ C!Score(g) = C!Least(6000, b1 + b2 + b3 + b4 + b5 + b6 + b7 + b8)
  BY DEF C!Score
<1> HIDE DEF a1, a2, a3, a4, a5, a6, a7, a8, b1, b2, b3, b4, b5, b6, b7, b8
<1> QED
  BY <1>9, <1>10 DEF C!Least

-----------------------------------------------------------------------------
(* Sorting a new event in loses none.                                      *)
LEMMA SortedKeeps ==
    ASSUME ObservationsAreKnown, NEW e \in Seq(Observations), Ordered(e), NEW o \in Observations
    PROVE  C!Elements(e) \subseteq C!Elements(C!Sorted(e, o))
<1> DEFINE w == C!Sorted(e, o)
<1>1. Len(e) \in Nat /\ Len(w) = Len(e) + 1
  BY SortedHolds, LenProperties
<1>2. PICK k \in 0 .. Len(e) :
        \A i \in 1 .. Len(e) + 1 : w[i] = IF i <= k THEN e[i] ELSE IF i = k + 1 THEN o ELSE e[i - 1]
  BY SortedHolds
<1> HIDE DEF w
<1>3. ASSUME NEW i \in 1 .. Len(e)
      PROVE  \E j \in 1 .. Len(w) : w[j] = e[i]
  <2>1. CASE i <= k
    BY <2>1, <1>1, <1>2
  <2>2. CASE i > k
    <3>1. i + 1 \in 1 .. Len(w) /\ w[i + 1] = e[i]
      BY <2>2, <1>1, <1>2
    <3> QED
      BY <3>1
  <2> QED
    BY <2>1, <2>2, <1>1
<1>4. C!Elements(e) \subseteq C!Elements(w)
  BY <1>3 DEF C!Elements
<1> QED
  BY <1>4 DEF w

(* What the group of a subject becomes in a step that leaves it longer.    *)
LEMMA LongerGroup ==
    ASSUME ObservationsAreKnown, CorrelationInv, [C!Next]_(C!vars), NEW s \in C!Subjects,
           NEW e, e = group[s].events, NEW t, t = group'[s].events, e # <<>>, Len(t) > Len(e)
    PROVE  /\ e \in Seq(Observations) /\ Ordered(e) /\ Len(e) # 0 /\ t \in Seq(Observations) /\ Ordered(t)
           /\ C!Elements(e) \subseteq C!Elements(t)
<1>1. /\ e \in Seq(Observations) /\ Ordered(e) /\ group[s] \in Groups /\ group \in [C!Subjects -> Groups]
  BY DEF CorrelationInv, CorrelationTypes, Groups
<1>2. Len(e) \in Nat \ {0}
  BY <1>1, LenProperties, EmptySeq
<1>3. group[s] # C!NoGroup
  <2>1. C!NoGroup.events = <<>>
    BY DEF C!NoGroup
  <2> QED
    BY <2>1
<1>4. CorrelationInv'
  BY CorrelationStep
<1>5. t \in Seq(Observations) /\ Ordered(t)
  BY <1>4 DEF CorrelationInv, CorrelationTypes, Groups
<1>6. t # e
  BY <1>2
<1>7. ASSUME NEW o \in Observations, C!Take(o), o.subject = s
      PROVE  C!Elements(e) \subseteq C!Elements(t)
  <2>1. t = Left(o).events
    BY <1>1, <1>7, Taken
  <2>2. Found(o).events \in Seq(Observations) /\ Ordered(Found(o).events)
    BY <1>7, Taken DEF Groups
  <2> DEFINE w == C!Sorted(Found(o).events, o)
  <2>3. w \in Seq(Observations) /\ Len(w) = Len(Found(o).events) + 1
    BY <2>2, SortedHolds
  <2>4. t = C!Newest(w, MaxEventsPerGroup) /\ MaxEventsPerGroup \in Nat
    BY <2>1 DEF Left, ObservationsAreKnown
  <2> HIDE DEF w
  <2>5. Len(t) <= Len(w) /\ Len(w) \in Nat /\ Len(t) \in Nat
    BY <2>3, <2>4, NewestHolds, LenProperties
  <2>6. ~C!IsNew(o)
    <3>1. SUFFICES ASSUME C!IsNew(o) PROVE FALSE
      OBVIOUS
    <3>2. Found(o).events = <<>>
      BY <3>1 DEF Found
    <3>3. Len(w) = 1
      BY <2>3, <3>2
    <3> QED
      BY <3>3, <2>5, <1>2
  <2>7. Found(o).events = e
    BY <2>6, <1>7 DEF Found
  <2>8. t = w
    <3>1. Len(w) = Len(e) + 1 /\ Len(t) = Len(w)
      BY <2>3, <2>5, <2>7, <1>2
    <3>2. Len(w) <= MaxEventsPerGroup
      BY <3>1, <2>3, <2>4, <2>5, NewestHolds
    <3> QED
      BY <3>2, <2>4 DEF C!Newest
  <2> QED
    BY <2>2, <2>7, <2>8, SortedKeeps DEF w
<1>8. ASSUME NEW o \in Observations, C!Take(o), o.subject # s
      PROVE  FALSE
  <2>1. group' = [group EXCEPT ![o.subject] = Left(o)]
    BY <1>8, Taken
  <2> QED
    BY <2>1, <1>1, <1>6, <1>8
<1>9. ASSUME NEW u, C!Prune(u)
      PROVE  FALSE
  <2>1. group'[s] = C!NoGroup \/ group'[s] = group[s]
    BY <1>9 DEF C!Prune
  <2>2. C!NoGroup.events = <<>>
    BY DEF C!NoGroup
  <2>3. t = <<>>
    BY <2>1, <2>2, <1>6
  <2> QED
    BY <2>3, <1>2
<1>10. group' # group
  BY <1>6
<1>11. \E o \in Observations : C!Take(o)
  BY <1>9, <1>10 DEF C!Next, C!Duplicate, C!Late, C!vars
<1> QED
  BY <1>1, <1>2, <1>5, <1>7, <1>8, <1>11

(* A group that becomes longer has no lower risk.                          *)
LEMMA RiskStep ==
    ASSUME ObservationsAreKnown, EvidenceIsKnown, CorrelationInv, [C!Next]_(C!vars), NEW s \in C!Subjects,
           NEW e, e = group[s].events, NEW t, t = group'[s].events, e # <<>>, Len(t) > Len(e),
           C!Alarm(t) = C!Alarm(e) \/ C!Away(C!Alarm(t))
    PROVE  C!Score(C!Features(t)) >= C!Score(C!Features(e))
<1>1. /\ e \in Seq(Observations) /\ Ordered(e) /\ Len(e) # 0 /\ t \in Seq(Observations) /\ Ordered(t)
      /\ C!Elements(e) \subseteq C!Elements(t)
  BY LongerGroup
<1>2. C!Rank(C!Identity(e)) <= C!Rank(C!Identity(t))
  BY <1>1, IdentityGrows
<1> DEFINE f == C!Features(e)
           g == C!Features(t)
<1>3. /\ f.confidence \in Nat /\ g.confidence \in Nat /\ f.confidence <= g.confidence
      /\ f.dwell \in Nat /\ g.dwell \in Nat /\ f.dwell <= g.dwell
      /\ f.cross \in Nat /\ g.cross \in Nat /\ f.cross <= g.cross
      /\ f.evidence \in Nat /\ g.evidence \in Nat /\ f.evidence <= g.evidence
      /\ (f.person => g.person) /\ (f.entry => g.entry)
      /\ f.identity = C!Identity(e) /\ g.identity = C!Identity(t)
      /\ f.alarm = C!Alarm(e) /\ g.alarm = C!Alarm(t)
  BY <1>1, FeaturesGrow
<1> HIDE DEF f, g
<1>4. C!Rank(f.identity) <= C!Rank(g.identity) /\ (f.alarm = g.alarm \/ C!Away(g.alarm))
  BY <1>2, <1>3
<1>5. C!Score(f) <= C!Score(g)
  BY <1>3, <1>4, ScoreGrows
<1> QED
  BY <1>5 DEF f, g

(* RiskOnlyRises: what is added to a group never lowers its risk.          *)
THEOREM RiskRises == ASSUME ObservationsAreKnown, EvidenceIsKnown PROVE C!Spec => RiskOnlyRises
<1>1. C!Init => CorrelationInv
  BY CorrelationInit
<1>2. CorrelationInv /\ [C!Next]_(C!vars) => CorrelationInv'
  BY CorrelationStep
<1> DEFINE Rises ==
      group' # group =>
        \A s \in C!Subjects :
          LET old == group[s].events
              new == group'[s].events
          IN  /\ Len(new) > Len(old) /\ old # <<>> /\ group'[s].first = group[s].first
              /\ C!Alarm(new) = C!Alarm(old) \/ C!Away(C!Alarm(new))
              => C!Score(C!Features(new)) >= C!Score(C!Features(old))
<1>3. CorrelationInv /\ [C!Next]_(C!vars) => Rises
  BY RiskStep
<1> QED
  BY <1>1, <1>2, <1>3, PTL DEF C!Spec, C!RiskOnlyRises, RiskOnlyRises
=============================================================================
