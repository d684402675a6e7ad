--------------------------- MODULE ScenarioCatalog ---------------------------
(***************************************************************************)
(* The catalog of internal/scenario/catalog over the capability registry:  *)
(* drafts, their edits under an entity tag, validation, simulation,        *)
(* publication, rollback and status, and the index of what the scenarios   *)
(* use, which CanDeleteCapability and CanDeleteEntity read.  The registry  *)
(* does not: nothing in the program makes the catalog its resolver.        *)
(*                                                                         *)
(*   document [plan, needs, entities]: what its plan digest is computed    *)
(*            from, the keys and the entities it refers to                 *)
(*   manifest [plan, versions, entities], or None; versions are the keys   *)
(*            the references were resolved to                              *)
(*   revision [doc, state, version, manifest]; its identifier is its place *)
(*            in the record                                                *)
(*   record   [revs, active, version, draft, status]; active and draft are *)
(*            0 when there is none                                         *)
(***************************************************************************)
EXTENDS CapabilityRegistry, Sequences

CONSTANTS
    Scenarios, Documents,
    MaxRevisions,   \* revisions of a scenario
    MaxEdits,       \* drafts written, over all scenarios
    MaxVersion      \* versions published of a scenario

VARIABLES
    records,        \* Scenarios -> record, or None
    index,          \* Scenarios -> identifiers of the capabilities it uses
    places,         \* Scenarios -> identifiers of the entities it uses
    edits,          \* drafts written so far
    unindexed       \* for the properties only: scenarios archived since their last activation

catVars == <<records, index, places, edits, unindexed>>
vars == <<regVars, catVars>>

None == [none |-> TRUE]
Statuses == {"active", "disabled", "archived"}
Exists(s) == records[s] # None
Revs(s) == records[s].revs

-----------------------------------------------------------------------------
(* Compilation against the registry: each reference is resolved to the       *)
(* newest registered version that is not older                               *)

Suitable(k) == {d \in caps : d.id = k[1] /\ d.version >= k[2]}
Newest(k) == CHOOSE d \in Suitable(k) : \A o \in Suitable(k) : d.version >= o.version
Compiles(doc) == \A k \in doc.needs : Suitable(k) # {}
Compile(doc) == [plan |-> doc.plan, entities |-> doc.entities,
                 versions |-> {Key(Newest(k)) : k \in doc.needs}]
(* what the index reads of a manifest                                        *)
VersionsOf(manifest) == IF manifest = None THEN {} ELSE manifest.versions
EntitiesOf(manifest) == IF manifest = None THEN {} ELSE manifest.entities
CapabilityIds(manifest) == {k[1] : k \in VersionsOf(manifest)}

-----------------------------------------------------------------------------

Init ==
    /\ RegistryInit
    /\ records = [s \in Scenarios |-> None]
    /\ index = [s \in Scenarios |-> {}] /\ places = [s \in Scenarios |-> {}]
    /\ edits = 0
    /\ unindexed = {}

Draft(doc) ==
    [doc |-> doc, state |-> "draft", version |-> 0, manifest |-> None]

Drafted(s, doc) ==
    IF Exists(s)
    THEN [records[s] EXCEPT !.revs = Append(@, Draft(doc)), !.draft = Len(Revs(s)) + 1]
    ELSE [revs |-> <<Draft(doc)>>, active |-> 0, version |-> 0, draft |-> 1, status |-> "disabled"]
CreateDraft(s, doc) ==
    /\ edits < MaxEdits
    /\ Exists(s) => Len(Revs(s)) < MaxRevisions
    /\ edits' = edits + 1
    /\ records' = [records EXCEPT ![s] = Drafted(s, doc)]
    /\ UNCHANGED <<regVars, index, places, unindexed>>

Change(s, r, rev) == records' = [records EXCEPT ![s].revs[r] = rev]

(* An edit with the tag the revision has; with any other it is refused.      *)
UpdateDraft(s, r, doc) ==
    /\ edits < MaxEdits
    /\ Exists(s) /\ r \in DOMAIN Revs(s)
    /\ Revs(s)[r].state # "published"
    /\ Change(s, r, [Revs(s)[r] EXCEPT !.doc = doc, !.state = "draft", !.manifest = None])
    /\ edits' = edits + 1
    /\ UNCHANGED <<regVars, index, places, unindexed>>

(* Any revision is validated, a published one too; one that does not compile *)
(* stays as it is.                                                           *)
ValidateDraft(s, r) ==
    /\ Exists(s) /\ r \in DOMAIN Revs(s)
    /\ Compiles(Revs(s)[r].doc)
    /\ Change(s, r, [Revs(s)[r] EXCEPT !.state = "validated",
                                       !.manifest = Compile(Revs(s)[r].doc)])
    /\ UNCHANGED <<regVars, index, places, edits, unindexed>>

(* The summary of a dry run that passed; one that did not changes no state.  *)
RecordSimulation(s, r) ==
    /\ Exists(s) /\ r \in DOMAIN Revs(s)
    /\ Revs(s)[r].state \in {"draft", "validated"}
    /\ Change(s, r, [Revs(s)[r] EXCEPT !.state = "simulated"])
    /\ UNCHANGED <<regVars, index, places, edits, unindexed>>

(* A revision becomes the active one: what publication and rollback share.   *)
KeepsOld(s, manifest) ==                    \* a slip: what it used before is not cleared
    /\ index' = [index EXCEPT ![s] = @ \cup CapabilityIds(manifest)]
    /\ places' = [places EXCEPT ![s] = @ \cup EntitiesOf(manifest)]
    /\ unindexed' = unindexed \ {s}
    /\ UNCHANGED <<regVars, edits>>
Activate(s, manifest) ==
    /\ index' = [index EXCEPT ![s] = CapabilityIds(manifest)]
    /\ places' = [places EXCEPT ![s] = EntitiesOf(manifest)]
    /\ unindexed' = unindexed \ {s}
    /\ UNCHANGED <<regVars, edits>>

Published(rev, version, manifest) ==
    [rev EXCEPT !.state = "published", !.version = version, !.manifest = manifest]
PublishDraft(s, r) ==
    /\ Exists(s) /\ r \in DOMAIN Revs(s)
    /\ Revs(s)[r].state # "published" /\ Compiles(Revs(s)[r].doc)
    /\ records[s].version < MaxVersion
    /\ LET rev == Revs(s)[r]
           manifest == Compile(rev.doc)
           next == records[s].version + 1
       IN  /\ records' = [records EXCEPT ![s] =
                 [@ EXCEPT !.revs[r] = Published(rev, next, manifest), !.active = r,
                           !.version = next, !.draft = 0, !.status = "active"]]
           /\ Activate(s, manifest)

IsVersion(rev, v) == rev.version = v /\ rev.state = "published"
GetVersion(s, v) ==
    {r \in DOMAIN Revs(s) : /\ IsVersion(Revs(s)[r], v)
                            /\ \A q \in 1 .. (r - 1) : ~IsVersion(Revs(s)[q], v)}
RolledBack(rec, r) ==
    [rec EXCEPT !.active = r, !.version = rec.revs[r].version, !.status = "active"]
RollbackToVersion(s, v) ==
    /\ Exists(s)
    /\ \E r \in GetVersion(s, v) :
         /\ records' = [records EXCEPT ![s] = RolledBack(@, r)]
         /\ Activate(s, Revs(s)[r].manifest)

(* Archiving takes the scenario out of the index; nothing puts it back.      *)
SetScenarioStatus(s, status) ==
    /\ Exists(s)
    /\ records' = [records EXCEPT ![s].status = status]
    /\ index' = IF status = "archived" THEN [index EXCEPT ![s] = {}] ELSE index
    /\ places' = IF status = "archived" THEN [places EXCEPT ![s] = {}] ELSE places
    /\ unindexed' = IF status = "archived" THEN unindexed \cup {s} ELSE unindexed
    /\ UNCHANGED <<regVars, edits>>

-----------------------------------------------------------------------------

RegistryStep ==
    /\ \/ \E d \in Descriptors : Register(d)
       \/ \E e \in EntityOffers : RegisterEntity(e)
       \/ \E k \in Keys : BeginRemove(k) \/ EndRemove(k)
       \/ \E id \in EntityIds : BeginRemoveEntity(id) \/ EndRemoveEntity(id)
    /\ UNCHANGED catVars

Next ==
    \/ RegistryStep
    \/ \E s \in Scenarios, doc \in Documents : CreateDraft(s, doc)
    \/ \E s \in Scenarios, r \in 1 .. MaxRevisions :
         \/ \E doc \in Documents : UpdateDraft(s, r, doc)
         \/ ValidateDraft(s, r)
         \/ RecordSimulation(s, r)
         \/ PublishDraft(s, r)
    \/ \E s \in Scenarios : \E v \in 1 .. MaxVersion : RollbackToVersion(s, v)
    \/ \E s \in Scenarios, status \in Statuses : SetScenarioStatus(s, status)

Spec == Init /\ [][Next]_vars
-----------------------------------------------------------------------------
(* Properties *)

(* The index of what scenarios use is that of the plans they run: of the     *)
(* active revision while it is the one published, through publications,      *)
(* rollbacks to plans compiled long before and new validations; of nothing   *)
(* from the archiving to the next activation, though the scenario may be     *)
(* active again meanwhile.  A published revision validated once more, and    *)
(* edited, is what the index does not follow (catalog.go:PublishDraft,       *)
(* RollbackToVersion and SetScenarioStatus against dependency.go).           *)
IndexAgrees ==
    \A s \in Scenarios :
        IF s \in unindexed THEN index[s] = {} /\ places[s] = {}
        ELSE Exists(s) /\ records[s].active # 0 =>
                 LET rev == Revs(s)[records[s].active] IN
                 rev.state = "published" =>
                     index[s] = CapabilityIds(rev.manifest) /\ places[s] = EntitiesOf(rev.manifest)

(* What is told of the uses of the registry is so: the capabilities of an    *)
(* entity are registered, and the index is that of the plans.                *)
UseIsKnown == EntitiesStand /\ IndexAgrees

(* docs/SCENARIO_SYSTEM_PLAN.md, section 33.2: "publish creates immutable    *)
(* revision": what was published under a version keeps its document          *)
(* (catalog.go:ValidateDraft, UpdateDraft).                                  *)
ImmutableOncePublished ==
    [][\A s \in Scenarios : Exists(s) => \A r \in DOMAIN Revs(s) :
          Revs(s)[r].version # 0 => Revs(s)'[r].doc = Revs(s)[r].doc]_vars
=============================================================================
