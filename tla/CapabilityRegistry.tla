------------------------- MODULE CapabilityRegistry -------------------------
(***************************************************************************)
(* The registry of internal/scenario/capability: what the house offers to  *)
(* scenarios.  Removing is not one step: the registry looks under its read *)
(* lock, asks its resolver with no lock held, then takes the write lock    *)
(* and looks again.  The one resolver there is knows of no use             *)
(* (NoDependencies); without any, nothing is removed.                      *)
(*                                                                         *)
(*   descriptor [id, version, kind, kinds, external, idempotency]; kinds   *)
(*              are the kinds of entity it is limited to, {} for no limit  *)
(*   entity     [id, kind, keys], the keys <<id, version>> of capabilities *)
(***************************************************************************)
EXTENDS Naturals, FiniteSets

CONSTANTS
    Descriptors,    \* the descriptors a provider may register
    EntityOffers,   \* the entities a provider may register
    MaxRemovals     \* removals under way at once

VARIABLES
    caps,           \* the registered descriptors
    entities,       \* the registered entities
    removing,       \* keys that passed the first look and the question
    leaving         \* entities that did

regVars == <<caps, entities, removing, leaving>>

Key(d) == <<d.id, d.version>>
Keys == {Key(d) : d \in Descriptors}
EntityIds == {e.id : e \in EntityOffers}
Registered(k) == \E d \in caps : Key(d) = k
RegisteredEntity(id) == \E e \in entities : e.id = id
EntityReference(k) == \E e \in entities : k \in e.keys

RegistryInit == caps = {} /\ entities = {} /\ removing = {} /\ leaving = {}

-----------------------------------------------------------------------------

ValidDescriptor(d) ==
    /\ d.kind \in {"trigger", "action", "state"}
    /\ d.external => d.kind = "action" /\ d.idempotency # "none"

Register(d) ==
    /\ ValidDescriptor(d) /\ ~Registered(Key(d))
    /\ caps' = caps \cup {d}
    /\ UNCHANGED <<entities, removing, leaving>>

Serves(d, e) == d.kinds = {} \/ e.kind \in d.kinds
RegisterEntity(e) ==
    /\ e.keys # {} /\ ~RegisteredEntity(e.id)
    /\ \A k \in e.keys : \E d \in caps : Key(d) = k /\ Serves(d, e)
    /\ entities' = entities \cup {e}
    /\ UNCHANGED <<caps, removing, leaving>>

MayBegin == Cardinality(removing) + Cardinality(leaving) < MaxRemovals

(* The first look of Remove, and the question, which nothing answers.        *)
BeginRemove(k) ==
    /\ Registered(k) /\ ~EntityReference(k) /\ MayBegin
    /\ removing' = removing \cup {k}
    /\ UNCHANGED <<caps, entities, leaving>>

BeginRemoveEntity(id) ==
    /\ RegisteredEntity(id) /\ MayBegin
    /\ leaving' = leaving \cup {id}
    /\ UNCHANGED <<caps, entities, removing>>

(* The second look, under the write lock, and the removal.                   *)
MayRemove(k) == Registered(k) /\ ~EntityReference(k)
EndRemove(k) ==
    /\ k \in removing
    /\ removing' = removing \ {k}
    /\ caps' = IF MayRemove(k) THEN {d \in caps : Key(d) # k} ELSE caps
    /\ UNCHANGED <<entities, leaving>>

EndRemoveEntity(id) ==
    /\ id \in leaving
    /\ leaving' = leaving \ {id}
    /\ entities' = {e \in entities : e.id # id}
    /\ UNCHANGED <<caps, removing>>

-----------------------------------------------------------------------------

(* An entity never refers to a capability that is gone, though it may be     *)
(* registered between the two looks of the removal (registry.go:Remove).     *)
EntitiesStand == \A e \in entities : \A k \in e.keys : Registered(k)
=============================================================================
