------------------------------ MODULE MCRecords ------------------------------
(***************************************************************************)
(* Small instances of what is recorded: the scenarios (ScenarioCatalog),   *)
(* the releases and their checkpoints (ReleaseUpdate), the events to       *)
(* deliver (Outbox), accounts and sessions (AccessControl) and what was    *)
(* observed of a subject (Correlation).  They share no state: a behaviour  *)
(* is of one of them, which part names, and the others stay as they began. *)
(***************************************************************************)
EXTENDS ScenarioCatalog

CONSTANTS
    Releases, Schema, MinReadable, First, MaxWrites, MaxUpdates, MaxTroubles,
    Messages, Workers, Second, Lease, Limits, Delays, MaxTime, MaxFails,
    \* AccessControl
    Users, Requests, Given, SessionTTL, MaxAge, MaxClock, MaxLogins, MaxTokens,
    \* Correlation
    Observations, Window, MaxLateness, MaxEventsPerGroup, MaxSeenEvents, MaxArtifacts

VARIABLES
    part,
    \* ReleaseUpdate
    file, log, secrets, checkpoint, image, wanted, process, opened, view, inventory, pc, from, to, copy,
    stopped, result, updates, writes, files, troubles, misplanned, unstopped,
    \* Outbox
    now, row, hold, robbed, fails,
    \* AccessControl
    clock, user, session, request, stale, entitled,
    \* Correlation
    group, seen, taken, spoilt

updateVars ==
    <<file, log, secrets, checkpoint, image, wanted, process, opened, view, inventory, pc, from, to, copy,
      stopped, result, updates, writes, files, troubles, misplanned, unstopped>>
outboxVars == <<now, row, hold, robbed, fails>>

accessVars == <<clock, user, session, request, stale, entitled>>
correlationVars == <<group, seen, taken, spoilt>>

U == INSTANCE ReleaseUpdate
O == INSTANCE Outbox
A == INSTANCE AccessControl WITH now <- clock, MaxTime <- MaxClock
C == INSTANCE Correlation

\* Each release has a schema of its own, and all read the first.
SchemaOf == [r \in Releases |-> r]
ReadableFrom == [r \in Releases |-> 1]

(* A lamp in two versions, a third that is no valid descriptor, a bell, and  *)
(* a room that offers the lamp; of the two documents one asks for any lamp,  *)
(* the other for the bell and the room.                                      *)
Action(id, version) ==
    [id |-> id, version |-> version, kind |-> "action", kinds |-> {"room"},
     external |-> TRUE, idempotency |-> "supported"]
Broken == [Action("lamp", 3) EXCEPT !.idempotency = "none"]
Lamps == {Action("lamp", 1), Action("lamp", 2), Action("bell", 1), Broken}
OneRoom == {[id |-> "hall", kind |-> "room", keys |-> {<<"lamp", 1>>}]}
TwoDocuments ==
    {[plan |-> "dim", needs |-> {<<"lamp", 1>>}, entities |-> {}],
     [plan |-> "glow", needs |-> {<<"bell", 1>>}, entities |-> {"hall"}]}

(* Five observations of ann, two of them at one time, with pauses within and  *)
(* beyond the window, and one of bob.                                        *)
Observation(id, subject, at, source, identity, artifacts) ==
    [id |-> id, subject |-> subject, at |-> at, source |-> source, person |-> id = 1,
     confidence |-> 50 + id, identity |-> identity, entry |-> id = 3, dwell |-> 0, cross |-> 0,
     alarm |-> CASE id = 2 -> "away" [] id = 3 -> "home" [] OTHER -> "", artifacts |-> artifacts]
SixObservations ==
    {Observation(1, "ann", 1, "front", "unknown", {1}), Observation(2, "ann", 1, "hall", "known", {1, 2}),
     Observation(3, "ann", 2, "door", "", {}), Observation(4, "ann", 4, "front", "uncertain", {3}),
     Observation(5, "ann", 6, "front", "known", {}), Observation(6, "bob", 2, "front", "uncertain", {4})}

MCInit ==
    /\ part \in {"catalog", "update", "outbox", "access", "correlation"}
    /\ Init /\ U!Init /\ O!Init /\ A!Init /\ C!Init
    /\ part # "update" => secrets = 0
MCNext ==
    \/ part = "catalog" /\ Next /\ UNCHANGED <<part, updateVars, outboxVars, accessVars, correlationVars>>
    \/ part = "update" /\ U!Next /\ UNCHANGED <<part, vars, outboxVars, accessVars, correlationVars>>
    \/ part = "outbox" /\ O!Next /\ UNCHANGED <<part, vars, updateVars, accessVars, correlationVars>>
    \/ part = "access" /\ A!Next /\ UNCHANGED <<part, vars, updateVars, outboxVars, correlationVars>>
    \/ part = "correlation" /\ C!Next /\ UNCHANGED <<part, vars, updateVars, outboxVars, accessVars>>
MCSpec == MCInit /\ [][MCNext]_<<part, vars, updateVars, outboxVars, accessVars, correlationVars>>

-----------------------------------------------------------------------------
(* A rollback reported as done has put back the database of its checkpoint,  *)
(* and the secrets of it if it has any.                                      *)
RollbackRestores == U!RollbackRestores
(* No release works on a schema newer than its own (ReleaseUpdate).          *)
SchemaIsUnderstood == U!SchemaIsUnderstood
(* A message is not claimed before its time or that of another claim.        *)
RespectsTimes == O!RespectsTimes
(* Accounts change by entitled requests and keep an administrator            *)
(* (AccessControl).                                                          *)
AccessIsGoverned == A!AccessIsGoverned
(* A group does not depend on the order its observations came in             *)
(* (Correlation).                                                            *)
ShuffledAgree == C!ShuffledAgree
(* What is added to a group never lowers its risk (Correlation).             *)
RiskOnlyRises == C!RiskOnlyRises
=============================================================================
