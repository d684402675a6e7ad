--------------------------- MODULE MCIntegrations ---------------------------
(***************************************************************************)
(* Small instances of FrigateConfig (two cameras, one entry of another     *)
(* owner, two versions) and of AppLifecycle.  They share no state: a       *)
(* behaviour is of one of them, which part names, and the other stays as   *)
(* it began.                                                               *)
(***************************************************************************)
EXTENDS FrigateConfig, Sequences

CONSTANTS
    yard, door, garage,
    Configured, MaxConnections, MaxEvents                           \* AppLifecycle

VARIABLES
    part,
    stage, active, link, epoch, told, callback, ready, assistant, starter, reachable, workers, tried,
    watched, probe, saw, state, events                              \* AppLifecycle

TwoCams == {yard, door}
OneManual == {garage}

appVars ==
    <<stage, active, link, epoch, told, callback, ready, assistant, starter, reachable, workers, tried,
      watched, probe, saw, state, events>>

A == INSTANCE AppLifecycle WITH running <- active, service <- assistant, health <- state

MCInit ==
    /\ part \in {"frigate", "app"}
    /\ Init /\ A!Init
    /\ part # "frigate" => db = Nothing(Cams) /\ saved = Nothing(Names)
MCNext ==
    \/ part = "frigate" /\ Next /\ UNCHANGED <<part, appVars>>
    \/ part = "app" /\ A!Next /\ UNCHANGED <<part, vars>>

(* Before Open nothing is due: where Frigate is configured the application   *)
(* is not held to its fairness.                                              *)
MCSpec == MCInit /\ [][MCNext]_<<part, vars, appVars>> /\ A!Fairness

-----------------------------------------------------------------------------
(* What was announced to Home Assistant is, or will be (AppLifecycle).       *)
AnnouncedOrOnTheWay == A!AnnouncedOrOnTheWay
(* The health that is shown comes to be what is (AppLifecycle).              *)
HealthSettles == A!HealthSettles
(* App.Close comes to its end (AppLifecycle).                                *)
CloseEnds == A!CloseEnds
=============================================================================
