---------------------------- MODULE AppLifecycle ----------------------------
(***************************************************************************)
(* Sentinel as a process (internal/app): Open starts the parts in order,   *)
(* Close stops them in order, and in between they run beside one another:  *)
(* the MQTT client calls back when its connection comes and goes, a        *)
(* watchdog probes and writes the registry of health that those callbacks  *)
(* write too, a wizard may replace the connection to Home Assistant, and   *)
(* goroutines announce Sentinel to it over MQTT.  App.HomeAssistant is a   *)
(* field without a lock, and nobody waits for the goroutines.              *)
(***************************************************************************)
EXTENDS Naturals, FiniteSets

CONSTANTS
    Configured,                 \* cfg.HomeAssistant.Enabled
    MaxConnections,
    MaxEvents                   \* connections, setups by the wizard and troubles in all

VARIABLES
    stage,                      \* how far Open, then Close, has come
    running,                    \* the goroutine of the MQTT client
    link, epoch,                \* the connection to the broker, and which one it is
    told, callback,             \* what onState was last called with; how far it is
    ready,                      \* Client.ready
    service,                    \* App.HomeAssistant is set
    starter,                    \* the step StartHomeAssistant is about to take
    reachable,                  \* Home Assistant answers
    workers,                    \* goroutines of publishHADiscovery that are to begin, have
                                \* begun, and (if any) are past the first message
    tried,                      \* on this connection it was published, or could not be
    watched,                    \* the checks of the watchdog that run
    probe, saw,                 \* where each is, and what it saw
    health,                     \* the registry: "unwell" is degraded or failed
    events                      \* counts them

client == <<running, link, epoch, told, callback, ready>>
assistant == <<service, starter>>
discovery == <<workers, tried>>
watchdog == <<watched, probe, saw>>
vars == <<stage, client, assistant, reachable, discovery, watchdog, health, events>>

Parts == {"mqtt", "ha"}
Alive == stage \notin {"down", "panicked"}
Cancelled == stage \in {"cancelled", "unwatched", "detached"}

Init ==
    /\ stage = "mqtt" /\ running = FALSE /\ link = FALSE /\ epoch = 0 /\ told = FALSE /\ callback = "none"
    /\ ready = FALSE /\ service = FALSE /\ starter = "none" /\ reachable = TRUE
    /\ workers = [new |-> 0, begun |-> 0, rest |-> FALSE] /\ tried = FALSE
    /\ watched = {} /\ probe = [p \in Parts |-> "first"] /\ saw = [p \in Parts |-> FALSE]
    /\ health = [p \in Parts |-> "unset"] /\ events = 0

Event == events < MaxEvents /\ events' = events + 1
Spawned == workers' = [workers EXCEPT !.new = @ + 1] /\ UNCHANGED tried
Says(p, status) == health' = [health EXCEPT ![p] = status]

-----------------------------------------------------------------------------
(* Open *)

StartMQTT ==
    /\ stage = "mqtt" /\ stage' = "ha" /\ running' = TRUE
    /\ UNCHANGED <<link, epoch, told, callback, ready, assistant, reachable, discovery, watchdog, health, events>>

OpenHomeAssistant ==
    /\ stage = "ha"
    /\ IF Configured THEN stage' = "starting" /\ starter' = "create"
       ELSE stage' = "watchdog" /\ UNCHANGED starter
    /\ UNCHANGED <<client, service, reachable, discovery, watchdog, health, events>>

StartWatchdog ==
    /\ stage = "watchdog" /\ stage' = "open"
    /\ watched' = {"mqtt"} \cup (IF service THEN {"ha"} ELSE {})
    /\ UNCHANGED <<client, assistant, reachable, discovery, probe, saw, health, events>>

-----------------------------------------------------------------------------
(* StartHomeAssistant: by Open, or by the wizard behind an HTTP request      *)

ConfigureHomeAssistant ==
    /\ stage = "open" /\ starter = "none" /\ reachable
    /\ Event /\ starter' = "create"
    /\ UNCHANGED <<stage, client, service, reachable, discovery, watchdog, health>>

Started(works) ==
    IF stage = "starting" THEN stage' = "watchdog" /\ Says("ha", IF works THEN "healthy" ELSE "unwell")
    ELSE UNCHANGED <<stage, health>>

CreateFails ==
    /\ starter = "create" /\ Event /\ Started(FALSE)
    /\ starter' = "none"
    /\ UNCHANGED <<client, service, reachable, discovery, watchdog>>

(* The clients of the new service are made while the old one serves; then    *)
(* the field is set, and then it is asked whether MQTT is connected.         *)
AskedFirst == [create |-> "ask", ask |-> "set", set |-> "none"]     \* a slip
After == [create |-> "set", set |-> "ask", ask |-> "none"]

Step(step) == starter = step /\ starter' = After[step]
Done(step) == IF After[step] = "none" THEN Started(TRUE) ELSE UNCHANGED <<stage, health>>
CreateClients ==
    /\ Step("create")
    /\ UNCHANGED <<stage, client, service, reachable, discovery, watchdog, health, events>>
SetService ==
    /\ Step("set") /\ service' = TRUE /\ Done("set")
    /\ UNCHANGED <<client, reachable, discovery, watchdog, events>>
AskReady ==
    /\ Step("ask") /\ Done("ask")
    /\ IF ready THEN Spawned ELSE UNCHANGED discovery
    /\ UNCHANGED <<client, service, reachable, watchdog, events>>

-----------------------------------------------------------------------------
(* The client of MQTT; onState is called to its end                          *)

Connect ==
    /\ running /\ ~link /\ ~told /\ callback = "none" /\ epoch < MaxConnections /\ Event
    /\ link' = TRUE /\ epoch' = epoch + 1 /\ told' = TRUE /\ callback' = "store" /\ tried' = FALSE
    /\ UNCHANGED <<stage, running, ready, assistant, reachable, workers, watchdog, health>>
Drop ==
    /\ running /\ link /\ epoch < MaxConnections
    /\ link' = FALSE
    /\ UNCHANGED <<stage, running, epoch, told, callback, ready, assistant, reachable, discovery, watchdog, health, events>>
(* The connection has gone, or an attempt to make one has failed.            *)
OnConnectionDown ==
    /\ running /\ ~link /\ callback = "none"
    /\ told' = FALSE /\ callback' = "store"
    /\ told \/ health["mqtt"] # "unwell"
    /\ UNCHANGED <<stage, running, link, epoch, ready, assistant, reachable, discovery, watchdog, health, events>>

StoreReady ==
    /\ callback = "store" /\ callback' = "health" /\ ready' = told
    /\ UNCHANGED <<stage, running, link, epoch, told, assistant, reachable, discovery, watchdog, health, events>>
SetHealth ==
    /\ callback = "health" /\ callback' = IF told THEN "spawn" ELSE "none"
    /\ Says("mqtt", IF told THEN "healthy" ELSE "unwell")
    /\ UNCHANGED <<stage, running, link, epoch, told, ready, assistant, reachable, discovery, watchdog, events>>
SpawnDiscovery ==
    /\ callback = "spawn" /\ callback' = "none" /\ Spawned
    /\ UNCHANGED <<stage, running, link, epoch, told, ready, assistant, reachable, watchdog, health, events>>

(* Home Assistant goes away, comes back, and says so over MQTT.              *)
Outage ==
    /\ Alive /\ reachable /\ Event /\ reachable' = FALSE
    /\ UNCHANGED <<stage, client, assistant, discovery, watchdog, health>>
Online ==
    /\ Alive /\ ~reachable /\ reachable' = TRUE
    /\ \/ link /\ running /\ Spawned
       \/ UNCHANGED discovery
    /\ UNCHANGED <<stage, client, assistant, watchdog, health, events>>

-----------------------------------------------------------------------------
(* publishHADiscovery *)

Begin ==
    /\ Alive /\ workers.new > 0
    /\ workers' = [workers EXCEPT !.new = @ - 1, !.begun = IF service /\ ~Cancelled THEN @ + 1 ELSE @]
    /\ UNCHANGED <<stage, client, assistant, reachable, tried, watchdog, health, events>>
PublishSystem ==
    /\ Alive /\ workers.begun > 0
    /\ \/ /\ service /\ link /\ ~Cancelled
          /\ workers' = [workers EXCEPT !.begun = @ - 1, !.rest = TRUE]
          /\ tried' = TRUE /\ UNCHANGED events
       \/ /\ ~service \/ ~link \/ Cancelled
          /\ workers' = [workers EXCEPT !.begun = @ - 1] /\ UNCHANGED <<tried, events>>
       \/ workers' = [workers EXCEPT !.begun = @ - 1] /\ tried' = TRUE /\ Event
    /\ UNCHANGED <<stage, client, assistant, reachable, watchdog, health>>
(* Availability, state, cameras, intercoms: the field is read again.         *)
PublishRest ==
    /\ Alive /\ workers.rest
    /\ \E more \in BOOLEAN : workers' = [workers EXCEPT !.rest = more]
    /\ stage' = IF service THEN stage ELSE "panicked"
    /\ UNCHANGED <<client, assistant, reachable, tried, watchdog, health, events>>

-----------------------------------------------------------------------------
(* The watchdog *)

Answers(p) == IF p = "mqtt" THEN ready ELSE service /\ reachable
Probe(p) ==
    /\ p \in watched
    /\ probe[p] = "first" \/ (probe[p] = "wait" /\ ~Cancelled)
    /\ probe' = [probe EXCEPT ![p] = "set"] /\ saw' = [saw EXCEPT ![p] = Answers(p)]
    /\ UNCHANGED <<stage, client, assistant, reachable, discovery, watched, health, events>>

Report(p) ==
    /\ probe[p] = "set" /\ probe' = [probe EXCEPT ![p] = "wait"]
    /\ saw' = [saw EXCEPT ![p] = FALSE]
    /\ Says(p, IF saw[p] THEN "healthy" ELSE "unwell")
    /\ UNCHANGED <<stage, client, assistant, reachable, discovery, watched, events>>

(* A check looks at its context while it waits.                              *)
GivesUp(p) == Cancelled \/ health[p] = "unwell"     \* a slip: what has failed is not probed again
NeverLooks(p) == FALSE                      \* a slip: the wait is a sleep
Ends(p) == Cancelled
EndCheck(p) ==
    /\ p \in watched /\ probe[p] = "wait" /\ Ends(p)
    /\ watched' = watched \ {p}
    /\ UNCHANGED <<stage, client, assistant, reachable, discovery, probe, saw, health, events>>

-----------------------------------------------------------------------------
(* Close *)

Cancel ==
    /\ stage = "open" /\ stage' = "cancelled"
    /\ UNCHANGED <<client, assistant, reachable, discovery, watchdog, health, events>>
CloseWatchdog ==
    /\ stage = "cancelled" /\ watched = {} /\ stage' = "unwatched"
    /\ UNCHANGED <<client, assistant, reachable, discovery, watchdog, health, events>>
CloseHomeAssistant ==
    /\ stage = "unwatched" /\ stage' = "detached" /\ service' = FALSE
    /\ UNCHANGED <<client, starter, reachable, discovery, watchdog, health, events>>
CloseMQTT ==
    /\ stage = "detached" /\ callback = "none"
    /\ stage' = "down" /\ running' = FALSE /\ link' = FALSE
    /\ UNCHANGED <<epoch, told, callback, ready, assistant, reachable, discovery, watchdog, health, events>>

Open == StartMQTT \/ OpenHomeAssistant \/ CreateClients \/ SetService \/ AskReady \/ StartWatchdog
Callback == StoreReady \/ SetHealth \/ SpawnDiscovery
Close == CloseWatchdog \/ CloseHomeAssistant \/ CloseMQTT
Next ==
    /\ Alive
    /\ \/ Open \/ ConfigureHomeAssistant \/ CreateFails
       \/ Connect \/ Drop \/ OnConnectionDown \/ Callback \/ Outage \/ Online
       \/ Begin \/ PublishSystem \/ PublishRest
       \/ \E p \in Parts : Probe(p) \/ Report(p) \/ EndCheck(p)
       \/ Cancel \/ Close

(* The goroutines go on; that the connection or Home Assistant comes, that   *)
(* somebody configures or closes, is never owed.                             *)
Fairness ==
    /\ WF_vars(Alive /\ Callback) /\ WF_vars(Alive /\ Close)
    /\ \A p \in Parts : WF_vars(Alive /\ (Probe(p) \/ Report(p) \/ EndCheck(p)))
Spec == Init /\ [][Next]_vars /\ Fairness
-----------------------------------------------------------------------------
(* Properties *)

(* On every connection to the broker Sentinel has been announced to Home     *)
(* Assistant, is about to be, or an attempt has failed, in whatever order    *)
(* the connection and the service came about: app.go:onState stores "ready"  *)
(* before it looks for the service, and StartHomeAssistant sets the service  *)
(* before it asks for "ready".                                               *)
AnnouncedOrOnTheWay ==
    stage = "open" /\ link /\ told /\ callback = "none" /\ service /\ starter # "ask" =>
        tried \/ workers.new + workers.begun > 0

(* However callbacks and probes overwrite one another, the registry comes to *)
(* say "healthy" of what stays healthy and has a check.                      *)
HealthSettles ==
    /\ <>[](stage = "open" /\ link /\ told) => <>[](health["mqtt"] = "healthy")
    /\ <>[](stage = "open" /\ service /\ reachable /\ "ha" \in watched) =>
           <>[](health["ha"] = "healthy")

(* Close comes to its end: the checks it waits for hear of it.               *)
CloseEnds == Cancelled ~> stage \in {"down", "panicked"}
=============================================================================
