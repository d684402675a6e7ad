-------------------------- MODULE MCScenarioCompile --------------------------
(***************************************************************************)
(* The documents, registries and contexts of ScenarioEditor: they combine  *)
(* every kind of step, of condition and of trigger with the others one or  *)
(* two at a time.                                                          *)
(***************************************************************************)
EXTENDS ScenarioEditor

MCPadded == (" in" :> "in") @@ (" lamp" :> "lamp") @@ (" r1" :> "r1") @@ ("  " :> "")
MCIdOrder == <<"in", "level", "tick">>

Cap(id, version, entity) == [id |-> id, version |-> version, entity |-> entity]
V1 == <<1, 0, 0>>
Num(kind, p, q) == Literal([type |-> T(kind), num |-> <<p, q>>, text |-> ""])
Str(text) == Literal(Text(T("string"), text))

Field(name, type, enum) == [name |-> name, type |-> type, required |-> TRUE, enum |-> enum]
Capability(id, version, kind, input, risk, external) ==
    [id |-> id, version |-> version, kind |-> kind, input |-> input, risk |-> risk,
     external |-> external, health |-> "healthy", permission |-> id,
     verification |-> "readback", compensation |-> "none",
     output |-> <<>>, state |-> <<>>]

Level == {Field("level", T("percentage"), {})}
Tone == {[Field("tone", T("string"), {"low", "high"}) EXCEPT !.required = FALSE]}
Motion == [Capability("motion", V1, "trigger", {}, "low", FALSE) EXCEPT
             !.output = [lux |-> T("illuminance"), label |-> T("string")]]
Thermo == [Capability("thermo", V1, "state", {}, "low", FALSE) EXCEPT
             !.state = [heat |-> T("temperature")]]
Capabilities ==
    {Motion, Thermo,
     Capability("light", V1, "action", Level, "low", FALSE),
     Capability("light", <<1, 2, 0>>, "action", Level, "low", FALSE),
     Capability("notify", V1, "action", Tone, "low", FALSE),
     Capability("unlock", V1, "action", {}, "critical", TRUE),
     Capability("door.open", V1, "action", {}, "low", FALSE),
     Capability("siren", V1, "action", {}, "high", TRUE)}
Hall == [id |-> "hall", kind |-> "sensor", capabilities |-> {<<"thermo", V1>>}]
Full == [capabilities |-> Capabilities, entities |-> {Hall}]
Lean == [capabilities |-> {c \in Capabilities : c.id # "light" \/ c.version = V1},
         entities |-> {}]
Dark == [capabilities |-> {[c EXCEPT !.health = "offline"] : c \in Capabilities},
         entities |-> {Hall}]
MCRegistries == {Full, Lean, Dark}

(* Steps *)
Do(id, cap, args) == [id |-> id, kind |-> "action", cap |-> cap, args |-> args, retry |-> 0]
Light(id) == Do(id, Cap("light", V1, "light:lamp"), [level |-> Num("percentage", 1, 2)])
Notify(id) == Do(id, Cap("notify", V1, ""), <<>>)
Toned(tone) == [Notify("s1") EXCEPT !.args = [tone |-> Str(tone)]]
UnlockDoor(id) == Do(id, Cap("unlock", V1, "door:front"), <<>>)
Open(id) == Do(id, Cap("door.open", V1, "door:front"), <<>>)
Siren(id) == Do(id, Cap("siren", V1, "siren:hall"), <<>>)
Wait(id) == [id |-> id, kind |-> "wait", duration |-> 3]
Approve(id) == [id |-> id, kind |-> "human_approval", risk |-> "high", timeout |-> 0]
Stop(id) == [id |-> id, kind |-> "stop", outcome |-> "completed"]
Sub(id, scenario) ==
    [id |-> id, kind |-> "subflow", scenario |-> scenario, version |-> 1, args |-> <<>>]
Join(id, threshold) == [id |-> id, kind |-> "join", mode |-> "quorum", threshold |-> threshold]
If2(id, test, flows) == [id |-> id, kind |-> "if", when |-> <<test>>, flows |-> flows]
Switch(id, test, flows) == [id |-> id, kind |-> "switch", when |-> <<test>>, flows |-> flows]
Fork(id, flows) == [id |-> id, kind |-> "parallel", flows |-> flows]

(* Expressions *)
Lux == Ref("trigger.lux")
Bright == Apply("gt", <<Lux, Num("illuminance", 10, 1)>>)
Labelled == Apply("eq", <<Ref("trigger.label"), Str("cat")>>)
Above(op, p) ==     \* beyond MaxInt, Exponential or MaxFloat
    Apply("gt", <<Apply(op, <<Num("int", p, 1), Num("int", p, 1)>>), Num("int", 1, 1)>>)
Conditions ==
    {Zero, Bright, Labelled,
     Apply("not", <<Bright>>), Apply("or", <<Apply("missing", <<Lux>>), Bright>>),
     Apply("or", <<Bright, Apply("missing", <<Lux>>)>>),
     Apply("and", <<Apply("exists", <<Lux>>), Bright>>),
     Apply("between", <<Apply("add", <<Lux, Lux>>), Num("illuminance", 1, 1),
                        Num("illuminance", 30, 1)>>),
     Apply("eq", <<Apply("div", <<Num("int", 6, 1), Num("int", 3, 1)>>), Num("float", 2, 1)>>),
     Apply("gte", <<Ref("state.hall.heat"), Num("temperature", 20, 1)>>),
     Apply("lte", <<Ref("parameter.level"), Ref("trigger.confidence")>>),
     Apply("gt", <<Ref("trigger.label"), Str("ape")>>),
     Apply("changed", <<Lux>>), Apply("gt", <<Lux, Str("ape")>>), Lux,
     Apply("eq", <<Apply("div", <<Num("int", 6, 1), Num("int", 0, 1)>>), Num("float", 2, 1)>>),
     Above("add", 30), Above("mul", 10), Above("mul", 20),
     Ref("nowhere"), [Zero EXCEPT !.ref = "  "]}

(* Triggers *)
On(id, filter, temporal) ==
    [id |-> id, kind |-> "device_event", cap |-> Cap("motion", V1, "sensor:hall"),
     filter |-> filter, temporal |-> temporal]
Tick == [On("tick", Zero, <<>>) EXCEPT !.kind = "schedule"]
Temporal(kind, duration, related, count) ==
    [kind |-> kind, duration |-> duration, related |-> related, count |-> count,
     until |-> IF kind = "until" THEN Bright ELSE Zero, catchUp |-> "skip"]
TriggerLists ==
    {<<On("in", Zero, <<>>)>>, <<On(" in", Zero, <<>>)>>, <<On("in", Bright, <<>>)>>,
     <<Tick, On("in", Bright, <<>>)>>, <<On("in", Bright, <<>>), Tick>>,
     <<On("in", Zero, <<>>), On(" in", Zero, <<>>)>>}
     \cup {<<On("in", Zero, <<t>>), On("level", Zero, <<>>)>> :
             t \in {Temporal("debounce", 2, "", 0), Temporal("throttle", 9, "", 0),
                    Temporal("repeat_within", 9, "", 1), Temporal("repeat_within", 9, "", 2),
                    Temporal("until", 0, "", 0), Temporal("after", 0, "level", 0),
                    Temporal("after", 0, "in", 0), Temporal("schedule_window", 0, "", 0)}}

(* Flows *)
Leaves(id) == {Light(id), Notify(id), UnlockDoor(id), Open(id), Siren(id), Wait(id),
               Approve(id), Stop(id), Sub(id, "other")}
Nestings(inner) ==
    {<<If2("n", Bright, <<inner>>)>>, <<If2("n", Bright, <<(<<Notify("m")>>), inner>>)>>,
     <<Switch("n", Bright, <<inner>>)>>, <<Fork("n", <<inner, <<Notify("m")>>>>)>>,
     <<If2("n", Bright, <<(<<Fork("m", <<inner, <<Notify("o")>>>>)>>)>>)>>}
Flows ==
    {<<a, b>> : a \in Leaves("s1"), b \in Leaves("s2")}
    \cup UNION {Nestings(<<a>>) : a \in Leaves("s1")}
    \cup {<<Sub("s1", "scene")>>, <<Join("s1", 0)>>, <<Join("s1", 1)>>, <<>>,
          <<Light("s1"), Notify("s1")>>, <<Light(" lamp")>>, <<UnlockDoor("s1"), Light("entry")>>,
          <<Light("s1"), Notify("s2"), Notify("s3")>>,
          <<[Light("s1") EXCEPT !.retry = 2]>>, <<[Light("s1") EXCEPT !.retry = 11]>>,
          <<[Light("s1") EXCEPT !.args = <<>>]>>, <<Toned("low")>>, <<Toned("shrill")>>,
          <<[Light("s1") EXCEPT !.args = [level |-> Str("half")]]>>,
          <<[Light("s1") EXCEPT !.args = [level |-> Ref("parameter.level")]]>>,
          <<[Light("s1") EXCEPT !.cap.version = <<2, 0, 0>>]>>,
          <<Fork("s1", <<(<<Light("s2")>>), <<[Notify("s3") EXCEPT !.cap.entity = "light:lamp"]>>>>)>>}

MyParameter == [id |-> "level", type |-> T("percentage"),
                default |-> [type |-> T("percentage"), num |-> <<1, 4>>, text |-> ""]]
Document(triggers, condition, flow) ==
    [id |-> "scene", revision |-> "r1", triggers |-> triggers, condition |-> condition, flow |-> flow,
     parameters |-> <<MyParameter>>, layout |-> {}]
Simple == <<On("in", Zero, <<>>)>>
MCDocuments ==
    {Document(t, Zero, <<Light("s1")>>) : t \in TriggerLists} \cup
    {Document(Simple, c, <<Light("s1")>>) : c \in Conditions} \cup
    {Document(Simple, Bright, f) : f \in Flows} \cup
    {[Document(Simple, Zero, <<Light(" lamp")>>) EXCEPT !.layout = {" lamp"}]} \cup
    {[Document(Simple, Zero, <<a>>) EXCEPT !.revision = r, !.layout = l] :
        a \in {Light("s1"), Siren("s1")}, r \in {"r1", " r1", "r2"}, l \in {{}, {"s1"}}}

(* What a dry run is given *)
Value(kind, p) == [type |-> T(kind), num |-> <<p, 1>>, text |-> ""]
Event(lux) == [lux |-> Value("illuminance", lux), label |-> Text(T("string"), "cat"),
               confidence |-> Value("confidence", 1)]
Home == ("hall.heat" :> Value("temperature", 25))
MCContexts ==
    {[event |-> Event(l), home |-> Home, approvals |-> a] :
        l \in {5, 20}, a \in {<<>>, [s1 |-> FALSE], [s2 |-> FALSE]}}
    \cup {[event |-> <<>>, home |-> <<>>, approvals |-> <<>>]}
=============================================================================
