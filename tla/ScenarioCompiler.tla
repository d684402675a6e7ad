-------------------------- MODULE ScenarioCompiler --------------------------
(***************************************************************************)
(* The passes of internal/scenario/compiler over the documents of          *)
(* ScenarioModel, and the answers of the capability registry they use.     *)
(*                                                                         *)
(*   descriptor [id, version, kind, input, output, state, risk,            *)
(*              permission, external, health, verification, compensation]  *)
(*              with version a triple, input a set of fields               *)
(*              [name, type, required, enum] (required without a default,  *)
(*              enum {} when any text will do) and output, state functions *)
(*              from field names to types                                  *)
(*   registry   [capabilities, entities]: the descriptors, and             *)
(*              [id, kind, capabilities] with the keys <<id, version>>     *)
(***************************************************************************)
EXTENDS ScenarioModel

CONSTANTS
    \* capability identifiers by the word they contain
    UnlockIds, DoorOpenIds, SirenIds, AlarmIds

IsUnlock(id) == id \in UnlockIds \cup DoorOpenIds
IsSiren(id) == id \in SirenIds \cup AlarmIds

-----------------------------------------------------------------------------
(* Capability versions *)

AtLeast(v, w) ==
    \/ v[1] > w[1]
    \/ v[1] = w[1] /\ v[2] > w[2]
    \/ v[1] = w[1] /\ v[2] = w[2] /\ v[3] >= w[3]
IsBackwardCompatible(required, candidate) ==
    /\ candidate[1] = required[1] /\ AtLeast(candidate, required)
    /\ required[1] = 0 => candidate[2] = required[2]

Offers(reg, cap) ==
    {c \in reg.capabilities : c.id = cap.id /\ IsBackwardCompatible(cap.version, c.version)}
Registered(reg, cap) == Offers(reg, cap) # {}
ResolveCompatible(reg, cap) ==
    CHOOSE c \in Offers(reg, cap) : \A o \in Offers(reg, cap) : AtLeast(c.version, o.version)

-----------------------------------------------------------------------------
(* Diagnostics: [code, severity] *)

Error(code) == [code |-> code, severity |-> "error"]
Warning(code) == [code |-> code, severity |-> "warning"]
HasErrors(diags) == \E d \in diags : d.severity = "error"
If(b, diag) == IF b THEN {diag} ELSE {}

-----------------------------------------------------------------------------
(* The typing environment: references to their types.  A later trigger or    *)
(* entity takes a name over from an earlier one.                             *)

HomeMode == [kind |-> "enum", of |-> "home_mode", unit |-> ""]
StandardEnv ==
    [r \in {"state.home.mode", "home.mode", "state.home.presence"} |->
        IF r = "state.home.presence" THEN T("bool") ELSE HomeMode]
PayloadEnv ==
    [r \in {"trigger.person.name", "trigger.snapshot", "trigger.confidence",
            "trigger.timestamp"} |->
        CASE r = "trigger.person.name" -> T("string")
          [] r = "trigger.snapshot" -> T("artifact_ref")
          [] r = "trigger.confidence" -> T("confidence")
          [] r = "trigger.timestamp" -> T("timestamp")]
Over(f, g) == [x \in DOMAIN f \cup DOMAIN g |-> IF x \in DOMAIN f THEN f[x] ELSE g[x]]

ParameterEnv(d) ==
    [r \in {"parameter." \o d.parameters[i].id : i \in DOMAIN d.parameters} |->
        (CHOOSE p \in Elements(d.parameters) : "parameter." \o p.id = r).type]
Named(prefix, fields) ==
    [r \in {prefix \o f : f \in DOMAIN fields} |->
        fields[CHOOSE f \in DOMAIN fields : prefix \o f = r]]
OutputEnv(d, reg) ==
    FoldLeft(LAMBDA env, t :
               IF ~Registered(reg, t.cap) THEN env
               ELSE LET output == ResolveCompatible(reg, t.cap).output
                    IN  Over(Named("trigger.", output),
                             Over(Named("trigger." \o t.id \o ".", output), env)),
             <<>>, d.triggers)
StateEnv(reg) ==
    LET states(e) == {c \in reg.capabilities :
                         c.kind = "state" /\ <<c.id, c.version>> \in e.capabilities}
        of(e) == FoldSet(LAMBDA c, env : Over(c.state, env), <<>>, states(e))
    IN  FoldSet(LAMBDA e, env : Over(Named("device." \o e.id \o ".", of(e)),
                                     Over(Named("state." \o e.id \o ".", of(e)), env)),
                <<>>, reg.entities)

BuildTypeEnvironment(d, reg) ==
    Over(StateEnv(reg), Over(OutputEnv(d, reg),
         Over(ParameterEnv(d), Over(PayloadEnv, StandardEnv))))

-----------------------------------------------------------------------------
(* Capability resolution.  One version is kept per capability: the one of    *)
(* the reference met last, the triggers before the flow.                     *)

Actions(flow) == SelectSeq(Walk(flow, Branching), LAMBDA s : s.kind = "action")
References(d) ==
    [i \in DOMAIN d.triggers |-> d.triggers[i].cap] \o
    [i \in DOMAIN Actions(d.flow) |-> Actions(d.flow)[i].cap]

KnownOf(refs, reg) == SelectSeq(refs, LAMBDA c : Registered(reg, c))

ResolveCapabilities(d, reg) ==
    LET refs == References(d)
        known == KnownOf(refs, reg)
        last(id) == CHOOSE i \in DOMAIN known :
                        known[i].id = id /\ \A j \in DOMAIN known : known[j].id = id => j <= i
        acts == {a.cap : a \in {s \in AllSteps(d.flow) : s.kind = "action"}}
    IN  [descriptors |-> [id \in {known[i].id : i \in DOMAIN known} |->
                             ResolveCompatible(reg, known[last(id)])],
         entities |-> {c.entity : c \in Elements(known)} \ {""},
         resources |-> {c.entity : c \in {a \in acts : Registered(reg, a)}} \ {""},
         permissions |-> {ResolveCompatible(reg, known[i]).permission : i \in DOMAIN known},
         diags |-> If(known # refs, Error("capability_not_found")) \cup
                   If(\E a \in acts : Registered(reg, a) /\
                        ResolveCompatible(reg, a).health = "offline",
                      Warning("capability_unavailable"))]

-----------------------------------------------------------------------------
(* Type checking *)

ArgumentDiags(s, env, descriptors) ==
    LET known == s.cap.id \in DOMAIN descriptors
        fields == IF known THEN descriptors[s.cap.id].input ELSE {}
        field(a) == CHOOSE f \in fields : f.name = a
        declared(a) == \E f \in fields : f.name = a
        typed == {a \in DOMAIN s.args : CheckExpr(s.args[a], env) # TypeError}
        listed(a) == s.args[a].value.text \in field(a).enum \cup
                        (IF field(a).enum = {} THEN {s.args[a].value.text} ELSE {})
    IN  If(typed # DOMAIN s.args, Error("type_mismatch")) \cup
        If(\E a \in typed : declared(a) /\ s.args[a].op = "literal" /\
             s.args[a].value.type.kind = "string" /\ ~listed(a), Error("invalid_enum_value")) \cup
        If(known /\ \E a \in typed : ~declared(a), Error("unknown_argument")) \cup
        If(\E a \in typed : declared(a) /\
             ~Compatible(field(a).type, CheckExpr(s.args[a], env)), Error("type_mismatch")) \cup
        If(\E f \in fields : f.required /\ f.name \notin DOMAIN s.args,
           Error("missing_required_argument"))

TypeCheckScenario(d, env, descriptors) ==
    LET steps == AllSteps(d.flow)
        conditions == {d.condition} \cup {t.filter : t \in Elements(d.triggers)}
        tests == UNION {Elements(s.when) : s \in {x \in steps : x.kind \in {"if", "switch"}}}
        subArgs == UNION {{s.args[a] : a \in DOMAIN s.args} :
                             s \in {x \in steps : x.kind = "subflow"}}
    IN  If(\E e \in conditions \ {Zero} : ~IsBool(e, env), Error("type_mismatch")) \cup
        If(\E e \in tests : ~IsBool(e, env), Error("type_mismatch")) \cup
        If(\E e \in subArgs : CheckExpr(e, env) = TypeError, Error("type_mismatch")) \cup
        UNION {ArgumentDiags(s, env, descriptors) : s \in {x \in steps : x.kind = "action"}}

-----------------------------------------------------------------------------
(* Temporal requirements: [kind, durable] *)

ShortDuration == 5      \* seconds a debounce or throttle may last in memory
TriggerRequirements(t) ==
    If(t.kind = "schedule", [kind |-> "schedule", durable |-> TRUE]) \cup
    {[kind |-> t.temporal[i].kind,
      durable |-> CASE t.temporal[i].kind \in {"debounce", "throttle"} ->
                         t.temporal[i].duration > ShortDuration
                    [] t.temporal[i].kind = "schedule_window" -> FALSE
                    [] OTHER -> TRUE] :
        i \in {j \in DOMAIN t.temporal : t.temporal[j].kind \in
                 {"debounce", "throttle", "repeat_within", "schedule_window", "until"}}}
AnalyzeTemporal(d) ==
    UNION {TriggerRequirements(t) : t \in Elements(d.triggers)} \cup
    {[kind |-> "wait", durable |-> TRUE] : s \in {x \in AllSteps(d.flow) : x.kind = "wait"}} \cup
    {[kind |-> "human_approval_timeout", durable |-> TRUE] :
        s \in {x \in AllSteps(d.flow) : x.kind = "human_approval" /\ x.timeout > 0}}

-----------------------------------------------------------------------------
(* The safety pass.  The system graph is a chain of nodes                    *)
(* [id, kind, risk, system]; the next of a node is its successor.  The pass  *)
(* goes into the branches of an if step only.                                *)

Node(role, s, kind, risk, system) ==
    [id |-> <<role, s.id>>, kind |-> kind, risk |-> risk, system |-> system]
Entry == [id |-> <<"user", "entry">>, kind |-> "trigger", risk |-> "low", system |-> FALSE]

RiskOf(s, descriptors) ==
    IF s.cap.id \in DOMAIN descriptors THEN descriptors[s.cap.id].risk ELSE "low"

NodesOf(s, descriptors) ==
    CASE s.kind = "action" /\ IsUnlock(s.cap.id) ->
           << Node("approval", s, "human_approval", "critical", TRUE),
              Node("lock", s, "resource_reservation", "high", TRUE),
              Node("read", s, "read_before_write", "low", TRUE),
              Node("action", s, "action", "critical", FALSE),
              Node("verify", s, "verify_after_write", "low", TRUE) >>
      [] s.kind = "action" /\ ~IsUnlock(s.cap.id) /\ IsSiren(s.cap.id) ->
           << Node("duration", s, "duration_limit", "medium", TRUE),
              Node("action", s, "action", "high", FALSE),
              Node("comp", s, "compensation", "low", TRUE) >>
      [] s.kind = "action" /\ ~IsUnlock(s.cap.id) /\ ~IsSiren(s.cap.id) ->
           << Node("user", s, "action", RiskOf(s, descriptors), FALSE) >>
      [] s.kind = "human_approval" -> << Node("user", s, "human_approval", s.risk, FALSE) >>
      [] s.kind = "subflow" -> << Node("user", s, "subflow", "medium", FALSE) >>
      [] OTHER -> << Node("user", s, s.kind, "low", FALSE) >>

(* [cap, resource, permission, risk, retries, verify, compensation]          *)
EffectOf(s, descriptors) ==
    LET effect(permission, risk, retries, verify, compensation) ==
            {[cap |-> s.cap.id, resource |-> s.cap.entity, permission |-> permission,
              risk |-> risk, retries |-> retries, verify |-> verify,
              compensation |-> compensation]}
    IN  CASE IsUnlock(s.cap.id) -> effect("door:unlock", "critical", 2, TRUE, "reconcile")
          [] ~IsUnlock(s.cap.id) /\ IsSiren(s.cap.id) ->
               effect("siren:sound", "high", 1, TRUE, "ensure_disabled")
          [] ~IsUnlock(s.cap.id) /\ ~IsSiren(s.cap.id) ->
               IF s.cap.id \in DOMAIN descriptors /\ descriptors[s.cap.id].external
               THEN LET c == descriptors[s.cap.id]
                    IN  effect(c.permission, c.risk, 3, c.verification = "readback",
                               c.compensation)
               ELSE {}

TopOnly == {}               \* a slip: nested steps not inspected
SafetyScope == {"if"}
ApplySafetyPass(d, descriptors) ==
    LET steps == StepsIn(d.flow, SafetyScope)
        walked == Walk(d.flow, SafetyScope)
        acts == {s \in steps : s.kind = "action"}
    IN  [graph |-> <<Entry>> \o
                   FlattenSeq([i \in DOMAIN walked |-> NodesOf(walked[i], descriptors)]),
         effects |-> UNION {EffectOf(s, descriptors) : s \in acts},
         reasons |-> {s.kind : s \in {x \in steps : x.kind \in
                         {"human_approval", "wait", "subflow", "parallel"}}} \cup
                     If(\E s \in acts : IsUnlock(s.cap.id), "unlock") \cup
                     If(\E s \in acts : ~IsUnlock(s.cap.id) /\ IsSiren(s.cap.id), "siren")]

-----------------------------------------------------------------------------
(* Static analysis *)

(* within one parallel step, over the steps at the top of its branches       *)
Conflicts(p) ==
    LET tops == FlattenSeq(p.flows)
        acts == {i \in DOMAIN tops : tops[i].kind = "action" /\ tops[i].cap.entity # ""}
    IN  \E i, j \in acts : tops[i].cap.entity = tops[j].cap.entity
                             /\ tops[i].cap.id # tops[j].cap.id

HasUnreachable(flow) ==
    \E f \in FlowsIn(flow, {"if", "switch"}) :
        \E i \in DOMAIN f : i < Len(f) /\ f[i].kind = "stop"

StaticConflictAnalysis(d) ==
    LET steps == AllSteps(d.flow)
        scope == StepsIn(d.flow, {"if"})
        acted == {s.cap.id : s \in {x \in scope : x.kind = "action" /\ x.cap.entity # ""}}
    IN  If(\E s \in steps : s.kind = "subflow" /\ s.scenario = d.id, Error("self_recursion")) \cup
        If(\E s \in scope : s.kind = "parallel" /\ Conflicts(s), Error("opposite_desired_state")) \cup
        If(HasUnreachable(d.flow), Warning("unreachable_step")) \cup
        If(\E t \in Elements(d.triggers) : t.cap.id \in acted, Warning("circular_dependency"))

-----------------------------------------------------------------------------
(* Runtime classification *)

MaxAxiomSteps == 2
TooLong(flow) == \E f \in FlowsIn(flow, {"if"}) : Len(f) > MaxAxiomSteps

DurableKinds == {"wait", "human_approval", "parallel", "join", "subflow", "switch"}
DurableStep(s, descriptors) ==
    \/ s.kind \in DurableKinds
    \/ s.kind = "action" /\
       \/ s.retry > 1
       \/ s.cap.id \in DOMAIN descriptors /\
          (descriptors[s.cap.id].risk \in {"high", "critical"} \/ descriptors[s.cap.id].external)

ByStepsOnly(d, temporal, safety, descriptors) ==    \* a slip: safety reasons dropped
    IF \/ \E r \in temporal : r.durable
       \/ TooLong(d.flow)
       \/ \E s \in StepsIn(d.flow, {"if"}) : DurableStep(s, descriptors)
    THEN "ADGO" ELSE "Axiom"
ClassifyRuntime(d, temporal, safety, descriptors) ==
    IF \/ safety.reasons # {}
       \/ \E r \in temporal : r.durable
       \/ TooLong(d.flow)
       \/ \E s \in StepsIn(d.flow, {"if"}) : DurableStep(s, descriptors)
    THEN "ADGO" ELSE "Axiom"

-----------------------------------------------------------------------------
(* Lowering, and the manifest *)

NodeType ==
    [trigger |-> "Trigger", wait |-> "Wait", human_approval |-> "Human",
     parallel |-> "Fork", join |-> "Join", subflow |-> "Subflow", if |-> "Decision",
     resource_reservation |-> "ResourceLock", read_before_write |-> "ReadState",
     verify_after_write |-> "VerifyWrite", compensation |-> "Compensation",
     duration_limit |-> "DurationLimit"]
(* the workflow bears the name of the revision, which no digest of the       *)
(* document's meaning does                                                   *)
LowerToADGO(d, safety) ==
    [workflow |-> <<d.id, d.revision>>,
     nodes |-> [i \in DOMAIN safety.graph |->
                  [id |-> safety.graph[i].id, system |-> safety.graph[i].system,
                   type |-> IF safety.graph[i].kind \in DOMAIN NodeType
                            THEN NodeType[safety.graph[i].kind] ELSE "Activity"]],
     resources |-> {e.resource : e \in safety.effects} \ {""}]

(* The first step only; an argument that is not a literal is lowered to its  *)
(* reference.                                                                *)
LowerToAxiom(d) ==
    LET first == Head(d.flow)
    IN  [trigger |-> Head(d.triggers).id, condition |-> d.condition,
         cap |-> IF first.kind = "action" THEN first.cap.id ELSE "",
         args |-> IF first.kind = "action"
                  THEN [a \in DOMAIN first.args |->
                          IF first.args[a].op = "literal" THEN first.args[a]
                          ELSE Ref(first.args[a].ref)]
                  ELSE <<>>]

NoPlan == <<>>
NoManifest == [scenario |-> "", runtime |-> "none"]

(* The passes over a normal form, and what Compile returns: [manifest, diags] *)
CompileNormal(d, reg) ==
    LET resolved == ResolveCapabilities(d, reg)
        descriptors == resolved.descriptors
        temporal == AnalyzeTemporal(d)
        safety == ApplySafetyPass(d, descriptors)
        runtime == ClassifyRuntime(d, temporal, safety, descriptors)
    IN  [manifest |->
           [scenario |-> d.id, digest |-> SemanticDigest(d), runtime |-> runtime,
            versions |-> [id \in DOMAIN descriptors |-> descriptors[id].version],
            permissions |-> resolved.permissions, entities |-> resolved.entities,
            resources |-> resolved.resources, effects |-> safety.effects,
            temporal |-> temporal,
            axiom |-> IF runtime = "Axiom" THEN LowerToAxiom(d) ELSE NoPlan,
            adgo |-> IF runtime = "ADGO" THEN LowerToADGO(d, safety) ELSE NoPlan],
         diags |-> resolved.diags \cup StaticConflictAnalysis(d) \cup
                   TypeCheckScenario(d, BuildTypeEnvironment(d, reg), descriptors)]
Malformed == [manifest |-> NoManifest, diags |-> {Error("malformed_structure")}]
Compile(source, reg) ==
    IF Normalizes(source) THEN CompileNormal(Normal(source), reg) ELSE Malformed

PlanDigest(m) ==
    <<m.scenario, m.digest, m.versions, m.runtime, m.permissions, m.resources, m.effects,
      m.axiom, m.adgo>>
=============================================================================
