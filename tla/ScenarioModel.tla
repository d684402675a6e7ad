---------------------------- MODULE ScenarioModel ----------------------------
(***************************************************************************)
(* The scenario documents of internal/scenario/model: typed values and     *)
(* expressions, steps and flows, validation, normalisation and the         *)
(* semantic digest.  A digest is the value it is computed from.            *)
(*                                                                         *)
(*   type       [kind, of, unit]; of stands for an enum's name and values, *)
(*              an entity's kind or a list's element kind, else "".        *)
(*   value      [type, num, text]; a number p/q is num <<p, q>>, any other *)
(*              datum is its text.                                         *)
(*   expression [op, ref, value, args], the empty expression is Zero.      *)
(*   step       [id, kind] and the fields of its payload; the nested flows *)
(*              of a branching step are its field flows, in the order of   *)
(*              the document (then, else; the cases, the default).         *)
(*   trigger    [id, kind, cap, filter, temporal]                          *)
(*   document   [id, revision, triggers, condition, flow, parameters,      *)
(*              layout]                                                    *)
(*                                                                         *)
(* The recursions of the code over terms in terms and flows in flows are   *)
(* recursive functions of the level k at which a part of the document      *)
(* stands; no document has more levels than 0 to MaxNesting, and nothing   *)
(* stands below.                                                           *)
(***************************************************************************)
EXTENDS Integers, Sequences, FiniteSets, SequencesExt

CONSTANTS
    Padded,     \* identifiers written with blanks |-> what TrimSpace leaves
    IdOrder,    \* the identifiers of triggers and parameters, sorted
    MaxNesting, \* the bound on the levels of a document, counted from 0
    MaxInt,     \* the greatest int64
    MaxFloat    \* the greatest finite float64

ASSUME NestingAssumption == MaxNesting \in Nat

Trim(id) == IF id \in DOMAIN Padded THEN Padded[id] ELSE id
ValidToken(id) == Trim(id) # ""

Elements(seq) == {seq[i] : i \in DOMAIN seq}
Distinct(seq) == Cardinality(Elements(seq)) = Len(seq)
Place(seq, x) == CHOOSE i \in DOMAIN seq : seq[i] = x

-----------------------------------------------------------------------------
(* Types *)

Plain == {"bool", "string", "int", "float", "time_of_day", "timestamp",
          "artifact_ref"}
CanonicalUnit ==
    [duration |-> "ns", percentage |-> "ratio", confidence |-> "ratio",
     temperature |-> "celsius", illuminance |-> "lux", distance |-> "meter"]
Quantities == DOMAIN CanonicalUnit
Described == {"enum", "entity_ref", "list"}

T(kind) == [kind |-> kind, of |-> "",
            unit |-> IF kind \in Quantities THEN CanonicalUnit[kind] ELSE ""]
TypeError == [kind |-> "error", of |-> "", unit |-> ""]

ValidType(t) ==
    /\ t.kind \in Plain \cup Quantities \cup Described
    /\ (t.kind \in Described) <=> (t.of # "")
    /\ t.unit = T(t.kind).unit

AnyTwo(t, u) == ValidType(t) /\ ValidType(u)        \* a slip: kinds not compared
Compatible(t, u) == ValidType(t) /\ ValidType(u) /\ t = u

Ordered(t) == t.kind \in (Plain \ {"bool", "artifact_ref"}) \cup Quantities
Numeric(t) == t.kind \in {"int", "float"} \cup (Quantities \ {"duration"})

(* Values: what canonicalData accepts for each kind *)

NumberKinds == {"int", "float"} \cup Quantities
Negative(n) == n[1] < 0
Whole(n) == n[1] % n[2] = 0
Between(n, low, high) == low * n[2] <= n[1] /\ n[1] <= high * n[2]
IsInt64(n) == Whole(n) /\ Between(n, -(MaxInt + 1), MaxInt)
IsFinite(n) == Between(n, -MaxFloat, MaxFloat)
ValidValue(v) ==
    /\ ValidType(v.type)
    /\ v.type.kind \in {"int", "duration"} => v.num[2] = 1 /\ IsInt64(v.num)
    /\ v.type.kind \in NumberKinds \ {"int", "duration"} => IsFinite(v.num)
    /\ v.type.kind \in {"duration", "illuminance", "distance"} => ~Negative(v.num)
    /\ v.type.kind \in {"percentage", "confidence"} =>
         ~Negative(v.num) /\ v.num[1] <= v.num[2]
    /\ v.type.kind = "temperature" => 100 * v.num[1] >= -27315 * v.num[2]

-----------------------------------------------------------------------------
(* Expressions *)

Text(type, text) == [type |-> type, num |-> <<0, 1>>, text |-> text]
NoValue == Text(TypeError, "")
Zero == [op |-> "", ref |-> "", value |-> NoValue, args |-> <<>>]
Literal(v) == [Zero EXCEPT !.op = "literal", !.value = v]
Ref(r) == [Zero EXCEPT !.op = "ref", !.ref = r]
Apply(op, args) == [Zero EXCEPT !.op = op, !.args = args]

Unary == {"not", "exists", "missing", "changed"}
Logical == {"and", "or"}
Ordering == {"gt", "gte", "lt", "lte"}
Arithmetic == {"add", "sub", "mul", "div"}
Binary == {"eq", "ne", "in"} \cup Ordering \cup Arithmetic

Arity(op, n) ==
    \/ op \in Unary /\ n = 1
    \/ op \in Logical /\ n >= 2
    \/ op \in Binary /\ n = 2
    \/ op = "between" /\ n = 3

(* The terms of an expression at each level.                                 *)
TermsAt(e) ==
    LET at[k \in 0 .. MaxNesting] ==
            IF k = 0 THEN {e} ELSE UNION {Elements(p.args) : p \in at[k - 1]}
    IN  at
Subterms(e) == UNION Elements(TermsAt(e))
ArgsOf(p, f) == [i \in DOMAIN p.args |-> f[p.args[i]]]

ValidTerm(p) ==
    \/ p.op = "literal" /\ p.ref = "" /\ p.args = <<>> /\ p.value # NoValue
         /\ ValidValue(p.value)
    \/ p.op = "ref" /\ p.value = NoValue /\ p.args = <<>> /\ ValidToken(p.ref)
    \/ p.ref = "" /\ p.value = NoValue /\ Arity(p.op, Len(p.args))
ValidExpr(e) == e = Zero \/ \A p \in Subterms(e) : ValidTerm(p)

ArithmeticResult(op, l, r) ==
    LET kinds == {l.kind, r.kind}
    IN  CASE op = "add" /\ kinds = {"string"} -> T("string")
          [] kinds = {"int"} -> IF op = "div" THEN T("float") ELSE T("int")
          [] "float" \in kinds /\ kinds \subseteq {"int", "float"} -> T("float")
          [] l.kind \in Quantities /\ Numeric(l) /\ Compatible(l, r) /\ op \in {"add", "sub"} -> l
          [] OTHER -> TypeError

(* The type of a term in an environment from those of its arguments, or      *)
(* TypeError.                                                                *)
AppliedType(p, args) ==
    LET boolIf(b) == IF b THEN T("bool") ELSE TypeError
    IN  CASE p.op \in {"exists", "missing"} -> T("bool")
          [] p.op = "changed" -> boolIf(p.args[1].op = "ref")
          [] p.op \in {"not"} \cup Logical ->
               boolIf(\A i \in DOMAIN args : args[i].kind = "bool")
          [] p.op \in {"eq", "ne"} -> boolIf(Compatible(args[1], args[2]))
          [] p.op \in Ordering ->
               boolIf(Compatible(args[1], args[2]) /\ Ordered(args[1]))
          [] p.op = "in" -> boolIf(args[2].kind = "list" /\ args[2].of = args[1].kind)
          [] p.op = "between" ->
               boolIf(Ordered(args[1]) /\ Compatible(args[1], args[2])
                        /\ Compatible(args[1], args[3]))
          [] OTHER -> ArithmeticResult(p.op, args[1], args[2])
TermType(p, args, env) ==
    CASE p = Zero -> TypeError
      [] p.op = "literal" -> p.value.type
      [] p.op = "ref" ->
           IF Trim(p.ref) \in DOMAIN env /\ ValidType(env[Trim(p.ref)])
           THEN env[Trim(p.ref)] ELSE TypeError
      [] OTHER -> IF TypeError \in Elements(args) THEN TypeError ELSE AppliedType(p, args)

TypesAt(e, env) ==
    LET type[k \in 0 .. MaxNesting + 1] ==
            IF k > MaxNesting THEN <<>> ELSE
            [p \in TermsAt(e)[k] |-> TermType(p, ArgsOf(p, type[k + 1]), env)]
    IN  type
TypeOf(e, env) == TypesAt(e, env)[0][e]
CheckExpr(e, env) == IF ValidExpr(e) THEN TypeOf(e, env) ELSE TypeError
IsBool(e, env) == CheckExpr(e, env).kind = "bool"

(* and/or take their arguments in the order of their serialised form: in one *)
(* order that depends on nothing but which arguments they are                *)
Rearranged(args) ==
    {[i \in DOMAIN args |-> args[f[i]]] : f \in Surjection(DOMAIN args, DOMAIN args)}
SortArgs(args) == CHOOSE s \in Rearranged(args) : TRUE

NormalTerm(p, args) ==
    [p EXCEPT !.ref = Trim(@), !.args = IF p.op \in Logical THEN SortArgs(args) ELSE args]
NormalTermsAt(e) ==
    LET normal[k \in 0 .. MaxNesting + 1] ==
            IF k > MaxNesting THEN <<>> ELSE
            [p \in TermsAt(e)[k] |-> NormalTerm(p, ArgsOf(p, normal[k + 1]))]
    IN  normal
NormalExpr(e) == NormalTermsAt(e)[0][e]

-----------------------------------------------------------------------------
(* Steps and flows *)

Branching == {"if", "switch", "parallel"}

(* The flows in a flow at each level, and all steps of them, when a pass goes *)
(* into the nested flows of the kinds in "into".                             *)
Nested(flow, into) ==
    UNION {Elements(flow[i].flows) : i \in {j \in DOMAIN flow : flow[j].kind \in into}}
FlowsAt(flow, into) ==
    LET at[k \in 0 .. MaxNesting] ==
            IF k = 0 THEN {flow} ELSE UNION {Nested(f, into) : f \in at[k - 1]}
    IN  at
FlowsIn(flow, into) == UNION Elements(FlowsAt(flow, into))
StepsIn(flow, into) == UNION {Elements(f) : f \in FlowsIn(flow, into)}
AllSteps(flow) == StepsIn(flow, Branching)

(* The same steps in the order a pass meets them: each before those nested   *)
(* in it.                                                                    *)
Within(s, into, walk) ==
    IF s.kind \in into THEN FlattenSeq([j \in DOMAIN s.flows |-> walk[s.flows[j]]]) ELSE <<>>
Walked(f, into, walk) == FlattenSeq([i \in DOMAIN f |-> <<f[i]>> \o Within(f[i], into, walk)])
WalksAt(flow, into) ==
    LET walk[k \in 0 .. MaxNesting + 1] ==
            IF k > MaxNesting THEN <<>> ELSE
            [f \in FlowsAt(flow, into)[k] |-> Walked(f, into, walk[k + 1])]
    IN  walk
Walk(flow, into) == WalksAt(flow, into)[0][flow]

MaxAttemptsAllowed == 10
ValidArgs(args) == \A a \in DOMAIN args : ValidToken(a) /\ args[a] # Zero /\ ValidExpr(args[a])
ValidRef(cap) == ValidToken(cap.id) /\ cap.version # <<>>

ValidStep(s) ==
    /\ ValidToken(s.id)
    /\ s.kind = "action" =>
         ValidRef(s.cap) /\ ValidArgs(s.args) /\ s.retry \in 0 .. MaxAttemptsAllowed
    /\ s.kind = "wait" => s.duration > 0
    /\ s.kind = "if" => s.when[1] # Zero
    /\ s.kind = "switch" => s.when # <<>> /\ \A i \in DOMAIN s.when : s.when[i] # Zero
    /\ s.kind \in {"if", "switch"} => \A i \in DOMAIN s.when : ValidExpr(s.when[i])
    /\ s.kind = "parallel" => Len(s.flows) >= 2
    /\ s.kind = "join" =>
         IF s.mode \in {"all", "any"} THEN s.threshold = 0
         ELSE s.mode \in {"n_of_m", "quorum"} /\ s.threshold > 0
    /\ s.kind = "human_approval" => s.timeout >= 0
    /\ s.kind = "subflow" => ValidToken(s.scenario) /\ s.version # 0 /\ ValidArgs(s.args)
    /\ s.kind = "stop" => s.outcome \in {"completed", "canceled", "rejected"}
    /\ s.kind \in {"action", "wait", "join", "human_approval", "subflow", "stop"} \cup Branching
ValidFlow(flow) ==
    \A f \in FlowsIn(flow, Branching) : f # <<>> /\ \A i \in DOMAIN f : ValidStep(f[i])

NormalArgs(args) ==
    [a \in {Trim(b) : b \in DOMAIN args} |->
        NormalExpr(args[CHOOSE b \in DOMAIN args : Trim(b) = a])]
NormalStep(s, flows) ==
    LET named == [s EXCEPT !.id = Trim(@)]
    IN  CASE s.kind = "action" ->
               [named EXCEPT !.cap.id = Trim(@), !.args = NormalArgs(@)]
          [] s.kind \in {"if", "switch"} ->
               [named EXCEPT !.when = [i \in DOMAIN @ |-> NormalExpr(@[i])], !.flows = flows]
          [] s.kind = "parallel" -> [named EXCEPT !.flows = flows]
          [] s.kind = "subflow" ->
               [named EXCEPT !.scenario = Trim(@), !.args = NormalArgs(@)]
          [] OTHER -> named
NormalSteps(f, normal) ==
    [i \in DOMAIN f |->
        NormalStep(f[i], IF f[i].kind \in Branching
                         THEN [j \in DOMAIN f[i].flows |-> normal[f[i].flows[j]]] ELSE <<>>)]
NormalFlowsAt(flow) ==
    LET normal[k \in 0 .. MaxNesting + 1] ==
            IF k > MaxNesting THEN <<>> ELSE
            [f \in FlowsAt(flow, Branching)[k] |-> NormalSteps(f, normal[k + 1])]
    IN  normal
NormalFlow(flow) == NormalFlowsAt(flow)[0][flow]
(* two argument keys that differ by blanks only refuse to be normalised      *)
DistinctArgs(s) ==
    s.kind \in {"action", "subflow"} =>
        \A a, b \in DOMAIN s.args : Trim(a) = Trim(b) => a = b

-----------------------------------------------------------------------------
(* Temporal specifications: [kind, duration, related, count, until, catchUp] *)

Lasting == {"for", "within", "debounce", "throttle", "cooldown", "once_per", "timeout",
            "repeat_within"}
ValidTemporal(t) ==
    /\ t.kind \in Lasting \cup {"after", "before", "until", "schedule_window"}
    /\ t.kind \in Lasting => t.duration > 0
    /\ t.kind \in {"after", "before"} => t.duration >= 0 /\ ValidToken(t.related)
    /\ t.kind = "repeat_within" => t.count >= 2
    /\ t.kind = "until" => t.until # Zero /\ ValidExpr(t.until)
    /\ t.kind = "schedule_window" =>
         IF t.catchUp = "all_bounded" THEN t.count \in 1 .. 1000 ELSE t.count = 0

ValidTrigger(t) ==
    /\ ValidToken(t.id) /\ ValidRef(t.cap) /\ ValidExpr(t.filter)
    /\ \A i \in DOMAIN t.temporal : ValidTemporal(t.temporal[i])
NormalTrigger(t) ==
    [t EXCEPT !.id = Trim(@), !.cap.id = Trim(@), !.filter = NormalExpr(@),
              !.temporal = [i \in DOMAIN @ |-> [@[i] EXCEPT !.related = Trim(@),
                                                           !.until = NormalExpr(@)]]]

(* Parameters: [id, type, default], the default NoValue when there is none   *)
ValidParameter(p) ==
    /\ ValidToken(p.id) /\ ValidType(p.type)
    /\ p.default # NoValue => ValidValue(p.default) /\ Compatible(p.type, p.default.type)

-----------------------------------------------------------------------------
(* Documents *)

Ids(seq) == [i \in DOMAIN seq |-> seq[i].id]
RelatedOK(d) ==
    \A i \in DOMAIN d.triggers : \A j \in DOMAIN d.triggers[i].temporal :
        LET t == d.triggers[i].temporal[j]
        IN  t.kind \in {"after", "before"} =>
              t.related # d.triggers[i].id /\ t.related \in Elements(Ids(d.triggers))

Valid(d) ==
    /\ ValidToken(d.id) /\ ValidToken(d.revision)
    /\ d.triggers # <<>> /\ \A i \in DOMAIN d.triggers : ValidTrigger(d.triggers[i])
    /\ Distinct(Ids(d.triggers)) /\ RelatedOK(d)
    /\ ValidExpr(d.condition)
    /\ ValidFlow(d.flow) /\ Distinct(Ids(Walk(d.flow, Branching)))
    /\ \A i \in DOMAIN d.parameters : ValidParameter(d.parameters[i])
    /\ Distinct(Ids(d.parameters))
    /\ d.layout \subseteq Elements(Ids(Walk(d.flow, Branching)))

SortById(seq) ==
    SetToSortSeq(Elements(seq), LAMBDA a, b : Place(IdOrder, a.id) < Place(IdOrder, b.id))

Normal(d) ==
    LET triggers == [i \in DOMAIN d.triggers |-> NormalTrigger(d.triggers[i])]
        params == [i \in DOMAIN d.parameters |-> [d.parameters[i] EXCEPT !.id = Trim(@)]]
    IN  [id |-> Trim(d.id), revision |-> Trim(d.revision), condition |-> NormalExpr(d.condition),
         flow |-> NormalFlow(d.flow), layout |-> d.layout,
         triggers |-> IF Distinct(Ids(triggers)) THEN SortById(triggers) ELSE triggers,
         parameters |-> IF Distinct(Ids(params)) THEN SortById(params) ELSE params]
Normalizes(d) ==
    Valid(Normal(d)) /\ \A s \in AllSteps(d.flow) : DistinctArgs(s)

WithoutCondition(d) ==      \* a slip: the condition left out of the digest
    LET n == Normal(d)
    IN  <<n.triggers, n.flow, n.parameters>>
SemanticDigest(d) ==
    LET n == Normal(d)
    IN  <<n.triggers, n.condition, n.flow, n.parameters>>
=============================================================================
