-------------------------- MODULE ScenarioSimulator --------------------------
(***************************************************************************)
(* The dry run of internal/scenario/simulator: the evaluation of           *)
(* expressions and the walk through a flow.  The run takes the document as *)
(* it was written; only the compilation before it sees the normal form.    *)
(*                                                                         *)
(*   context [home, event, approvals]: functions from names to values, and *)
(*           from step identifiers to BOOLEAN                              *)
(*   state   of a run [effects, errors, clock, going, rejected]            *)
(*   result  [passed, outcome, effects, errors, clock]                     *)
(***************************************************************************)
EXTENDS ScenarioCompiler

CONSTANT
    Exponential     \* 10^21: a number this great is written with an exponent

EvalError == Text(TypeError, "error")
Bool(b) == Text(T("bool"), IF b THEN "true" ELSE "false")
IsTruth(v) == v.type.kind = "bool"
IsNumber(v) == v.type.kind \in NumberKinds

(* numbers p/q *)
Less(m, n) == m[1] * n[2] < n[1] * m[2]
SameNumber(m, n) == m[1] * n[2] = n[1] * m[2]
Quotient(p, q) == IF q < 0 THEN <<-p, -q>> ELSE <<p, q>>
(* What ValueOf makes of a float64, by the text it is written as: without a  *)
(* point and an exponent it has to be an int64, and an infinite one has no   *)
(* text.                                                                     *)
WrittenWhole(n) == Whole(n) /\ Between(n, 1 - Exponential, Exponential - 1)
Representable(n) == IsFinite(n) /\ (WrittenWhole(n) => IsInt64(n))
Number(n) ==
    IF ~Representable(n) THEN EvalError ELSE
    [type |-> IF WrittenWhole(n) THEN T("int") ELSE T("float"), text |-> "",
     num |-> IF Whole(n) THEN <<n[1] \div n[2], 1>> ELSE n]

(* eq compares the serialised data, whatever the types                       *)
JsonKind(v) == IF IsNumber(v) THEN "number" ELSE IF IsTruth(v) THEN "bool" ELSE "text"
SameData(v, w) ==
    /\ JsonKind(v) = JsonKind(w)
    /\ IF IsNumber(v) THEN SameNumber(v.num, w.num) ELSE v.text = w.text

Compare(op, m, n) ==
    CASE op = "gt" -> Less(n, m)
      [] op = "gte" -> ~Less(m, n)
      [] op = "lt" -> Less(m, n)
      [] op = "lte" -> ~Less(n, m)

Result(op, m, n) ==
    CASE op = "add" -> <<m[1] * n[2] + n[1] * m[2], m[2] * n[2]>>
      [] op = "sub" -> <<m[1] * n[2] - n[1] * m[2], m[2] * n[2]>>
      [] op = "mul" -> <<m[1] * n[1], m[2] * n[2]>>
      [] op = "div" -> Quotient(m[1] * n[2], m[2] * n[1])
ByZero(op, w) == op = "div" /\ w.num[1] = 0
Calculate(op, v, w) ==
    LET numbers == IsNumber(v) /\ IsNumber(w)
    IN  CASE op = "add" /\ v.type.kind = "string" /\ w.type.kind = "string" ->
               Text(T("string"), v.text \o w.text)
          [] numbers /\ ~ByZero(op, w) -> Number(Result(op, v.num, w.num))
          [] OTHER -> EvalError

(* and, or: the first argument that decides, or fails, ends the evaluation   *)
Junction(vals, unit) ==
    IF \A i \in DOMAIN vals : vals[i] = Bool(unit) THEN Bool(unit)
    ELSE LET i == CHOOSE i \in DOMAIN vals :
                     vals[i] # Bool(unit) /\ \A j \in 1 .. (i - 1) : vals[j] = Bool(unit)
         IN  IF IsTruth(vals[i]) THEN vals[i] ELSE EvalError

(* The value of a term, from those of its arguments.                         *)
AppliedValue(op, vals) ==
    CASE op = "not" -> IF IsTruth(vals[1]) THEN Bool(vals[1] = Bool(FALSE)) ELSE EvalError
      [] op \in {"eq", "ne"} -> Bool(SameData(vals[1], vals[2]) <=> (op = "eq"))
      [] op \in Ordering ->
           IF IsNumber(vals[1]) /\ IsNumber(vals[2])
           THEN Bool(Compare(op, vals[1].num, vals[2].num)) ELSE EvalError
      [] op = "between" ->
           IF \A i \in 1 .. 3 : IsNumber(vals[i])
           THEN Bool(~Less(vals[1].num, vals[2].num) /\ ~Less(vals[3].num, vals[1].num))
           ELSE EvalError
      [] op \in Arithmetic -> Calculate(op, vals[1], vals[2])
      [] OTHER -> EvalError
TermValue(p, vals, env) ==
    LET name == p.args[1].ref       \* of exists and missing, never trimmed
    IN  CASE p = Zero -> EvalError
          [] p.op = "literal" -> p.value
          [] p.op = "ref" -> IF Trim(p.ref) \in DOMAIN env THEN env[Trim(p.ref)] ELSE EvalError
          [] p.op = "exists" -> Bool(name \in DOMAIN env)
          [] p.op = "missing" -> Bool(name \notin DOMAIN env)
          [] p.op \in Logical -> Junction(vals, p.op = "and")
          [] OTHER -> IF EvalError \in Elements(vals) THEN EvalError
                      ELSE AppliedValue(p.op, vals)

ValuesAt(e, env) ==
    LET val[k \in 0 .. MaxNesting + 1] ==
            IF k > MaxNesting THEN <<>> ELSE
            [p \in TermsAt(e)[k] |-> TermValue(p, ArgsOf(p, val[k + 1]), env)]
    IN  val
Evaluate(e, env) == ValuesAt(e, env)[0][e]

Passes(e, env) == Evaluate(e, env) = Bool(TRUE)
Fails(e, env) == ~IsTruth(Evaluate(e, env))

-----------------------------------------------------------------------------

RuntimeEnv(d, ctx) ==
    LET defaults == {p \in Elements(d.parameters) : p.default # NoValue}
    IN  Over([r \in {"parameter." \o p.id : p \in defaults} |->
                (CHOOSE p \in defaults : "parameter." \o p.id = r).default],
             Over(Named("trigger.", ctx.event), Over(Named("state.", ctx.home), ctx.home)))

Approved(s, ctx) == s.id \in DOMAIN ctx.approvals => ctx.approvals[s.id]
SimulatedRisk(id) ==
    IF id \in UnlockIds THEN "critical" ELSE IF id \in SirenIds THEN "high" ELSE "low"
WouldExecute(s) ==
    [step |-> s.id, cap |-> s.cap.id, resource |-> s.cap.entity, risk |-> SimulatedRisk(s.cap.id)]

Halt(st) == [st EXCEPT !.going = FALSE]
Rejected(st) == Halt([st EXCEPT !.rejected = TRUE])

(* The steps the run passes, were it never to halt: the environment stays as *)
(* it is, so each if step takes one branch, or none.                         *)
Branch(s, env) ==
    IF Passes(s.when[1], env) THEN {1}
    ELSE IF Fails(s.when[1], env) THEN {} ELSE {2} \cap DOMAIN s.flows
Taken(s, env, path) ==
    IF s.kind = "if" /\ Branch(s, env) # {}
    THEN path[s.flows[CHOOSE j \in Branch(s, env) : TRUE]] ELSE <<>>
Passed(f, env, path) == FlattenSeq([i \in DOMAIN f |-> <<f[i]>> \o Taken(f[i], env, path)])
PathsAt(flow, env) ==
    LET path[k \in 0 .. MaxNesting + 1] ==
            IF k > MaxNesting THEN <<>> ELSE
            [f \in FlowsAt(flow, {"if"})[k] |-> Passed(f, env, path[k + 1])]
    IN  path
Path(flow, env) == PathsAt(flow, env)[0][flow]

(* A step of any other kind - switch, parallel, join, subflow - is passed    *)
(* over.                                                                     *)
StepOf(s, st, env, ctx) ==
    CASE s.kind = "action" ->
           IF s.cap.id \in UnlockIds /\ ~Approved(s, ctx) THEN Rejected(st)
           ELSE [st EXCEPT !.effects = Append(@, WouldExecute(s))]
      [] s.kind = "wait" -> [st EXCEPT !.clock = @ + s.duration]
      [] s.kind = "human_approval" -> IF Approved(s, ctx) THEN st ELSE Rejected(st)
      [] s.kind = "if" -> IF Fails(s.when[1], env) THEN Halt([st EXCEPT !.errors = TRUE]) ELSE st
      [] s.kind = "stop" -> Halt(st)
      [] OTHER -> st

(* The states of the run after each step of its path.                        *)
Started == [effects |-> <<>>, errors |-> FALSE, clock |-> 0, going |-> TRUE, rejected |-> FALSE]
RunAlong(path, env, ctx) ==
    LET run[i \in 0 .. Len(path)] ==
            IF i = 0 THEN Started
            ELSE IF run[i - 1].going THEN StepOf(path[i], run[i - 1], env, ctx) ELSE run[i - 1]
    IN  run
Execute(flow, env, ctx) == RunAlong(Path(flow, env), env, ctx)[Len(Path(flow, env))]

Failures == {"COMPILATION_FAILED", "CONDITION_ERROR"}
Ended(st, outcome) ==
    [passed |-> outcome \notin Failures, outcome |-> outcome, effects |-> st.effects,
     errors |-> st.errors \/ outcome \in Failures, clock |-> st.clock]

Simulate(d, ctx, reg) ==
    LET env == RuntimeEnv(d, ctx)
        matched == \E t \in Elements(d.triggers) : t.filter = Zero \/ Passes(t.filter, env)
        ran == Execute(d.flow, env, ctx)
    IN  IF HasErrors(Compile(d, reg).diags) THEN Ended(Started, "COMPILATION_FAILED")
        ELSE IF ~matched THEN Ended(Started, "TRIGGER_NOT_MATCHED")
        ELSE IF d.condition # Zero /\ ~Passes(d.condition, env)
        THEN Ended(Started, IF Fails(d.condition, env) THEN "CONDITION_ERROR"
                            ELSE "CONDITION_SKIPPED")
        ELSE Ended(ran, IF ran.rejected THEN "APPROVAL_REJECTED" ELSE "COMPLETED")
=============================================================================
