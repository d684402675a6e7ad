--------------------------- MODULE ScenarioEditor ---------------------------
(***************************************************************************)
(* A scenario document is written, compiled against a registry and tried   *)
(* out in the simulator: the path of an editor through the compiler        *)
(* (internal/scenario/compiler/compiler.go, simulator/simulator.go).       *)
(***************************************************************************)
EXTENDS ScenarioSimulator

CONSTANTS
    Documents, Registries,
    Contexts    \* what a dry run is given

(* What the Go types of a document give every document: the fields, and      *)
(* arguments and flows in sequences.                                         *)
IsList(seq) == Len(seq) \in Nat /\ DOMAIN seq = 1 .. Len(seq)
IsTerm(p) == DOMAIN p = {"op", "ref", "value", "args"} /\ IsList(p.args)
IsStep(s) ==
    /\ {"id", "kind"} \subseteq DOMAIN s
    /\ s.kind = "action" => {"cap", "args", "retry"} \subseteq DOMAIN s /\ "id" \in DOMAIN s.cap
    /\ s.kind = "subflow" => {"scenario", "args"} \subseteq DOMAIN s
    /\ s.kind \in {"if", "switch"} => "when" \in DOMAIN s
    /\ s.kind \in Branching => "flows" \in DOMAIN s /\ IsList(s.flows)
    /\ s.kind = "if" => 1 \in DOMAIN s.flows
IsDocument(d) ==
    /\ \A p \in Subterms(d.condition) : IsTerm(p)
    /\ \A p \in TermsAt(d.condition)[MaxNesting] : p.args = <<>>
    /\ \A f \in FlowsIn(d.flow, Branching) : IsList(f)
    /\ \A s \in AllSteps(d.flow) : IsStep(s)
    /\ \A f \in FlowsAt(d.flow, Branching)[MaxNesting] :
          \A i \in DOMAIN f : f[i].kind \notin Branching

ASSUME DocumentsAssumption == \A d \in Documents : IsDocument(d)
ASSUME TrimAssumption == \A id \in DOMAIN Padded : Padded[id] \notin DOMAIN Padded
(* a word in an identifier is there with and without the blanks around it    *)
ASSUME WordsAssumption ==
    \A id \in DOMAIN Padded : \A ids \in {UnlockIds, DoorOpenIds, SirenIds, AlarmIds} :
        id \in ids <=> Padded[id] \in ids

VARIABLES doc, reg, compiled, trial

compileVars == <<doc, reg, compiled, trial>>

Undone == [undone |-> TRUE]

CompileInit ==
    /\ doc \in Documents /\ reg \in Registries
    /\ compiled = Undone /\ trial = Undone

CompileIt ==
    /\ compiled = Undone
    /\ compiled' = Compile(doc, reg)
    /\ UNCHANGED <<doc, reg, trial>>

TryOut ==
    /\ compiled # Undone /\ trial = Undone
    /\ \E ctx \in Contexts : trial' = [ctx |-> ctx, result |-> Simulate(doc, ctx, reg)]
    /\ UNCHANGED <<doc, reg, compiled>>

CompileNext == CompileIt \/ TryOut
CompileSpec == CompileInit /\ [][CompileNext]_compileVars

-----------------------------------------------------------------------------
(* Properties *)

Good == compiled # Undone /\ ~HasErrors(compiled.diags)
Plan == compiled.manifest.adgo
(* a step may bear the name of the node of the triggers                      *)
StandsFor(node, role, id) == node.id = <<role, id>> /\ node.type # "Trigger"
PlaceIn(role, id) == CHOOSE i \in DOMAIN Plan.nodes : StandsFor(Plan.nodes[i], role, id)
Planned(role, id) == \E i \in DOMAIN Plan.nodes : StandsFor(Plan.nodes[i], role, id)
RoleOf(e) == IF IsUnlock(e.cap) \/ IsSiren(e.cap) THEN "action" ELSE "user"

(* What a dry run of a scenario of the durable runtime says would be         *)
(* executed is in the plan ADGO would execute, in the same order, and each   *)
(* unlock stands behind its approval and its lock and before its             *)
(* verification.  The simulator walks the document, the compiler its normal  *)
(* form, each with a walk of its own (simulator.go:executeFlow,              *)
(* safety.go:walkFlow).  Nothing of the kind holds in Axiom, whose plan has  *)
(* the first step of the flow only (axiom.go:LowerToAxiom) while a dry run   *)
(* goes through all of them.                                                 *)
DryRunFollowsPlan ==
    Good /\ trial # Undone /\ compiled.manifest.runtime = "ADGO" =>
        LET effects == trial.result.effects
            place(i) == PlaceIn(RoleOf(effects[i]), Trim(effects[i].step))
        IN  \A i \in DOMAIN effects :
              /\ Planned(RoleOf(effects[i]), Trim(effects[i].step))
              /\ \A j \in 1 .. (i - 1) : place(j) < place(i)
              /\ IsUnlock(effects[i].cap) =>
                   /\ [k \in 1 .. 5 |-> Plan.nodes[place(i) + k - 4].type] =
                        <<"Human", "ResourceLock", "ReadState", "Activity", "VerifyWrite">>

(* A document that runs in Axiom, which keeps nothing over a restart, has no *)
(* step at any depth that needs a gate, a timer or a person, though the      *)
(* classification does not look inside switches and parallel branches        *)
(* (classify.go:inspectFlow).                                                *)
AxiomNeedsNoState ==
    Good /\ compiled.manifest.runtime = "Axiom" =>
        \A s \in AllSteps(doc.flow) :
            /\ s.kind \in {"action", "if", "stop"}
            /\ s.kind = "action" =>
                 ~IsUnlock(s.cap.id) /\ ~IsSiren(s.cap.id) /\ ~(s.retry > 1)

(* Documents of one scenario with the same semantic digest get the same plan *)
(* digest: triggers are an or-set, layout is not semantics                   *)
(* (normalize.go:SemanticDigest, digest.go:ComputePlanDigest).  In ADGO they *)
(* have to be of one revision, for the plan names its workflow after it      *)
(* (adgo.go:LowerToADGO).                                                    *)
Digests ==
    [d \in Documents |-> IF Normalizes(d) THEN <<Trim(d.id), SemanticDigest(d)>> ELSE <<>>]
EqualDigestEqualPlan ==
    compiled # Undone /\ trial = Undone /\ Digests[doc] # <<>> =>
        \A other \in {d \in Documents : Digests[d] = Digests[doc]} :
            compiled.manifest.runtime = "Axiom" \/ Trim(other.revision) = Trim(doc.revision) =>
                PlanDigest(Compile(other, reg).manifest) = PlanDigest(compiled.manifest)

(* The causes a condition the type checker accepts can have to fail in a dry *)
(* run: an operator the evaluator does not know, an order over texts, a      *)
(* division by zero, a result that is infinite or a whole number beyond      *)
(* int64 written without an exponent, a reference the context has no value   *)
(* for or one of a type of another sort.                                     *)
Sort(t) == IF t.kind \in NumberKinds THEN "int" ELSE t.kind
NoResult(op, v, w) ==
    /\ IsNumber(v) /\ IsNumber(w)
    /\ ByZero(op, w) \/ ~Representable(Result(op, v.num, w.num))
UncoveredTerm(p, types, vals, env, run) ==
    \/ p.op \in {"in", "changed"}
    \/ p.op \in Arithmetic /\ NoResult(p.op, vals[1], vals[2])
    \/ p.op \in Ordering \cup {"between"} /\ types[1].kind \notin NumberKinds
    \/ p.op = "ref" /\ (Trim(p.ref) \in DOMAIN run =>
                          Sort(run[Trim(p.ref)].type) # Sort(env[Trim(p.ref)]))
(* And a condition of nothing but blanks: the normal form takes it for none, *)
(* the dry run, of the document as it was written, does not.                 *)
Uncovered(e, env, run) ==
    \/ NormalExpr(e) = Zero
    \/ \E k \in 0 .. MaxNesting : \E p \in TermsAt(e)[k] :
          UncoveredTerm(p, ArgsOf(p, TypesAt(e, env)[k + 1]), ArgsOf(p, ValuesAt(e, run)[k + 1]),
                        env, run)

(* Any other condition that compiles also evaluates                          *)
(* (expression.go:CheckExpr against evaluator.go:Evaluate).                  *)
CheckedConditionsEvaluate ==
    Good /\ trial # Undone /\ trial.result.outcome = "CONDITION_ERROR" =>
        Uncovered(doc.condition, BuildTypeEnvironment(Normal(doc), reg),
                  RuntimeEnv(doc, trial.ctx))

(* The comment of ApplySafetyPass: it "inspects all physical and high-risk   *)
(* actions, ensures mandatory gates (human approvals, ...)".                 *)
EveryUnlockIsGated ==
    Good => \A s \in AllSteps(doc.flow) :
                s.kind = "action" /\ IsUnlock(s.cap.id) => Planned("approval", Trim(s.id))
=============================================================================
