-------------------------- MODULE ExecutionsProofs --------------------------
(***************************************************************************)
(* Proofs about scenarios and executions.                                  *)
(*                                                                         *)
(* Of any document: equal digests mean equal plans, what runs without      *)
(* state needs none, checked conditions evaluate, and a dry run shows what *)
(* the plan does (ScenarioEditor).                                         *)
(*                                                                         *)
(* Of executions, for any number of callers, sirens, cameras, requests,    *)
(* releases and plans: the siren service implements ResourceReservation,   *)
(* an activation that ended was verified silent and enable commands are    *)
(* not repeated (SirenAction); what is recorded of a camera is true, and   *)
(* its reconnects are bounded (CameraRecovery, C); an execution runs the   *)
(* plan it was started with (ExecutionBundles, B).                         *)
(*                                                                         *)
(* Expressions and flows nest, and induction on their shape is not         *)
(* available: they are taken apart by levels, and a property of all levels *)
(* is found by descent from the deepest (LevelDescent).                    *)
(*                                                                         *)
(* What is recorded of a camera is not inductive: it is decided at nodes   *)
(* that read facts stored by others, while the camera changes. Ladder says *)
(* for each node what has been found out and done by then.                 *)
(***************************************************************************)
EXTENDS MCExecutions, ScenarioEditor, SequenceTheorems, FiniteSetTheorems, WellFoundedInduction,
        NaturalsInduction, TLAPS

(* Of levels with a property one is the lowest.                              *)
LEMMA LevelLeast ==
    ASSUME NEW S \in SUBSET Nat, S # {}
    PROVE  \E m \in S : \A y \in S : m <= y
<1> DEFINE R == {ss \in Nat \X Nat : ss[1] < ss[2]}
<1>1. IsWellFoundedOn(R, Nat)
  BY NatLessThanWellFounded, Zenon DEF OpToRel
<1> HIDE DEF R
<1>2. PICK m \in S : \A y \in S : ~(<<y, m>> \in R)
  BY <1>1, WFMin
<1>3. ASSUME NEW y \in S
      PROVE  m <= y
  <2>1. m \in Nat /\ y \in Nat /\ (y < m => <<y, m>> \in R)
    BY DEF R
  <2> QED
    BY <1>2, <2>1
<1> QED
  BY <1>3

(* The terms of a level are the arguments of those above.                  *)
LEMMA TermsAtIs ==
    ASSUME NEW e
    PROVE  /\ DOMAIN TermsAt(e) = 0 .. MaxNesting
           /\ TermsAt(e)[0] = {e}
           /\ \A k \in 1 .. MaxNesting : TermsAt(e)[k] = UNION {Elements(p.args) : p \in TermsAt(e)[k - 1]}
<1> DEFINE Body(x) == UNION {Elements(p.args) : p \in x}
           IsUpTo(f, n) == f = [k \in 0 .. n |-> IF k = 0 THEN {e} ELSE Body(f[k - 1])]
           Missing == {n \in 0 .. MaxNesting : ~\E f : IsUpTo(f, n)}
<1>0. MaxNesting \in Nat
  BY NestingAssumption
<1>4. TermsAt(e) = CHOOSE f : IsUpTo(f, MaxNesting)
  BY DEF TermsAt
<1>7. \A x : Body(x) = UNION {Elements(p.args) : p \in x}
  OBVIOUS
<1> HIDE DEF Body
<1>1. ASSUME Missing # {}
      PROVE  FALSE
  <2>1. PICK m \in Missing : \A y \in Missing : m <= y
    <3>1. Missing \in SUBSET Nat
      BY <1>0
    <3> QED
      BY <1>1, <3>1, LevelLeast
  <2>2. m \in 0 .. MaxNesting /\ m \in Nat /\ ~\E f : IsUpTo(f, m)
    BY <1>0, <2>1
  <2>3. CASE m = 0
    <3>1. IsUpTo([k \in 0 .. 0 |-> {e}], 0)
      OBVIOUS
    <3> QED
      BY <2>2, <2>3, <3>1
  <2>4. CASE m # 0
    <3>1. m - 1 \in 0 .. MaxNesting /\ ~(m <= m - 1)
      BY <1>0, <2>2, <2>4
    <3>2. PICK f : IsUpTo(f, m - 1)
      BY <2>1, <3>1
    <3> DEFINE g == [k \in 0 .. m |-> IF k < m THEN f[k] ELSE Body(f[m - 1])]
    <3>3. ASSUME NEW k \in 0 .. m
          PROVE  g[k] = IF k = 0 THEN {e} ELSE Body(g[k - 1])
      <4>1. CASE k < m
        <5>1. k \in 0 .. m - 1 /\ (k # 0 => k - 1 \in 0 .. m /\ k - 1 < m)
          BY <4>1, <2>2
        <5>2. g[k] = f[k] /\ (k # 0 => g[k - 1] = f[k - 1])
          BY <4>1, <5>1
        <5>3. f[k] = IF k = 0 THEN {e} ELSE Body(f[k - 1])
          BY <3>2, <5>1
        <5> HIDE DEF g
        <5> QED
          BY <5>2, <5>3
      <4>2. CASE ~(k < m)
        <5>1. k = m /\ m - 1 \in 0 .. m /\ m - 1 < m
          BY <4>2, <2>2, <2>4
        <5>2. g[k] = Body(f[m - 1]) /\ g[k - 1] = f[m - 1]
          BY <4>2, <5>1
        <5> HIDE DEF g
        <5> QED
          BY <5>1, <5>2, <2>4
      <4> QED
        BY <4>1, <4>2
    <3>4. IsUpTo(g, m)
      <4>1. g = [k \in 0 .. m |-> g[k]]
        OBVIOUS
      <4> HIDE DEF g
      <4> QED
        BY <3>3, <4>1
    <3> QED
      BY <2>2, <3>4
  <2> QED
    BY <2>3, <2>4
<1>2. MaxNesting \in 0 .. MaxNesting
  BY <1>0
<1>3. \E f : IsUpTo(f, MaxNesting)
  BY <1>1, <1>2
<1>5. IsUpTo(TermsAt(e), MaxNesting)
  BY <1>3, <1>4
<1>6. 0 \in 0 .. MaxNesting /\ \A k \in 1 .. MaxNesting : k \in 0 .. MaxNesting /\ k # 0
  BY <1>0
<1> QED
  BY <1>5, <1>6, <1>7

(* The flows of a level are those nested in the flows above.               *)
LEMMA FlowsAtIs ==
    ASSUME NEW flow, NEW into
    PROVE  /\ DOMAIN FlowsAt(flow, into) = 0 .. MaxNesting
           /\ FlowsAt(flow, into)[0] = {flow}
           /\ \A k \in 1 .. MaxNesting : FlowsAt(flow, into)[k] = UNION {Nested(f, into) : f \in FlowsAt(flow, into)[k - 1]}
<1> DEFINE Body(x) == UNION {Nested(f, into) : f \in x}
           IsUpTo(f, n) == f = [k \in 0 .. n |-> IF k = 0 THEN {flow} ELSE Body(f[k - 1])]
           Missing == {n \in 0 .. MaxNesting : ~\E f : IsUpTo(f, n)}
<1>0. MaxNesting \in Nat
  BY NestingAssumption
<1>4. FlowsAt(flow, into) = CHOOSE f : IsUpTo(f, MaxNesting)
  BY DEF FlowsAt
<1>7. \A x : Body(x) = UNION {Nested(f, into) : f \in x}
  OBVIOUS
<1> HIDE DEF Body
<1>1. ASSUME Missing # {}
      PROVE  FALSE
  <2>1. PICK m \in Missing : \A y \in Missing : m <= y
    <3>1. Missing \in SUBSET Nat
      BY <1>0
    <3> QED
      BY <1>1, <3>1, LevelLeast
  <2>2. m \in 0 .. MaxNesting /\ m \in Nat /\ ~\E f : IsUpTo(f, m)
    BY <1>0, <2>1
  <2>3. CASE m = 0
    <3>1. IsUpTo([k \in 0 .. 0 |-> {flow}], 0)
      OBVIOUS
    <3> QED
      BY <2>2, <2>3, <3>1
  <2>4. CASE m # 0
    <3>1. m - 1 \in 0 .. MaxNesting /\ ~(m <= m - 1)
      BY <1>0, <2>2, <2>4
    <3>2. PICK f : IsUpTo(f, m - 1)
      BY <2>1, <3>1
    <3> DEFINE g == [k \in 0 .. m |-> IF k < m THEN f[k] ELSE Body(f[m - 1])]
    <3>3. ASSUME NEW k \in 0 .. m
          PROVE  g[k] = IF k = 0 THEN {flow} ELSE Body(g[k - 1])
      <4>1. CASE k < m
        <5>1. k \in 0 .. m - 1 /\ (k # 0 => k - 1 \in 0 .. m /\ k - 1 < m)
          BY <4>1, <2>2
        <5>2. g[k] = f[k] /\ (k # 0 => g[k - 1] = f[k - 1])
          BY <4>1, <5>1
        <5>3. f[k] = IF k = 0 THEN {flow} ELSE Body(f[k - 1])
          BY <3>2, <5>1
        <5> HIDE DEF g
        <5> QED
          BY <5>2, <5>3
      <4>2. CASE ~(k < m)
        <5>1. k = m /\ m - 1 \in 0 .. m /\ m - 1 < m
          BY <4>2, <2>2, <2>4
        <5>2. g[k] = Body(f[m - 1]) /\ g[k - 1] = f[m - 1]
          BY <4>2, <5>1
        <5> HIDE DEF g
        <5> QED
          BY <5>1, <5>2, <2>4
      <4> QED
        BY <4>1, <4>2
    <3>4. IsUpTo(g, m)
      <4>1. g = [k \in 0 .. m |-> g[k]]
        OBVIOUS
      <4> HIDE DEF g
      <4> QED
        BY <3>3, <4>1
    <3> QED
      BY <2>2, <3>4
  <2> QED
    BY <2>3, <2>4
<1>2. MaxNesting \in 0 .. MaxNesting
  BY <1>0
<1>3. \E f : IsUpTo(f, MaxNesting)
  BY <1>1, <1>2
<1>5. IsUpTo(FlowsAt(flow, into), MaxNesting)
  BY <1>3, <1>4
<1>6. 0 \in 0 .. MaxNesting /\ \A k \in 1 .. MaxNesting : k \in 0 .. MaxNesting /\ k # 0
  BY <1>0
<1> QED
  BY <1>5, <1>6, <1>7

(* The type of a term follows from those of its arguments.                 *)
LEMMA TypesAtIs ==
    ASSUME NEW e, NEW env
    PROVE  \A k \in 0 .. MaxNesting : TypesAt(e, env)[k] =
               [p \in TermsAt(e)[k] |-> TermType(p, ArgsOf(p, TypesAt(e, env)[k + 1]), env)]
<1> DEFINE Body(x, k) == [p \in TermsAt(e)[k] |-> TermType(p, ArgsOf(p, x), env)]
           Here(f, k) == IF k > MaxNesting THEN <<>> ELSE Body(f[k + 1], k)
           IsFrom(f, n) == f = [k \in n .. MaxNesting + 1 |-> Here(f, k)]
           Found == {n \in 0 .. MaxNesting + 1 : \E f : IsFrom(f, n)}
<1>0. MaxNesting \in Nat /\ 0 \in 0 .. MaxNesting + 1 /\ MaxNesting + 1 \in 0 .. MaxNesting + 1
  BY NestingAssumption
<1>1. TypesAt(e, env) = CHOOSE f : IsFrom(f, 0)
  BY DEF TypesAt
<1>2. \A x, k : Body(x, k) = [p \in TermsAt(e)[k] |-> TermType(p, ArgsOf(p, x), env)]
  OBVIOUS
<1> HIDE DEF Body
<1>3. MaxNesting + 1 \in Found
  <2>1. IsFrom([k \in MaxNesting + 1 .. MaxNesting + 1 |-> <<>>], MaxNesting + 1)
    <3>1. \A k \in MaxNesting + 1 .. MaxNesting + 1 : k > MaxNesting
      BY <1>0
    <3> QED
      BY <3>1
  <2> QED
    BY <1>0, <2>1
<1>4. ASSUME NEW n \in Found, n # 0
      PROVE  n - 1 \in Found
  <2>1. n \in Nat /\ n - 1 \in Nat /\ n - 1 <= MaxNesting /\ n - 1 \in 0 .. MaxNesting + 1
    BY <1>0, <1>4
  <2>2. PICK f : IsFrom(f, n)
    OBVIOUS
  <2> DEFINE g == [k \in n - 1 .. MaxNesting + 1 |-> IF k >= n THEN f[k] ELSE Body(f[n], n - 1)]
  <2>3. ASSUME NEW k \in n - 1 .. MaxNesting + 1
        PROVE  g[k] = Here(g, k)
    <3>1. CASE k >= n
      <4>1. k \in n .. MaxNesting + 1 /\ (~(k > MaxNesting) => k + 1 \in n - 1 .. MaxNesting + 1 /\ k + 1 >= n)
        BY <3>1, <2>1, <1>0
      <4>2. g[k] = f[k] /\ (~(k > MaxNesting) => g[k + 1] = f[k + 1])
        BY <3>1, <4>1
      <4>3. f[k] = Here(f, k)
        BY <2>2, <4>1
      <4> HIDE DEF g
      <4> QED
        BY <4>2, <4>3
    <3>2. CASE ~(k >= n)
      <4>1. k = n - 1 /\ k + 1 = n /\ n \in n - 1 .. MaxNesting + 1 /\ n >= n /\ ~(k > MaxNesting)
        BY <3>2, <2>1, <1>0
      <4>2. g[k] = Body(f[n], n - 1) /\ g[n] = f[n]
        BY <3>2, <4>1
      <4> HIDE DEF g
      <4> QED
        BY <4>1, <4>2
    <3> QED
      BY <3>1, <3>2
  <2>4. IsFrom(g, n - 1)
    <3>1. g = [k \in n - 1 .. MaxNesting + 1 |-> g[k]]
      OBVIOUS
    <3> HIDE DEF g, Here
    <3> QED
      BY <2>3, <3>1
  <2> QED
    BY <2>1, <2>4
<1>5. 0 \in Found
  <2>1. Found \in SUBSET Nat /\ Found # {}
    <3>1. \A n \in 0 .. MaxNesting + 1 : n \in Nat
      BY <1>0
    <3>2. \A n \in Found : n \in 0 .. MaxNesting + 1
      OBVIOUS
    <3> HIDE DEF Found
    <3> QED
      BY <1>3, <3>1, <3>2
  <2>2. PICK m \in Found : \A y \in Found : m <= y
    BY <2>1, LevelLeast
  <2>3. m # 0 => m \in Nat /\ ~(m <= m - 1)
    BY <2>1
  <2> HIDE DEF Found
  <2> QED
    BY <1>4, <2>2, <2>3
<1>6. IsFrom(TypesAt(e, env), 0)
  BY <1>1, <1>5
<1>7. \A k \in 0 .. MaxNesting : k \in 0 .. MaxNesting + 1 /\ ~(k > MaxNesting)
  BY <1>0
<1> QED
  BY <1>2, <1>6, <1>7

(* The normal form of a term follows from those of its arguments.          *)
LEMMA NormalTermsAtIs ==
    ASSUME NEW e
    PROVE  \A k \in 0 .. MaxNesting : NormalTermsAt(e)[k] =
               [p \in TermsAt(e)[k] |-> NormalTerm(p, ArgsOf(p, NormalTermsAt(e)[k + 1]))]
<1> DEFINE Body(x, k) == [p \in TermsAt(e)[k] |-> NormalTerm(p, ArgsOf(p, x))]
           Here(f, k) == IF k > MaxNesting THEN <<>> ELSE Body(f[k + 1], k)
           IsFrom(f, n) == f = [k \in n .. MaxNesting + 1 |-> Here(f, k)]
           Found == {n \in 0 .. MaxNesting + 1 : \E f : IsFrom(f, n)}
<1>0. MaxNesting \in Nat /\ 0 \in 0 .. MaxNesting + 1 /\ MaxNesting + 1 \in 0 .. MaxNesting + 1
  BY NestingAssumption
<1>1. NormalTermsAt(e) = CHOOSE f : IsFrom(f, 0)
  BY DEF NormalTermsAt
<1>2. \A x, k : Body(x, k) = [p \in TermsAt(e)[k] |-> NormalTerm(p, ArgsOf(p, x))]
  OBVIOUS
<1> HIDE DEF Body
<1>3. MaxNesting + 1 \in Found
  <2>1. IsFrom([k \in MaxNesting + 1 .. MaxNesting + 1 |-> <<>>], MaxNesting + 1)
    <3>1. \A k \in MaxNesting + 1 .. MaxNesting + 1 : k > MaxNesting
      BY <1>0
    <3> QED
      BY <3>1
  <2> QED
    BY <1>0, <2>1
<1>4. ASSUME NEW n \in Found, n # 0
      PROVE  n - 1 \in Found
  <2>1. n \in Nat /\ n - 1 \in Nat /\ n - 1 <= MaxNesting /\ n - 1 \in 0 .. MaxNesting + 1
    BY <1>0, <1>4
  <2>2. PICK f : IsFrom(f, n)
    OBVIOUS
  <2> DEFINE g == [k \in n - 1 .. MaxNesting + 1 |-> IF k >= n THEN f[k] ELSE Body(f[n], n - 1)]
  <2>3. ASSUME NEW k \in n - 1 .. MaxNesting + 1
        PROVE  g[k] = Here(g, k)
    <3>1. CASE k >= n
      <4>1. k \in n .. MaxNesting + 1 /\ (~(k > MaxNesting) => k + 1 \in n - 1 .. MaxNesting + 1 /\ k + 1 >= n)
        BY <3>1, <2>1, <1>0
      <4>2. g[k] = f[k] /\ (~(k > MaxNesting) => g[k + 1] = f[k + 1])
        BY <3>1, <4>1
      <4>3. f[k] = Here(f, k)
        BY <2>2, <4>1
      <4> HIDE DEF g
      <4> QED
        BY <4>2, <4>3
    <3>2. CASE ~(k >= n)
      <4>1. k = n - 1 /\ k + 1 = n /\ n \in n - 1 .. MaxNesting + 1 /\ n >= n /\ ~(k > MaxNesting)
        BY <3>2, <2>1, <1>0
      <4>2. g[k] = Body(f[n], n - 1) /\ g[n] = f[n]
        BY <3>2, <4>1
      <4> HIDE DEF g
      <4> QED
        BY <4>1, <4>2
    <3> QED
      BY <3>1, <3>2
  <2>4. IsFrom(g, n - 1)
    <3>1. g = [k \in n - 1 .. MaxNesting + 1 |-> g[k]]
      OBVIOUS
    <3> HIDE DEF g, Here
    <3> QED
      BY <2>3, <3>1
  <2> QED
    BY <2>1, <2>4
<1>5. 0 \in Found
  <2>1. Found \in SUBSET Nat /\ Found # {}
    <3>1. \A n \in 0 .. MaxNesting + 1 : n \in Nat
      BY <1>0
    <3>2. \A n \in Found : n \in 0 .. MaxNesting + 1
      OBVIOUS
    <3> HIDE DEF Found
    <3> QED
      BY <1>3, <3>1, <3>2
  <2>2. PICK m \in Found : \A y \in Found : m <= y
    BY <2>1, LevelLeast
  <2>3. m # 0 => m \in Nat /\ ~(m <= m - 1)
    BY <2>1
  <2> HIDE DEF Found
  <2> QED
    BY <1>4, <2>2, <2>3
<1>6. IsFrom(NormalTermsAt(e), 0)
  BY <1>1, <1>5
<1>7. \A k \in 0 .. MaxNesting : k \in 0 .. MaxNesting + 1 /\ ~(k > MaxNesting)
  BY <1>0
<1> QED
  BY <1>2, <1>6, <1>7

(* The value of a term follows from those of its arguments.                *)
LEMMA ValuesAtIs ==
    ASSUME NEW e, NEW env
    PROVE  \A k \in 0 .. MaxNesting : ValuesAt(e, env)[k] =
               [p \in TermsAt(e)[k] |-> TermValue(p, ArgsOf(p, ValuesAt(e, env)[k + 1]), env)]
<1> DEFINE Body(x, k) == [p \in TermsAt(e)[k] |-> TermValue(p, ArgsOf(p, x), env)]
           Here(f, k) == IF k > MaxNesting THEN <<>> ELSE Body(f[k + 1], k)
           IsFrom(f, n) == f = [k \in n .. MaxNesting + 1 |-> Here(f, k)]
           Found == {n \in 0 .. MaxNesting + 1 : \E f : IsFrom(f, n)}
<1>0. MaxNesting \in Nat /\ 0 \in 0 .. MaxNesting + 1 /\ MaxNesting + 1 \in 0 .. MaxNesting + 1
  BY NestingAssumption
<1>1. ValuesAt(e, env) = CHOOSE f : IsFrom(f, 0)
  BY DEF ValuesAt
<1>2. \A x, k : Body(x, k) = [p \in TermsAt(e)[k] |-> TermValue(p, ArgsOf(p, x), env)]
  OBVIOUS
<1> HIDE DEF Body
<1>3. MaxNesting + 1 \in Found
  <2>1. IsFrom([k \in MaxNesting + 1 .. MaxNesting + 1 |-> <<>>], MaxNesting + 1)
    <3>1. \A k \in MaxNesting + 1 .. MaxNesting + 1 : k > MaxNesting
      BY <1>0
    <3> QED
      BY <3>1
  <2> QED
    BY <1>0, <2>1
<1>4. ASSUME NEW n \in Found, n # 0
      PROVE  n - 1 \in Found
  <2>1. n \in Nat /\ n - 1 \in Nat /\ n - 1 <= MaxNesting /\ n - 1 \in 0 .. MaxNesting + 1
    BY <1>0, <1>4
  <2>2. PICK f : IsFrom(f, n)
    OBVIOUS
  <2> DEFINE g == [k \in n - 1 .. MaxNesting + 1 |-> IF k >= n THEN f[k] ELSE Body(f[n], n - 1)]
  <2>3. ASSUME NEW k \in n - 1 .. MaxNesting + 1
        PROVE  g[k] = Here(g, k)
    <3>1. CASE k >= n
      <4>1. k \in n .. MaxNesting + 1 /\ (~(k > MaxNesting) => k + 1 \in n - 1 .. MaxNesting + 1 /\ k + 1 >= n)
        BY <3>1, <2>1, <1>0
      <4>2. g[k] = f[k] /\ (~(k > MaxNesting) => g[k + 1] = f[k + 1])
        BY <3>1, <4>1
      <4>3. f[k] = Here(f, k)
        BY <2>2, <4>1
      <4> HIDE DEF g
      <4> QED
        BY <4>2, <4>3
    <3>2. CASE ~(k >= n)
      <4>1. k = n - 1 /\ k + 1 = n /\ n \in n - 1 .. MaxNesting + 1 /\ n >= n /\ ~(k > MaxNesting)
        BY <3>2, <2>1, <1>0
      <4>2. g[k] = Body(f[n], n - 1) /\ g[n] = f[n]
        BY <3>2, <4>1
      <4> HIDE DEF g
      <4> QED
        BY <4>1, <4>2
    <3> QED
      BY <3>1, <3>2
  <2>4. IsFrom(g, n - 1)
    <3>1. g = [k \in n - 1 .. MaxNesting + 1 |-> g[k]]
      OBVIOUS
    <3> HIDE DEF g, Here
    <3> QED
      BY <2>3, <3>1
  <2> QED
    BY <2>1, <2>4
<1>5. 0 \in Found
  <2>1. Found \in SUBSET Nat /\ Found # {}
    <3>1. \A n \in 0 .. MaxNesting + 1 : n \in Nat
      BY <1>0
    <3>2. \A n \in Found : n \in 0 .. MaxNesting + 1
      OBVIOUS
    <3> HIDE DEF Found
    <3> QED
      BY <1>3, <3>1, <3>2
  <2>2. PICK m \in Found : \A y \in Found : m <= y
    BY <2>1, LevelLeast
  <2>3. m # 0 => m \in Nat /\ ~(m <= m - 1)
    BY <2>1
  <2> HIDE DEF Found
  <2> QED
    BY <1>4, <2>2, <2>3
<1>6. IsFrom(ValuesAt(e, env), 0)
  BY <1>1, <1>5
<1>7. \A k \in 0 .. MaxNesting : k \in 0 .. MaxNesting + 1 /\ ~(k > MaxNesting)
  BY <1>0
<1> QED
  BY <1>2, <1>6, <1>7

(* The normal form of a flow follows from those of the flows nested in it. *)
LEMMA NormalFlowsAtIs ==
    ASSUME NEW flow
    PROVE  \A k \in 0 .. MaxNesting : NormalFlowsAt(flow)[k] =
               [f \in FlowsAt(flow, Branching)[k] |-> NormalSteps(f, NormalFlowsAt(flow)[k + 1])]
<1> DEFINE Body(x, k) == [f \in FlowsAt(flow, Branching)[k] |-> NormalSteps(f, x)]
           Here(f, k) == IF k > MaxNesting THEN <<>> ELSE Body(f[k + 1], k)
           IsFrom(f, n) == f = [k \in n .. MaxNesting + 1 |-> Here(f, k)]
           Found == {n \in 0 .. MaxNesting + 1 : \E f : IsFrom(f, n)}
<1>0. MaxNesting \in Nat /\ 0 \in 0 .. MaxNesting + 1 /\ MaxNesting + 1 \in 0 .. MaxNesting + 1
  BY NestingAssumption
<1>1. NormalFlowsAt(flow) = CHOOSE f : IsFrom(f, 0)
  BY DEF NormalFlowsAt
<1>2. \A x, k : Body(x, k) = [f \in FlowsAt(flow, Branching)[k] |-> NormalSteps(f, x)]
  OBVIOUS
<1> HIDE DEF Body
<1>3. MaxNesting + 1 \in Found
  <2>1. IsFrom([k \in MaxNesting + 1 .. MaxNesting + 1 |-> <<>>], MaxNesting + 1)
    <3>1. \A k \in MaxNesting + 1 .. MaxNesting + 1 : k > MaxNesting
      BY <1>0
    <3> QED
      BY <3>1
  <2> QED
    BY <1>0, <2>1
<1>4. ASSUME NEW n \in Found, n # 0
      PROVE  n - 1 \in Found
  <2>1. n \in Nat /\ n - 1 \in Nat /\ n - 1 <= MaxNesting /\ n - 1 \in 0 .. MaxNesting + 1
    BY <1>0, <1>4
  <2>2. PICK f : IsFrom(f, n)
    OBVIOUS
  <2> DEFINE g == [k \in n - 1 .. MaxNesting + 1 |-> IF k >= n THEN f[k] ELSE Body(f[n], n - 1)]
  <2>3. ASSUME NEW k \in n - 1 .. MaxNesting + 1
        PROVE  g[k] = Here(g, k)
    <3>1. CASE k >= n
      <4>1. k \in n .. MaxNesting + 1 /\ (~(k > MaxNesting) => k + 1 \in n - 1 .. MaxNesting + 1 /\ k + 1 >= n)
        BY <3>1, <2>1, <1>0
      <4>2. g[k] = f[k] /\ (~(k > MaxNesting) => g[k + 1] = f[k + 1])
        BY <3>1, <4>1
      <4>3. f[k] = Here(f, k)
        BY <2>2, <4>1
      <4> HIDE DEF g
      <4> QED
        BY <4>2, <4>3
    <3>2. CASE ~(k >= n)
      <4>1. k = n - 1 /\ k + 1 = n /\ n \in n - 1 .. MaxNesting + 1 /\ n >= n /\ ~(k > MaxNesting)
        BY <3>2, <2>1, <1>0
      <4>2. g[k] = Body(f[n], n - 1) /\ g[n] = f[n]
        BY <3>2, <4>1
      <4> HIDE DEF g
      <4> QED
        BY <4>1, <4>2
    <3> QED
      BY <3>1, <3>2
  <2>4. IsFrom(g, n - 1)
    <3>1. g = [k \in n - 1 .. MaxNesting + 1 |-> g[k]]
      OBVIOUS
    <3> HIDE DEF g, Here
    <3> QED
      BY <2>3, <3>1
  <2> QED
    BY <2>1, <2>4
<1>5. 0 \in Found
  <2>1. Found \in SUBSET Nat /\ Found # {}
    <3>1. \A n \in 0 .. MaxNesting + 1 : n \in Nat
      BY <1>0
    <3>2. \A n \in Found : n \in 0 .. MaxNesting + 1
      OBVIOUS
    <3> HIDE DEF Found
    <3> QED
      BY <1>3, <3>1, <3>2
  <2>2. PICK m \in Found : \A y \in Found : m <= y
    BY <2>1, LevelLeast
  <2>3. m # 0 => m \in Nat /\ ~(m <= m - 1)
    BY <2>1
  <2> HIDE DEF Found
  <2> QED
    BY <1>4, <2>2, <2>3
<1>6. IsFrom(NormalFlowsAt(flow), 0)
  BY <1>1, <1>5
<1>7. \A k \in 0 .. MaxNesting : k \in 0 .. MaxNesting + 1 /\ ~(k > MaxNesting)
  BY <1>0
<1> QED
  BY <1>2, <1>6, <1>7

(* The walk through a flow follows from those through its nested flows.    *)
LEMMA WalksAtIs ==
    ASSUME NEW flow, NEW into
    PROVE  \A k \in 0 .. MaxNesting : WalksAt(flow, into)[k] =
               [f \in FlowsAt(flow, into)[k] |-> Walked(f, into, WalksAt(flow, into)[k + 1])]
<1> DEFINE Body(x, k) == [f \in FlowsAt(flow, into)[k] |-> Walked(f, into, x)]
           Here(f, k) == IF k > MaxNesting THEN <<>> ELSE Body(f[k + 1], k)
           IsFrom(f, n) == f = [k \in n .. MaxNesting + 1 |-> Here(f, k)]
           Found == {n \in 0 .. MaxNesting + 1 : \E f : IsFrom(f, n)}
<1>0. MaxNesting \in Nat /\ 0 \in 0 .. MaxNesting + 1 /\ MaxNesting + 1 \in 0 .. MaxNesting + 1
  BY NestingAssumption
<1>1. WalksAt(flow, into) = CHOOSE f : IsFrom(f, 0)
  BY DEF WalksAt
<1>2. \A x, k : Body(x, k) = [f \in FlowsAt(flow, into)[k] |-> Walked(f, into, x)]
  OBVIOUS
<1> HIDE DEF Body
<1>3. MaxNesting + 1 \in Found
  <2>1. IsFrom([k \in MaxNesting + 1 .. MaxNesting + 1 |-> <<>>], MaxNesting + 1)
    <3>1. \A k \in MaxNesting + 1 .. MaxNesting + 1 : k > MaxNesting
      BY <1>0
    <3> QED
      BY <3>1
  <2> QED
    BY <1>0, <2>1
<1>4. ASSUME NEW n \in Found, n # 0
      PROVE  n - 1 \in Found
  <2>1. n \in Nat /\ n - 1 \in Nat /\ n - 1 <= MaxNesting /\ n - 1 \in 0 .. MaxNesting + 1
    BY <1>0, <1>4
  <2>2. PICK f : IsFrom(f, n)
    OBVIOUS
  <2> DEFINE g == [k \in n - 1 .. MaxNesting + 1 |-> IF k >= n THEN f[k] ELSE Body(f[n], n - 1)]
  <2>3. ASSUME NEW k \in n - 1 .. MaxNesting + 1
        PROVE  g[k] = Here(g, k)
    <3>1. CASE k >= n
      <4>1. k \in n .. MaxNesting + 1 /\ (~(k > MaxNesting) => k + 1 \in n - 1 .. MaxNesting + 1 /\ k + 1 >= n)
        BY <3>1, <2>1, <1>0
      <4>2. g[k] = f[k] /\ (~(k > MaxNesting) => g[k + 1] = f[k + 1])
        BY <3>1, <4>1
      <4>3. f[k] = Here(f, k)
        BY <2>2, <4>1
      <4> HIDE DEF g
      <4> QED
        BY <4>2, <4>3
    <3>2. CASE ~(k >= n)
      <4>1. k = n - 1 /\ k + 1 = n /\ n \in n - 1 .. MaxNesting + 1 /\ n >= n /\ ~(k > MaxNesting)
        BY <3>2, <2>1, <1>0
      <4>2. g[k] = Body(f[n], n - 1) /\ g[n] = f[n]
        BY <3>2, <4>1
      <4> HIDE DEF g
      <4> QED
        BY <4>1, <4>2
    <3> QED
      BY <3>1, <3>2
  <2>4. IsFrom(g, n - 1)
    <3>1. g = [k \in n - 1 .. MaxNesting + 1 |-> g[k]]
      OBVIOUS
    <3> HIDE DEF g, Here
    <3> QED
      BY <2>3, <3>1
  <2> QED
    BY <2>1, <2>4
<1>5. 0 \in Found
  <2>1. Found \in SUBSET Nat /\ Found # {}
    <3>1. \A n \in 0 .. MaxNesting + 1 : n \in Nat
      BY <1>0
    <3>2. \A n \in Found : n \in 0 .. MaxNesting + 1
      OBVIOUS
    <3> HIDE DEF Found
    <3> QED
      BY <1>3, <3>1, <3>2
  <2>2. PICK m \in Found : \A y \in Found : m <= y
    BY <2>1, LevelLeast
  <2>3. m # 0 => m \in Nat /\ ~(m <= m - 1)
    BY <2>1
  <2> HIDE DEF Found
  <2> QED
    BY <1>4, <2>2, <2>3
<1>6. IsFrom(WalksAt(flow, into), 0)
  BY <1>1, <1>5
<1>7. \A k \in 0 .. MaxNesting : k \in 0 .. MaxNesting + 1 /\ ~(k > MaxNesting)
  BY <1>0
<1> QED
  BY <1>2, <1>6, <1>7

(* The path of a run through a flow follows from those of nested flows.    *)
LEMMA PathsAtIs ==
    ASSUME NEW flow, NEW env
    PROVE  \A k \in 0 .. MaxNesting : PathsAt(flow, env)[k] =
               [f \in FlowsAt(flow, {"if"})[k] |-> Passed(f, env, PathsAt(flow, env)[k + 1])]
<1> DEFINE Body(x, k) == [f \in FlowsAt(flow, {"if"})[k] |-> Passed(f, env, x)]
           Here(f, k) == IF k > MaxNesting THEN <<>> ELSE Body(f[k + 1], k)
           IsFrom(f, n) == f = [k \in n .. MaxNesting + 1 |-> Here(f, k)]
           Found == {n \in 0 .. MaxNesting + 1 : \E f : IsFrom(f, n)}
<1>0. MaxNesting \in Nat /\ 0 \in 0 .. MaxNesting + 1 /\ MaxNesting + 1 \in 0 .. MaxNesting + 1
  BY NestingAssumption
<1>1. PathsAt(flow, env) = CHOOSE f : IsFrom(f, 0)
  BY DEF PathsAt
<1>2. \A x, k : Body(x, k) = [f \in FlowsAt(flow, {"if"})[k] |-> Passed(f, env, x)]
  OBVIOUS
<1> HIDE DEF Body
<1>3. MaxNesting + 1 \in Found
  <2>1. IsFrom([k \in MaxNesting + 1 .. MaxNesting + 1 |-> <<>>], MaxNesting + 1)
    <3>1. \A k \in MaxNesting + 1 .. MaxNesting + 1 : k > MaxNesting
      BY <1>0
    <3> QED
      BY <3>1
  <2> QED
    BY <1>0, <2>1
<1>4. ASSUME NEW n \in Found, n # 0
      PROVE  n - 1 \in Found
  <2>1. n \in Nat /\ n - 1 \in Nat /\ n - 1 <= MaxNesting /\ n - 1 \in 0 .. MaxNesting + 1
    BY <1>0, <1>4
  <2>2. PICK f : IsFrom(f, n)
    OBVIOUS
  <2> DEFINE g == [k \in n - 1 .. MaxNesting + 1 |-> IF k >= n THEN f[k] ELSE Body(f[n], n - 1)]
  <2>3. ASSUME NEW k \in n - 1 .. MaxNesting + 1
        PROVE  g[k] = Here(g, k)
    <3>1. CASE k >= n
      <4>1. k \in n .. MaxNesting + 1 /\ (~(k > MaxNesting) => k + 1 \in n - 1 .. MaxNesting + 1 /\ k + 1 >= n)
        BY <3>1, <2>1, <1>0
      <4>2. g[k] = f[k] /\ (~(k > MaxNesting) => g[k + 1] = f[k + 1])
        BY <3>1, <4>1
      <4>3. f[k] = Here(f, k)
        BY <2>2, <4>1
      <4> HIDE DEF g
      <4> QED
        BY <4>2, <4>3
    <3>2. CASE ~(k >= n)
      <4>1. k = n - 1 /\ k + 1 = n /\ n \in n - 1 .. MaxNesting + 1 /\ n >= n /\ ~(k > MaxNesting)
        BY <3>2, <2>1, <1>0
      <4>2. g[k] = Body(f[n], n - 1) /\ g[n] = f[n]
        BY <3>2, <4>1
      <4> HIDE DEF g
      <4> QED
        BY <4>1, <4>2
    <3> QED
      BY <3>1, <3>2
  <2>4. IsFrom(g, n - 1)
    <3>1. g = [k \in n - 1 .. MaxNesting + 1 |-> g[k]]
      OBVIOUS
    <3> HIDE DEF g, Here
    <3> QED
      BY <2>3, <3>1
  <2> QED
    BY <2>1, <2>4
<1>5. 0 \in Found
  <2>1. Found \in SUBSET Nat /\ Found # {}
    <3>1. \A n \in 0 .. MaxNesting + 1 : n \in Nat
      BY <1>0
    <3>2. \A n \in Found : n \in 0 .. MaxNesting + 1
      OBVIOUS
    <3> HIDE DEF Found
    <3> QED
      BY <1>3, <3>1, <3>2
  <2>2. PICK m \in Found : \A y \in Found : m <= y
    BY <2>1, LevelLeast
  <2>3. m # 0 => m \in Nat /\ ~(m <= m - 1)
    BY <2>1
  <2> HIDE DEF Found
  <2> QED
    BY <1>4, <2>2, <2>3
<1>6. IsFrom(PathsAt(flow, env), 0)
  BY <1>1, <1>5
<1>7. \A k \in 0 .. MaxNesting : k \in 0 .. MaxNesting + 1 /\ ~(k > MaxNesting)
  BY <1>0
<1> QED
  BY <1>2, <1>6, <1>7

-----------------------------------------------------------------------------
(* What the passes read of a document: two documents that agree there get    *)
(* one manifest.                                                             *)
LEMMA PassesAgree ==
    ASSUME NEW u, NEW v, NEW descriptors, NEW registry,
           u.triggers = v.triggers, u.condition = v.condition, u.flow = v.flow
    PROVE  /\ ResolveCapabilities(u, registry) = ResolveCapabilities(v, registry)
           /\ AnalyzeTemporal(u) = AnalyzeTemporal(v)
           /\ ApplySafetyPass(u, descriptors) = ApplySafetyPass(v, descriptors)
           /\ \A temporal, safety : ClassifyRuntime(u, temporal, safety, descriptors)
                                      = ClassifyRuntime(v, temporal, safety, descriptors)
           /\ LowerToAxiom(u) = LowerToAxiom(v)
<1>1. ResolveCapabilities(u, registry) = ResolveCapabilities(v, registry)
  <2>1. References(u) = References(v)
    BY DEF References
  <2> QED
    BY <2>1 DEF ResolveCapabilities
<1>2. AnalyzeTemporal(u) = AnalyzeTemporal(v)
  BY DEF AnalyzeTemporal
<1>3. ApplySafetyPass(u, descriptors) = ApplySafetyPass(v, descriptors)
  BY DEF ApplySafetyPass
<1>4. \A temporal, safety : ClassifyRuntime(u, temporal, safety, descriptors)
                              = ClassifyRuntime(v, temporal, safety, descriptors)
  BY DEF ClassifyRuntime
<1>5. LowerToAxiom(u) = LowerToAxiom(v)
  BY DEF LowerToAxiom
<1> QED
  BY <1>1, <1>2, <1>3, <1>4, <1>5

(* Fields that agree give one semantic digest.                               *)
LEMMA DigestsAgree ==
    ASSUME NEW u, NEW v, u.triggers = v.triggers, u.condition = v.condition, u.flow = v.flow,
           u.parameters = v.parameters
    PROVE  SemanticDigest(u) = SemanticDigest(v)
<1>1. /\ Normal(u).triggers = Normal(v).triggers /\ Normal(u).condition = Normal(v).condition
      /\ Normal(u).flow = Normal(v).flow /\ Normal(u).parameters = Normal(v).parameters
  BY DEF Normal
<1> QED
  BY <1>1 DEF SemanticDigest

(* Documents of one scenario with the same semantic digest get the same plan *)
(* digest, in ADGO if they are of one revision.                              *)
LEMMA OneDigestOnePlan ==
    ASSUME NEW u, NEW v, NEW registry, Normalizes(u), Normalizes(v), Trim(u.id) = Trim(v.id),
           SemanticDigest(u) = SemanticDigest(v),
           Compile(v, registry).manifest.runtime = "Axiom" \/ Trim(u.revision) = Trim(v.revision)
    PROVE  PlanDigest(Compile(u, registry).manifest) = PlanDigest(Compile(v, registry).manifest)
<1> DEFINE m == Normal(u)
           n == Normal(v)
<1>1. m.triggers = n.triggers /\ m.condition = n.condition /\ m.flow = n.flow
        /\ m.parameters = n.parameters
  BY DEF SemanticDigest
<1>2. m.id = n.id /\ m.revision = Trim(u.revision) /\ n.revision = Trim(v.revision)
  BY DEF Normal
<1>3. Compile(u, registry) = CompileNormal(m, registry) /\ Compile(v, registry) = CompileNormal(n, registry)
  BY DEF Compile
<1> HIDE DEF m, n
<1>4. SemanticDigest(m) = SemanticDigest(n)
  BY <1>1, DigestsAgree
<1>5. /\ ResolveCapabilities(m, registry) = ResolveCapabilities(n, registry)
      /\ AnalyzeTemporal(m) = AnalyzeTemporal(n)
      /\ LowerToAxiom(m) = LowerToAxiom(n)
  BY <1>1, PassesAgree
<1> DEFINE descriptors == ResolveCapabilities(n, registry).descriptors
<1>6. /\ ApplySafetyPass(m, descriptors) = ApplySafetyPass(n, descriptors)
      /\ \A temporal, safety : ClassifyRuntime(m, temporal, safety, descriptors)
                                 = ClassifyRuntime(n, temporal, safety, descriptors)
  BY <1>1, PassesAgree
<1> DEFINE safety == ApplySafetyPass(n, descriptors)
           runtime == ClassifyRuntime(n, AnalyzeTemporal(n), safety, descriptors)
           Adgo(d) == IF runtime = "ADGO" THEN LowerToADGO(d, safety) ELSE NoPlan
<1>7. Adgo(m) = Adgo(n)
  <2>1. runtime = Compile(v, registry).manifest.runtime
    BY <1>3 DEF CompileNormal
  <2>2. CASE runtime = "Axiom"
    BY <2>2
  <2>3. CASE Trim(u.revision) = Trim(v.revision)
    <3>1. m.revision = n.revision
      BY <1>2, <2>3
    <3>2. LowerToADGO(m, safety) = LowerToADGO(n, safety)
      BY <1>2, <3>1 DEF LowerToADGO
    <3> QED
      BY <3>2
  <2> HIDE DEF runtime
  <2> QED
    BY <2>1, <2>2, <2>3
<1>8. CompileNormal(m, registry).manifest = CompileNormal(n, registry).manifest
  BY <1>2, <1>4, <1>5, <1>6, <1>7 DEF CompileNormal
<1> QED
  BY <1>3, <1>8

(* What is compiled is the compilation of the document, and what was tried   *)
(* out is the document with one of the contexts.                             *)
EditorInv ==
    /\ doc \in Documents /\ reg \in Registries
    /\ compiled = Undone \/ compiled = Compile(doc, reg)
    /\ trial = Undone \/ \E ctx \in Contexts : trial = [ctx |-> ctx, result |-> Simulate(doc, ctx, reg)]
    /\ compiled = Undone => trial = Undone

(* The invariant of the editor is one of every behaviour.                    *)
LEMMA EditorInvHolds == CompileSpec => []EditorInv
<1>1. CompileInit => EditorInv
  BY DEF CompileInit, EditorInv
<1>2. EditorInv /\ [CompileNext]_compileVars => EditorInv'
  <2> SUFFICES ASSUME EditorInv, [CompileNext]_compileVars PROVE EditorInv'
    OBVIOUS
  <2>1. CASE CompileIt
    BY <2>1 DEF CompileIt, EditorInv
  <2>2. CASE TryOut
    BY <2>2 DEF TryOut, EditorInv
  <2>3. CASE UNCHANGED compileVars
    BY <2>3 DEF compileVars, EditorInv
  <2> QED
    BY <2>1, <2>2, <2>3 DEF CompileNext
<1> QED
  BY <1>1, <1>2, PTL DEF CompileSpec

(* A compilation that went well is that of a normal form.                    *)
LEMMA GoodIsNormal ==
    ASSUME EditorInv, Good
    PROVE  /\ doc \in Documents /\ compiled = Compile(doc, reg)
           /\ Normalizes(doc) /\ compiled = CompileNormal(Normal(doc), reg)
<1>1. doc \in Documents /\ compiled = Compile(doc, reg)
  BY DEF EditorInv, Good
<1>2. ~Normalizes(doc) => compiled.diags = {Error("malformed_structure")}
  BY <1>1 DEF Compile, Malformed
<1>3. Error("malformed_structure").severity = "error"
  BY DEF Error
<1>4. Normalizes(doc)
  BY <1>2, <1>3 DEF Good, HasErrors
<1> QED
  BY <1>1, <1>4 DEF Compile

(* Documents of one scenario with the same semantic digest get the same plan *)
(* digest (normalize.go:SemanticDigest, digest.go:ComputePlanDigest), and in *)
(* ADGO those of one revision do (adgo.go:LowerToADGO).                      *)
THEOREM EqualDigestEqualPlanHolds == CompileSpec => []EqualDigestEqualPlan
<1>1. EditorInv => EqualDigestEqualPlan
  <2> SUFFICES ASSUME EditorInv, compiled # Undone, Digests[doc] # <<>>,
                      NEW other \in Documents, Digests[other] = Digests[doc],
                      compiled.manifest.runtime = "Axiom" \/ Trim(other.revision) = Trim(doc.revision)
               PROVE  PlanDigest(Compile(other, reg).manifest) = PlanDigest(compiled.manifest)
    BY DEF EqualDigestEqualPlan
  <2>1. doc \in Documents /\ compiled = Compile(doc, reg)
    BY DEF EditorInv
  <2>2. /\ Digests[doc] = IF Normalizes(doc) THEN <<Trim(doc.id), SemanticDigest(doc)>> ELSE <<>>
        /\ Digests[other] = IF Normalizes(other) THEN <<Trim(other.id), SemanticDigest(other)>> ELSE <<>>
    BY <2>1 DEF Digests
  <2>3. Normalizes(doc) /\ Normalizes(other) /\ Trim(doc.id) = Trim(other.id)
          /\ SemanticDigest(doc) = SemanticDigest(other)
    BY <2>2
  <2> QED
    BY <2>1, <2>3, OneDigestOnePlan
<1> QED
  BY <1>1, EditorInvHolds, PTL

-----------------------------------------------------------------------------
(* The flows and the steps of a document are those of its levels.            *)
LEMMA FlowsAreAtLevels ==
    ASSUME NEW flow, NEW into
    PROVE  /\ \A f : f \in FlowsIn(flow, into) <=> \E k \in 0 .. MaxNesting : f \in FlowsAt(flow, into)[k]
           /\ \A s : s \in StepsIn(flow, into) <=>
                \E f \in FlowsIn(flow, into) : \E i \in DOMAIN f : s = f[i]
<1>1. DOMAIN FlowsAt(flow, into) = 0 .. MaxNesting
  BY FlowsAtIs
<1>2. ASSUME NEW f
      PROVE  f \in FlowsIn(flow, into) <=> \E k \in 0 .. MaxNesting : f \in FlowsAt(flow, into)[k]
  BY <1>1 DEF FlowsIn, Elements
<1>3. ASSUME NEW s
      PROVE  s \in StepsIn(flow, into) <=> \E f \in FlowsIn(flow, into) : \E i \in DOMAIN f : s = f[i]
  BY DEF StepsIn, Elements
<1> QED
  BY <1>2, <1>3

(* What holds of the outermost level, and of each level if of the one above, *)
(* holds of all.                                                             *)
LEMMA LevelInduction ==
    ASSUME NEW Reached \in SUBSET (0 .. MaxNesting), 0 \in Reached,
           \A k \in 1 .. MaxNesting : k - 1 \in Reached => k \in Reached
    PROVE  Reached = 0 .. MaxNesting
<1> DEFINE Missing == (0 .. MaxNesting) \ Reached
<1>0. MaxNesting \in Nat
  BY NestingAssumption
<1>1. ASSUME Missing # {}
      PROVE  FALSE
  <2>1. Missing \in SUBSET Nat
    BY <1>0
  <2>2. PICK m \in Missing : \A y \in Missing : m <= y
    BY <1>1, <2>1, LevelLeast
  <2>3. m \in 1 .. MaxNesting /\ m - 1 \in 0 .. MaxNesting /\ ~(m <= m - 1)
    BY <1>0, <2>2
  <2> QED
    BY <2>2, <2>3
<1> QED
  BY <1>1

(* A flow whose steps, as far as a pass into the branches of if steps comes, *)
(* have no other branches is walked whole by that pass.                      *)
LEMMA NarrowScopeIsWhole ==
    ASSUME NEW flow, \A s \in StepsIn(flow, {"if"}) : s.kind \notin {"switch", "parallel"}
    PROVE  StepsIn(flow, Branching) = StepsIn(flow, {"if"})
<1> DEFINE whole == FlowsAt(flow, Branching)
           narrow == FlowsAt(flow, {"if"})
           Same == {k \in 0 .. MaxNesting : whole[k] = narrow[k]}
<1>0. MaxNesting \in Nat
  BY NestingAssumption
<1>1. 0 \in Same
  <2>1. whole[0] = {flow} /\ narrow[0] = {flow}
    BY FlowsAtIs
  <2>2. 0 \in 0 .. MaxNesting
    BY <1>0
  <2> HIDE DEF whole, narrow
  <2> QED
    BY <2>1, <2>2
<1>2. ASSUME NEW k \in 1 .. MaxNesting, k - 1 \in Same
      PROVE  k \in Same
  <2>0. k - 1 \in 0 .. MaxNesting /\ k \in 0 .. MaxNesting
    BY <1>0
  <2>1. ASSUME NEW f \in narrow[k - 1]
        PROVE  Nested(f, Branching) = Nested(f, {"if"})
    <3>1. f \in FlowsIn(flow, {"if"})
      BY <2>0, FlowsAreAtLevels
    <3>2. \A i \in DOMAIN f : f[i].kind \notin {"switch", "parallel"}
      BY <3>1, FlowsAreAtLevels
    <3>3. {j \in DOMAIN f : f[j].kind \in Branching} = {j \in DOMAIN f : f[j].kind \in {"if"}}
      BY <3>2 DEF Branching
    <3> QED
      BY <3>3 DEF Nested
  <2>2. whole[k - 1] = narrow[k - 1]
    BY <1>2
  <2>3. whole[k] = UNION {Nested(f, Branching) : f \in whole[k - 1]}
          /\ narrow[k] = UNION {Nested(f, {"if"}) : f \in narrow[k - 1]}
    BY FlowsAtIs
  <2>4. {Nested(f, Branching) : f \in narrow[k - 1]} = {Nested(f, {"if"}) : f \in narrow[k - 1]}
    BY <2>1
  <2> QED
    BY <2>0, <2>2, <2>3, <2>4
<1>3. Same = 0 .. MaxNesting
  <2>1. Same \in SUBSET (0 .. MaxNesting)
    OBVIOUS
  <2> HIDE DEF Same
  <2> QED
    BY <1>1, <1>2, <2>1, LevelInduction
<1>4. \A k \in 0 .. MaxNesting : whole[k] = narrow[k]
  BY <1>3
<1> HIDE DEF whole, narrow
<1>5. \A f : f \in FlowsIn(flow, Branching) <=> f \in FlowsIn(flow, {"if"})
  BY <1>4, FlowsAreAtLevels DEF whole, narrow
<1>6. \A s : s \in StepsIn(flow, Branching) <=> s \in StepsIn(flow, {"if"})
  BY <1>5, FlowsAreAtLevels
<1> QED
  BY <1>6

(* What the normal form of a step keeps.                                     *)
LEMMA NormalStepKeeps ==
    ASSUME NEW s, IsStep(s), NEW flows
    PROVE  /\ NormalStep(s, flows).kind = s.kind /\ NormalStep(s, flows).id = Trim(s.id)
           /\ s.kind \in Branching => NormalStep(s, flows).flows = flows
           /\ s.kind = "action" => /\ NormalStep(s, flows).cap.id = Trim(s.cap.id)
                                   /\ NormalStep(s, flows).retry = s.retry
<1> DEFINE named == [s EXCEPT !.id = Trim(@)]
<1>1. /\ DOMAIN named = DOMAIN s /\ \A x \in DOMAIN s : x # "id" => named[x] = s[x]
      /\ named.kind = s.kind /\ named.id = Trim(s.id) /\ "id" \in DOMAIN named
  BY DEF IsStep
<1>2. CASE s.kind = "action"
  <2>1. NormalStep(s, flows) = [named EXCEPT !.cap.id = Trim(@), !.args = NormalArgs(@)]
    BY <1>2 DEF NormalStep
  <2>2. /\ {"cap", "args", "retry", "kind"} \subseteq DOMAIN named /\ named.cap = s.cap
        /\ "id" \in DOMAIN s.cap /\ named.retry = s.retry /\ s.kind \notin Branching
    BY <1>1, <1>2 DEF IsStep, Branching
  <2> HIDE DEF named
  <2> QED
    BY <1>1, <2>1, <2>2
<1>3. CASE s.kind \in {"if", "switch"}
  <2>1. NormalStep(s, flows) = [named EXCEPT !.when = [i \in DOMAIN @ |-> NormalExpr(@[i])], !.flows = flows]
    BY <1>3 DEF NormalStep
  <2>2. {"when", "flows", "kind"} \subseteq DOMAIN named /\ s.kind # "action"
    BY <1>1, <1>3 DEF IsStep, Branching
  <2> HIDE DEF named
  <2> QED
    BY <1>1, <2>1, <2>2
<1>4. CASE s.kind = "parallel"
  <2>1. NormalStep(s, flows) = [named EXCEPT !.flows = flows]
    BY <1>4 DEF NormalStep
  <2>2. {"flows", "kind"} \subseteq DOMAIN named /\ s.kind # "action"
    BY <1>1, <1>4 DEF IsStep, Branching
  <2> HIDE DEF named
  <2> QED
    BY <1>1, <2>1, <2>2
<1>5. CASE s.kind = "subflow"
  <2>1. NormalStep(s, flows) = [named EXCEPT !.scenario = Trim(@), !.args = NormalArgs(@)]
    BY <1>5 DEF NormalStep
  <2>2. {"scenario", "args", "kind"} \subseteq DOMAIN named /\ s.kind \notin Branching /\ s.kind # "action"
    BY <1>1, <1>5 DEF IsStep, Branching
  <2> HIDE DEF named
  <2> QED
    BY <1>1, <2>1, <2>2
<1>6. CASE s.kind \notin {"action", "subflow"} \cup Branching
  <2>1. NormalStep(s, flows) = named
    BY <1>6 DEF NormalStep, Branching
  <2> QED
    BY <1>1, <1>6, <2>1
<1> QED
  BY <1>2, <1>3, <1>4, <1>5, <1>6 DEF Branching

(* The normal form of a flow at its level.                                   *)
LEMMA NormalFlowIs ==
    ASSUME NEW flow, NEW k \in 0 .. MaxNesting, NEW f \in FlowsAt(flow, Branching)[k]
    PROVE  NormalFlowsAt(flow)[k][f] = NormalSteps(f, NormalFlowsAt(flow)[k + 1])
<1> DEFINE normal == NormalFlowsAt(flow)
           at == FlowsAt(flow, Branching)
<1>1. normal[k] = [g \in at[k] |-> NormalSteps(g, normal[k + 1])]
  BY NormalFlowsAtIs, Zenon
<1> HIDE DEF normal, at
<1>2. f \in at[k]
  BY DEF at
<1>3. normal[k][f] = NormalSteps(f, normal[k + 1])
  BY <1>1, <1>2
<1> QED
  BY <1>3 DEF normal

(* A pass that goes into fewer kinds of steps meets no other flows.          *)
LEMMA FlowsNarrow ==
    ASSUME NEW flow, NEW into \in SUBSET Branching
    PROVE  \A k \in 0 .. MaxNesting : \A f \in FlowsAt(flow, into)[k] : f \in FlowsAt(flow, Branching)[k]
<1> DEFINE at == FlowsAt(flow, into)
           all == FlowsAt(flow, Branching)
           There == {k \in 0 .. MaxNesting : \A f \in at[k] : f \in all[k]}
<1>0. MaxNesting \in Nat
  BY NestingAssumption
<1>1. 0 \in There
  <2>1. at[0] = {flow} /\ all[0] = {flow} /\ 0 \in 0 .. MaxNesting
    BY <1>0, FlowsAtIs
  <2> HIDE DEF at, all
  <2> QED
    BY <2>1
<1>2. ASSUME NEW k \in 1 .. MaxNesting, k - 1 \in There
      PROVE  k \in There
  <2>1. at[k] = UNION {Nested(f, into) : f \in at[k - 1]}
          /\ all[k] = UNION {Nested(f, Branching) : f \in all[k - 1]}
    BY FlowsAtIs
  <2>2. \A f, g : g \in Nested(f, into) => g \in Nested(f, Branching)
    BY DEF Nested
  <2>3. \A f \in at[k - 1] : f \in all[k - 1]
    BY <1>2
  <2>4. k \in 0 .. MaxNesting
    OBVIOUS
  <2> HIDE DEF at, all
  <2> QED
    BY <2>1, <2>2, <2>3, <2>4
<1>3. There = 0 .. MaxNesting
  <2>1. There \in SUBSET (0 .. MaxNesting)
    OBVIOUS
  <2> HIDE DEF There
  <2> QED
    BY <1>1, <1>2, <2>1, LevelInduction
<1> QED
  BY <1>3

(* Every flow in a document has its normal form at the same level of the     *)
(* document's normal form.                                                   *)
LEMMA NormalFlowsAreThere ==
    ASSUME NEW flow, \A s \in AllSteps(flow) : IsStep(s), NEW into \in SUBSET Branching
    PROVE  \A k \in 0 .. MaxNesting : \A f \in FlowsAt(flow, into)[k] :
               NormalFlowsAt(flow)[k][f] \in FlowsAt(NormalFlow(flow), into)[k]
<1> DEFINE at == FlowsAt(flow, into)
           to == FlowsAt(NormalFlow(flow), into)
           normal == NormalFlowsAt(flow)
           There == {k \in 0 .. MaxNesting : \A f \in at[k] : normal[k][f] \in to[k]}
<1>0. MaxNesting \in Nat
  BY NestingAssumption
<1>1. 0 \in There
  <2>1. at[0] = {flow} /\ to[0] = {normal[0][flow]}
    BY FlowsAtIs DEF NormalFlow
  <2> QED
    BY <1>0, <2>1
<1>2. ASSUME NEW k \in 1 .. MaxNesting, k - 1 \in There
      PROVE  k \in There
  <2>0. k - 1 \in 0 .. MaxNesting /\ k \in 0 .. MaxNesting /\ (k - 1) + 1 = k
    BY <1>0
  <2>1. ASSUME NEW g \in at[k]
        PROVE  normal[k][g] \in to[k]
    <3>1. at[k] = UNION {Nested(f, into) : f \in at[k - 1]}
            /\ to[k] = UNION {Nested(f, into) : f \in to[k - 1]}
      BY FlowsAtIs
    <3>2. PICK f \in at[k - 1] : g \in Nested(f, into)
      BY <2>1, <3>1
    <3>3. PICK i \in DOMAIN f : f[i].kind \in into /\ g \in Elements(f[i].flows)
      BY <3>2 DEF Nested
    <3>4. PICK j \in DOMAIN f[i].flows : g = f[i].flows[j]
      BY <3>3 DEF Elements
    <3> DEFINE n == normal[k - 1][f]
               inner == [y \in DOMAIN f[i].flows |-> normal[k][f[i].flows[y]]]
    <3>5. n = NormalSteps(f, normal[k])
      <4>1. normal[k - 1][f] = NormalSteps(f, normal[(k - 1) + 1])
        BY <2>0, <3>2, FlowsNarrow, NormalFlowIs
      <4> HIDE DEF normal
      <4> QED
        BY <2>0, <4>1
    <3>6. i \in DOMAIN n /\ n[i] = NormalStep(f[i], inner)
      <4> HIDE DEF normal, n
      <4> QED
        BY <3>3, <3>5 DEF NormalSteps
    <3>7. IsStep(f[i])
      BY <2>0, <3>2, FlowsNarrow, FlowsAreAtLevels DEF AllSteps
    <3>8. n[i].kind \in into /\ n[i].flows = inner
      <4> HIDE DEF n, inner
      <4> QED
        BY <3>3, <3>6, <3>7, NormalStepKeeps
    <3>9. normal[k][g] \in Elements(n[i].flows)
      <4>1. j \in DOMAIN inner /\ inner[j] = normal[k][g]
        BY <3>4
      <4> HIDE DEF n, inner, normal
      <4> QED
        BY <3>8, <4>1 DEF Elements
    <3>10. n \in to[k - 1]
      BY <1>2, <3>2
    <3>11. normal[k][g] \in Nested(n, into)
      <4> HIDE DEF n, normal
      <4> QED
        BY <3>6, <3>8, <3>9 DEF Nested
    <3> HIDE DEF n, normal, to
    <3> QED
      BY <3>1, <3>10, <3>11
  <2> QED
    BY <2>0, <2>1
<1>3. There = 0 .. MaxNesting
  <2>1. There \in SUBSET (0 .. MaxNesting)
    OBVIOUS
  <2> HIDE DEF There
  <2> QED
    BY <1>1, <1>2, <2>1, LevelInduction
<1> QED
  BY <1>3

(* Every step of a document has its normal form among the steps of the       *)
(* document's normal form.                                                   *)
LEMMA NormalStepsAreThere ==
    ASSUME NEW flow, \A s \in AllSteps(flow) : IsStep(s), NEW s \in AllSteps(flow)
    PROVE  \E flows : NormalStep(s, flows) \in AllSteps(NormalFlow(flow))
<1>1. PICK f \in FlowsIn(flow, Branching) : \E i \in DOMAIN f : s = f[i]
  BY FlowsAreAtLevels DEF AllSteps
<1>2. PICK i \in DOMAIN f : s = f[i]
  BY <1>1
<1>3. PICK k \in 0 .. MaxNesting : f \in FlowsAt(flow, Branching)[k]
  BY FlowsAreAtLevels
<1> DEFINE n == NormalFlowsAt(flow)[k][f]
<1>4. n \in FlowsIn(NormalFlow(flow), Branching)
  BY <1>3, NormalFlowsAreThere, FlowsAreAtLevels
<1>5. DOMAIN n = DOMAIN f /\ \E flows : n[i] = NormalStep(s, flows)
  <2>1. n = NormalSteps(f, NormalFlowsAt(flow)[k + 1])
    BY <1>3, NormalFlowIs
  <2> HIDE DEF n
  <2> QED
    BY <1>2, <2>1 DEF NormalSteps
<1>6. n[i] \in AllSteps(NormalFlow(flow))
  BY <1>2, <1>4, <1>5, FlowsAreAtLevels DEF AllSteps
<1> QED
  BY <1>5, <1>6

(* A word in an identifier stays when the blanks around it go.               *)
LEMMA WordsStay ==
    ASSUME NEW id
    PROVE  IsUnlock(Trim(id)) = IsUnlock(id) /\ IsSiren(Trim(id)) = IsSiren(id)
<1>1. CASE id \in DOMAIN Padded
  <2>1. \A ids \in {UnlockIds, DoorOpenIds, SirenIds, AlarmIds} : id \in ids <=> Trim(id) \in ids
    BY <1>1, WordsAssumption DEF Trim
  <2> QED
    BY <2>1 DEF IsUnlock, IsSiren
<1>2. CASE id \notin DOMAIN Padded
  BY <1>2 DEF Trim
<1> QED
  BY <1>1, <1>2

(* A document that runs in Axiom has no step at any depth that needs a gate, *)
(* a timer or a person (classify.go:inspectFlow).                            *)
THEOREM AxiomNeedsNoStateHolds == CompileSpec => []AxiomNeedsNoState
<1>1. EditorInv => AxiomNeedsNoState
  <2> SUFFICES ASSUME EditorInv, Good, compiled.manifest.runtime = "Axiom", NEW s \in AllSteps(doc.flow)
               PROVE  /\ s.kind \in {"action", "if", "stop"}
                      /\ s.kind = "action" =>
                           ~IsUnlock(s.cap.id) /\ ~IsSiren(s.cap.id) /\ ~(s.retry > 1)
    BY DEF AxiomNeedsNoState
  <2> DEFINE d == Normal(doc)
             descriptors == ResolveCapabilities(d, reg).descriptors
             safety == ApplySafetyPass(d, descriptors)
  <2>1. doc \in Documents /\ compiled = Compile(doc, reg)
    BY DEF EditorInv, Good
  <2>2. Normalizes(doc) /\ compiled = CompileNormal(d, reg)
    BY GoodIsNormal
  <2>3. d.flow = NormalFlow(doc.flow)
    BY DEF Normal
  <2>4. Valid(d)
    BY <2>2 DEF Normalizes
  <2> HIDE DEF d
  <2>5. ClassifyRuntime(d, AnalyzeTemporal(d), safety, descriptors) = "Axiom"
    BY <2>2 DEF CompileNormal
  <2>6. safety.reasons = {} /\ \A x \in StepsIn(d.flow, {"if"}) : ~DurableStep(x, descriptors)
    <3> HIDE DEF safety, descriptors
    <3> QED
      BY <2>5 DEF ClassifyRuntime
  <2>7. \A x \in StepsIn(d.flow, {"if"}) : x.kind \notin DurableKinds
    BY <2>6 DEF DurableStep
  <2>8. AllSteps(d.flow) = StepsIn(d.flow, {"if"})
    BY <2>7, NarrowScopeIsWhole DEF AllSteps, DurableKinds
  <2>9. \A x \in AllSteps(d.flow) : ValidStep(x)
    BY <2>4, FlowsAreAtLevels DEF Valid, ValidFlow, AllSteps
  <2>10. ASSUME NEW x \in AllSteps(d.flow)
         PROVE  /\ x.kind \in {"action", "if", "stop"}
                /\ x.kind = "action" => ~IsUnlock(x.cap.id) /\ ~IsSiren(x.cap.id) /\ ~(x.retry > 1)
    <3>1. x.kind \in {"action", "if", "stop"}
      BY <2>7, <2>8, <2>9 DEF ValidStep, DurableKinds, Branching
    <3>2. ASSUME x.kind = "action"
          PROVE  ~IsUnlock(x.cap.id) /\ ~IsSiren(x.cap.id)
      <4>1. x \in {y \in StepsIn(d.flow, SafetyScope) : y.kind = "action"}
        BY <2>8, <3>2 DEF SafetyScope
      <4>2. IsUnlock(x.cap.id) => "unlock" \in safety.reasons
        BY <4>1 DEF ApplySafetyPass, If
      <4>3. ~IsUnlock(x.cap.id) /\ IsSiren(x.cap.id) => "siren" \in safety.reasons
        BY <4>1 DEF ApplySafetyPass, If
      <4> QED
        BY <2>6, <4>2, <4>3
    <3>3. x.kind = "action" => ~(x.retry > 1)
      BY <2>6, <2>8 DEF DurableStep
    <3> QED
      BY <3>1, <3>2, <3>3
  <2>11. \A y \in AllSteps(doc.flow) : IsStep(y)
    BY <2>1, DocumentsAssumption DEF IsDocument
  <2>12. PICK flows : NormalStep(s, flows) \in AllSteps(d.flow)
    BY <2>3, <2>11, NormalStepsAreThere
  <2>13. /\ NormalStep(s, flows).kind = s.kind
         /\ s.kind = "action" => NormalStep(s, flows).cap.id = Trim(s.cap.id)
                                   /\ NormalStep(s, flows).retry = s.retry
    BY <2>11, NormalStepKeeps
  <2> QED
    BY <2>10, <2>12, <2>13, WordsStay
<1> QED
  BY <1>1, EditorInvHolds, PTL

-----------------------------------------------------------------------------
(* What holds of the innermost level, and of each level if of the one below, *)
(* holds of all.                                                             *)
LEMMA LevelDescent ==
    ASSUME NEW Reached \in SUBSET (0 .. MaxNesting),
           \A k \in 0 .. MaxNesting : (k = MaxNesting \/ k + 1 \in Reached) => k \in Reached
    PROVE  Reached = 0 .. MaxNesting
<1> DEFINE Missing == {j \in 0 .. MaxNesting : MaxNesting - j \notin Reached}
<1>0. MaxNesting \in Nat
  BY NestingAssumption
<1>1. ASSUME Missing # {}
      PROVE  FALSE
  <2>1. Missing \in SUBSET Nat
    BY <1>0
  <2>2. PICK m \in Missing : \A y \in Missing : m <= y
    BY <1>1, <2>1, LevelLeast
  <2>3. m \in 0 .. MaxNesting /\ MaxNesting - m \notin Reached
    BY <2>2
  <2>4. MaxNesting - m \in 0 .. MaxNesting
    BY <1>0, <2>3
  <2>5. MaxNesting - m # MaxNesting /\ (MaxNesting - m) + 1 \notin Reached
    BY <2>3, <2>4
  <2>6. m - 1 \in 0 .. MaxNesting /\ MaxNesting - (m - 1) = (MaxNesting - m) + 1 /\ ~(m <= m - 1)
    BY <1>0, <2>3, <2>5
  <2> QED
    BY <2>2, <2>5, <2>6
<1>2. ASSUME NEW k \in 0 .. MaxNesting
      PROVE  k \in Reached
  <2>1. MaxNesting - k \in 0 .. MaxNesting /\ MaxNesting - (MaxNesting - k) = k
    BY <1>0
  <2>2. MaxNesting - k \notin Missing
    BY <1>1
  <2> QED
    BY <2>1, <2>2
<1> QED
  BY <1>2

(* An expression as the Go types and the bound on its levels allow.          *)
IsExpression(e) ==
    /\ \A p \in Subterms(e) : IsTerm(p)
    /\ \A p \in TermsAt(e)[MaxNesting] : p.args = <<>>

(* The subterms of an expression are the terms of its levels.                *)
LEMMA SubtermsAreAtLevels ==
    ASSUME NEW e
    PROVE  \A p : p \in Subterms(e) <=> \E k \in 0 .. MaxNesting : p \in TermsAt(e)[k]
<1>1. DOMAIN TermsAt(e) = 0 .. MaxNesting
  BY TermsAtIs
<1> QED
  BY <1>1 DEF Subterms, Elements

(* The arguments of a term stand one level below it.                         *)
LEMMA ArgumentsBelow ==
    ASSUME NEW e, IsExpression(e), NEW k \in 0 .. MaxNesting, NEW p \in TermsAt(e)[k],
           NEW i \in DOMAIN p.args
    PROVE  k + 1 \in 0 .. MaxNesting /\ k # MaxNesting /\ p.args[i] \in TermsAt(e)[k + 1]
<1>0. MaxNesting \in Nat
  BY NestingAssumption
<1>1. k # MaxNesting
  <2>1. k = MaxNesting => DOMAIN p.args = {}
    BY DEF IsExpression
  <2> QED
    BY <2>1
<1>2. k + 1 \in 1 .. MaxNesting /\ (k + 1) - 1 = k
  BY <1>0, <1>1
<1>3. TermsAt(e)[k + 1] = UNION {Elements(q.args) : q \in TermsAt(e)[(k + 1) - 1]}
  BY <1>2, TermsAtIs
<1>4. p.args[i] \in Elements(p.args)
  BY DEF Elements
<1>5. p.args[i] \in TermsAt(e)[k + 1]
  BY <1>2, <1>3, <1>4
<1> QED
  BY <1>1, <1>2, <1>5

(* Type, normal form and value of a term at its level.                       *)
LEMMA TermAtLevel ==
    ASSUME NEW e, NEW k \in 0 .. MaxNesting, NEW p \in TermsAt(e)[k], NEW env
    PROVE  /\ TypesAt(e, env)[k][p] = TermType(p, ArgsOf(p, TypesAt(e, env)[k + 1]), env)
           /\ NormalTermsAt(e)[k][p] = NormalTerm(p, ArgsOf(p, NormalTermsAt(e)[k + 1]))
           /\ ValuesAt(e, env)[k][p] = TermValue(p, ArgsOf(p, ValuesAt(e, env)[k + 1]), env)
<1> DEFINE at == TermsAt(e)[k]
           type == TypesAt(e, env)
           normal == NormalTermsAt(e)
           val == ValuesAt(e, env)
<1>1. type[k] = [q \in at |-> TermType(q, ArgsOf(q, type[k + 1]), env)]
  BY TypesAtIs
<1>2. normal[k] = [q \in at |-> NormalTerm(q, ArgsOf(q, normal[k + 1]))]
  BY NormalTermsAtIs
<1>3. val[k] = [q \in at |-> TermValue(q, ArgsOf(q, val[k + 1]), env)]
  BY ValuesAtIs
<1>4. p \in at
  OBVIOUS
<1> HIDE DEF at, type, normal, val
<1>5. /\ type[k][p] = TermType(p, ArgsOf(p, type[k + 1]), env)
      /\ normal[k][p] = NormalTerm(p, ArgsOf(p, normal[k + 1]))
      /\ val[k][p] = TermValue(p, ArgsOf(p, val[k + 1]), env)
  BY <1>1, <1>2, <1>3, <1>4
<1> QED
  BY <1>5 DEF type, normal, val

(* Sorted arguments are the arguments in another order.                      *)
LEMMA SortedAreTheArguments ==
    ASSUME NEW args
    PROVE  \E f \in Surjection(DOMAIN args, DOMAIN args) : SortArgs(args) = [i \in DOMAIN args |-> args[f[i]]]
<1> DEFINE same == [i \in DOMAIN args |-> i]
<1>1. same \in Surjection(DOMAIN args, DOMAIN args)
  BY DEF Surjection
<1>2. [i \in DOMAIN args |-> args[same[i]]] \in Rearranged(args)
  BY <1>1 DEF Rearranged
<1>3. SortArgs(args) \in Rearranged(args)
  BY <1>2 DEF SortArgs
<1> QED
  BY <1>3 DEF Rearranged


(* Sorting keeps which arguments there are, and how many.                    *)
LEMMA SortingKeepsArguments ==
    ASSUME NEW args
    PROVE  /\ DOMAIN SortArgs(args) = DOMAIN args
           /\ \A i \in DOMAIN args : \E j \in DOMAIN args : args[j] = SortArgs(args)[i]
           /\ \A i \in DOMAIN args : \E j \in DOMAIN args : SortArgs(args)[j] = args[i]
<1>1. PICK f \in Surjection(DOMAIN args, DOMAIN args) : SortArgs(args) = [i \in DOMAIN args |-> args[f[i]]]
  BY SortedAreTheArguments
<1>2. /\ \A i \in DOMAIN args : f[i] \in DOMAIN args
      /\ \A j \in DOMAIN args : \E i \in DOMAIN args : f[i] = j
  BY DEF Surjection
<1>3. DOMAIN SortArgs(args) = DOMAIN args /\ \A i \in DOMAIN args : SortArgs(args)[i] = args[f[i]]
  BY <1>1
<1> QED
  BY <1>2, <1>3

(* What the normal form of a term keeps.                                     *)
LEMMA NormalTermKeeps ==
    ASSUME NEW p, IsTerm(p), NEW args, DOMAIN args = DOMAIN p.args
    PROVE  /\ NormalTerm(p, args).op = p.op
           /\ NormalTerm(p, args).ref = Trim(p.ref)
           /\ NormalTerm(p, args).value = p.value
           /\ NormalTerm(p, args).args = IF p.op \in Logical THEN SortArgs(args) ELSE args
           /\ DOMAIN NormalTerm(p, args).args = DOMAIN p.args
           /\ \A i \in DOMAIN p.args : \E j \in DOMAIN p.args : NormalTerm(p, args).args[j] = args[i]
<1> DEFINE q == NormalTerm(p, args)
           sorted == IF p.op \in Logical THEN SortArgs(args) ELSE args
<1>1. q = [p EXCEPT !.ref = Trim(@), !.args = sorted]
  BY DEF NormalTerm
<1>2. DOMAIN p = {"op", "ref", "value", "args"}
  BY DEF IsTerm
<1>3. q.op = p.op /\ q.ref = Trim(p.ref) /\ q.value = p.value /\ q.args = sorted
  <2> HIDE DEF sorted, q
  <2> QED
    BY <1>1, <1>2
<1>4. DOMAIN sorted = DOMAIN p.args
        /\ \A i \in DOMAIN p.args : \E j \in DOMAIN p.args : sorted[j] = args[i]
  BY SortingKeepsArguments
<1> QED
  BY <1>3, <1>4

(* Every term of an expression has its normal form at the same level of the  *)
(* expression's normal form.                                                 *)
LEMMA NormalTermsAreThere ==
    ASSUME NEW e, IsExpression(e)
    PROVE  \A k \in 0 .. MaxNesting : \A p \in TermsAt(e)[k] :
               NormalTermsAt(e)[k][p] \in TermsAt(NormalExpr(e))[k]
<1> DEFINE at == TermsAt(e)
           to == TermsAt(NormalExpr(e))
           normal == NormalTermsAt(e)
           There == {k \in 0 .. MaxNesting : \A p \in at[k] : normal[k][p] \in to[k]}
<1>0. MaxNesting \in Nat
  BY NestingAssumption
<1>1. 0 \in There
  <2>1. at[0] = {e} /\ to[0] = {normal[0][e]}
    BY TermsAtIs DEF NormalExpr
  <2> QED
    BY <1>0, <2>1
<1>2. ASSUME NEW k \in 1 .. MaxNesting, k - 1 \in There
      PROVE  k \in There
  <2>0. k - 1 \in 0 .. MaxNesting /\ k \in 0 .. MaxNesting /\ (k - 1) + 1 = k
    BY <1>0
  <2>1. ASSUME NEW p \in at[k]
        PROVE  normal[k][p] \in to[k]
    <3>1. at[k] = UNION {Elements(g.args) : g \in at[k - 1]}
            /\ to[k] = UNION {Elements(g.args) : g \in to[k - 1]}
      BY TermsAtIs
    <3>2. PICK g \in at[k - 1] : p \in Elements(g.args)
      BY <2>1, <3>1
    <3>3. PICK i \in DOMAIN g.args : p = g.args[i]
      BY <3>2 DEF Elements
    <3> DEFINE args == ArgsOf(g, normal[k])
               m == normal[k - 1][g]
    <3>4. m = NormalTerm(g, args)
      <4>1. normal[k - 1][g] = NormalTerm(g, ArgsOf(g, normal[(k - 1) + 1]))
        BY <2>0, <3>2, TermAtLevel
      <4> HIDE DEF normal
      <4> QED
        BY <2>0, <4>1
    <3>5. DOMAIN args = DOMAIN g.args /\ args[i] = normal[k][p]
      <4> HIDE DEF normal
      <4> QED
        BY <3>3 DEF ArgsOf
    <3>6. IsTerm(g)
      BY <2>0, <3>2, SubtermsAreAtLevels DEF IsExpression
    <3>7. m \in to[k - 1]
      BY <1>2, <3>2
    <3>8. normal[k][p] \in Elements(m.args)
      <4> HIDE DEF m, args, normal
      <4>1. DOMAIN m.args = DOMAIN g.args /\ \E j \in DOMAIN g.args : m.args[j] = args[i]
        BY <3>3, <3>4, <3>5, <3>6, NormalTermKeeps
      <4> QED
        BY <3>5, <4>1 DEF Elements
    <3> HIDE DEF m, normal, to
    <3> QED
      BY <3>1, <3>7, <3>8
  <2> QED
    BY <2>0, <2>1
<1>3. There = 0 .. MaxNesting
  <2>1. There \in SUBSET (0 .. MaxNesting)
    OBVIOUS
  <2> HIDE DEF There
  <2> QED
    BY <1>1, <1>2, <2>1, LevelInduction
<1> QED
  BY <1>3

(* The length of a list is where its domain ends.                            *)
LEMMA ListLength ==
    ASSUME NEW n \in Nat, NEW list, list = [i \in 1 .. n |-> list[i]]
    PROVE  Len(list) = n
<1>1. list \in Seq({list[i] : i \in 1 .. n})
  <2>1. list \in [1 .. n -> {list[i] : i \in 1 .. n}]
    OBVIOUS
  <2> QED
    BY <2>1
<1>2. Len(list) \in Nat /\ DOMAIN list = 1 .. Len(list)
  BY <1>1
<1>3. 1 .. Len(list) = 1 .. n
  BY <1>2
<1> QED
  BY <1>2, <1>3

(* What an evaluation by levels found for the arguments of a term.           *)
LEMMA ArgsOfIs ==
    ASSUME NEW p, NEW f
    PROVE  /\ DOMAIN ArgsOf(p, f) = DOMAIN p.args
           /\ \A i \in DOMAIN p.args : ArgsOf(p, f)[i] = f[p.args[i]]
           /\ ArgsOf(p, f) = [i \in DOMAIN p.args |-> ArgsOf(p, f)[i]]
  BY DEF ArgsOf

(* The operators of a valid term, and its arguments.                         *)
LEMMA ValidTermShape ==
    ASSUME NEW p, IsTerm(p), NEW f, ValidTerm(NormalTerm(p, ArgsOf(p, f)))
    PROVE  /\ p.op # "" /\ p # Zero /\ NormalTerm(p, ArgsOf(p, f)) # Zero
           /\ p.op = "literal" => ValidValue(p.value)
           /\ p.op \notin {"literal", "ref"} =>
                /\ p.op \in Unary \cup Logical \cup Binary \cup {"between"}
                /\ p.op \in Unary => DOMAIN p.args = 1 .. 1
                /\ p.op \in Binary => DOMAIN p.args = 1 .. 2
                /\ p.op = "between" => DOMAIN p.args = 1 .. 3
<1> DEFINE args == ArgsOf(p, f)
           q == NormalTerm(p, args)
<1>1. DOMAIN args = DOMAIN p.args /\ args = [i \in DOMAIN p.args |-> args[i]]
  BY ArgsOfIs, Zenon
<1> HIDE DEF args
<1>2. q.op = p.op /\ q.value = p.value /\ DOMAIN q.args = DOMAIN p.args
        /\ q.args = IF p.op \in Logical THEN SortArgs(args) ELSE args
  BY <1>1, NormalTermKeeps
<1>3. Len(q.args) = Len(p.args)
  <2>1. DOMAIN p.args = 1 .. Len(p.args) /\ Len(p.args) \in Nat
    BY DEF IsTerm, IsList
  <2>2. q.args = [i \in DOMAIN p.args |-> q.args[i]]
    <3>1. CASE p.op \in Logical
      <4>1. PICK g \in Surjection(DOMAIN args, DOMAIN args) : SortArgs(args) = [i \in DOMAIN args |-> args[g[i]]]
        BY SortedAreTheArguments
      <4>2. q.args = [i \in DOMAIN args |-> args[g[i]]]
        BY <1>2, <3>1, <4>1, Zenon
      <4>3. q.args = [i \in DOMAIN q.args |-> q.args[i]]
        BY <4>2
      <4> QED
        BY <1>2, <4>3, Zenon
    <3>2. CASE p.op \notin Logical
      BY <1>1, <1>2, <3>2, Zenon
    <3> QED
      BY <3>1, <3>2
  <2> HIDE DEF q
  <2> QED
    BY <2>1, <2>2, ListLength
<1> HIDE DEF q
<1>4. ValidTerm(q)
  BY DEF q, args
<1>5. /\ p.op # ""
      /\ p.op = "literal" => ValidValue(p.value)
      /\ p.op \notin {"literal", "ref"} => Arity(p.op, Len(p.args))
  <2>1. \/ p.op = "literal" /\ ValidValue(p.value)
        \/ p.op = "ref"
        \/ Arity(p.op, Len(p.args))
    BY <1>2, <1>3, <1>4 DEF ValidTerm
  <2>2. ~Arity("", Len(p.args)) /\ ~Arity("literal", Len(p.args))
    BY DEF Arity, Unary, Logical, Binary, Ordering, Arithmetic
  <2>3. p.op = "literal" => p.op # "ref" /\ p.op # ""
    OBVIOUS
  <2>4. p.op = "ref" => p.op # ""
    OBVIOUS
  <2> QED
    BY <2>1, <2>2, <2>3, <2>4
<1>6. p # Zero /\ q # Zero
  <2>1. Zero.op = ""
    BY DEF Zero
  <2>2. p.op # "" /\ q.op # ""
    BY <1>2, <1>5, Zenon
  <2> QED
    BY <2>1, <2>2, Zenon
<1>7. p.op \notin {"literal", "ref"} =>
        /\ p.op \in Unary \cup Logical \cup Binary \cup {"between"}
        /\ p.op \in Unary => DOMAIN p.args = 1 .. 1
        /\ p.op \in Binary => DOMAIN p.args = 1 .. 2
        /\ p.op = "between" => DOMAIN p.args = 1 .. 3
  BY <1>5 DEF IsTerm, IsList, Arity, Unary, Logical, Binary, Ordering, Arithmetic
<1> QED
  BY <1>5, <1>6, <1>7 DEF q, args

(* Blanks around a blank-free name are none.                                 *)
LEMMA TrimTwice ==
    ASSUME NEW id
    PROVE  Trim(Trim(id)) = Trim(id)
  BY TrimAssumption DEF Trim

(* Terms of one operator over the same arguments have one type: literals and *)
(* references, and, or, and all others.                                      *)
LEMMA LeafTypeSame ==
    ASSUME NEW p, NEW q, NEW args, NEW others, NEW env, p # Zero, q # Zero, p.op = q.op,
           p.op \in {"literal", "ref"}, p.value = q.value, Trim(p.ref) = Trim(q.ref)
    PROVE  TermType(p, args, env) = TermType(q, others, env)
<1>1. CASE p.op = "literal"
  BY <1>1 DEF TermType
<1>2. CASE p.op = "ref"
  BY <1>2 DEF TermType
<1> QED
  BY <1>1, <1>2

(* Conjunctions and disjunctions are of truth values (inferLogical).         *)
LEMMA JunctionTypeIs ==
    ASSUME NEW p, NEW args, NEW env, p # Zero, p.op \in Logical
    PROVE  TermType(p, args, env) =
               IF TypeError \in Elements(args) THEN TypeError
               ELSE IF \A i \in DOMAIN args : args[i].kind = "bool" THEN T("bool") ELSE TypeError
<1>1. CASE TypeError \in Elements(args)
  BY <1>1 DEF TermType, Logical, AppliedType
<1>2. CASE TypeError \notin Elements(args)
  <2>1. AppliedType(p, args) =
          IF \A i \in DOMAIN args : args[i].kind = "bool" THEN T("bool") ELSE TypeError
    <3>1. p.op \notin {"exists", "missing", "changed"} /\ p.op \in {"not"} \cup Logical
            /\ p.op \notin {"eq", "ne"} \cup Ordering \cup {"in", "between"}
      BY DEF Logical, Ordering
    <3> QED
      BY <3>1 DEF AppliedType
  <2>2. TermType(p, args, env) = AppliedType(p, args)
    BY <1>2 DEF TermType, Logical
  <2> QED
    BY <1>2, <2>1, <2>2, Zenon
<1> QED
  BY <1>1, <1>2

(* Other terms of one operator over the same arguments have one type.        *)
LEMMA TermTypeSame ==
    ASSUME NEW p, NEW q, NEW args, NEW env, p # Zero, q # Zero, p.op = q.op,
           p.op \notin {"literal", "ref"}, p.op = "changed" => p.args[1].op = q.args[1].op
    PROVE  TermType(p, args, env) = TermType(q, args, env)
<1>1. AppliedType(p, args) = AppliedType(q, args)
  BY DEF AppliedType
<1> QED
  BY <1>1 DEF TermType

(* A term has the type of its normal form, if each argument has.             *)
LEMMA NormalTermType ==
    ASSUME NEW p, IsTerm(p), NEW env, NEW normal, NEW of, NEW old,
           \A i \in DOMAIN p.args : normal[p.args[i]].op = p.args[i].op,
           ValidTerm(NormalTerm(p, ArgsOf(p, normal))),
           \A i \in DOMAIN p.args : of[normal[p.args[i]]] = old[p.args[i]]
    PROVE  LET q == NormalTerm(p, ArgsOf(p, normal))
           IN  TermType(q, ArgsOf(q, of), env) = TermType(p, ArgsOf(p, old), env)
<1> DEFINE args == ArgsOf(p, normal)
           q == NormalTerm(p, args)
           types == ArgsOf(p, old)
           same == ArgsOf(q, of)
<1>1. DOMAIN args = DOMAIN p.args /\ DOMAIN types = DOMAIN p.args
        /\ \A i \in DOMAIN p.args : args[i].op = p.args[i].op /\ of[args[i]] = types[i]
  BY ArgsOfIs
<1> HIDE DEF args, types
<1>2. /\ q.op = p.op /\ q.ref = Trim(p.ref) /\ q.value = p.value
      /\ q.args = IF p.op \in Logical THEN SortArgs(args) ELSE args
      /\ DOMAIN q.args = DOMAIN p.args
  BY <1>1, NormalTermKeeps
<1>3. /\ p # Zero /\ q # Zero
      /\ p.op \notin {"literal", "ref"} =>
           /\ p.op \in Unary \cup Logical \cup Binary \cup {"between"}
           /\ p.op \in Unary => DOMAIN p.args = 1 .. 1
  BY ValidTermShape DEF args
<1> HIDE DEF q
<1>4. DOMAIN same = DOMAIN p.args /\ \A i \in DOMAIN p.args : same[i] = of[q.args[i]]
  BY <1>2, ArgsOfIs
<1>5. Trim(q.ref) = Trim(p.ref)
  BY <1>2, TrimTwice
<1> HIDE DEF same
<1>6. CASE p.op \in {"literal", "ref"}
  <2>1. p.op = q.op /\ p.value = q.value /\ Trim(p.ref) = Trim(q.ref) /\ p # Zero /\ q # Zero
    BY <1>2, <1>3, <1>5
  <2> QED
    BY <1>6, <2>1, LeafTypeSame DEF q, same, types, args
<1>7. CASE p.op \in Logical
  <2>1. \A x : (\E i \in DOMAIN p.args : same[i] = x) <=> (\E i \in DOMAIN p.args : types[i] = x)
    <3> SUFFICES ASSUME NEW x
                 PROVE  (\E i \in DOMAIN p.args : same[i] = x) <=> (\E i \in DOMAIN p.args : types[i] = x)
      OBVIOUS
    <3>1. ASSUME NEW i \in DOMAIN p.args, same[i] = x
          PROVE  \E j \in DOMAIN p.args : types[j] = x
      <4>1. PICK j \in DOMAIN args : args[j] = SortArgs(args)[i]
        BY <1>1, SortingKeepsArguments
      <4> QED
        BY <1>1, <1>2, <1>4, <1>7, <3>1, <4>1
    <3>2. ASSUME NEW i \in DOMAIN p.args, types[i] = x
          PROVE  \E j \in DOMAIN p.args : same[j] = x
      <4>1. PICK j \in DOMAIN args : SortArgs(args)[j] = args[i]
        BY <1>1, SortingKeepsArguments
      <4> QED
        BY <1>1, <1>2, <1>4, <1>7, <3>2, <4>1
    <3> QED
      BY <3>1, <3>2
  <2>2. TypeError \in Elements(same) <=> TypeError \in Elements(types)
    BY <1>1, <1>4, <2>1 DEF Elements
  <2>3. (\A i \in DOMAIN same : same[i].kind = "bool") <=> (\A i \in DOMAIN types : types[i].kind = "bool")
    <3>1. ASSUME \A i \in DOMAIN p.args : same[i].kind = "bool", NEW i \in DOMAIN p.args
          PROVE  types[i].kind = "bool"
      <4>1. PICK j \in DOMAIN p.args : same[j] = types[i]
        BY <2>1
      <4> QED
        BY <3>1, <4>1
    <3>2. ASSUME \A i \in DOMAIN p.args : types[i].kind = "bool", NEW i \in DOMAIN p.args
          PROVE  same[i].kind = "bool"
      <4>1. PICK j \in DOMAIN p.args : types[j] = same[i]
        BY <2>1
      <4> QED
        BY <3>2, <4>1
    <3> QED
      BY <1>1, <1>4, <3>1, <3>2
  <2>4. p # Zero /\ q # Zero /\ q.op \in Logical
    BY <1>2, <1>3, <1>7
  <2> QED
    BY <1>7, <2>2, <2>3, <2>4, JunctionTypeIs DEF q, same, types, args
<1>8. CASE p.op \notin {"literal", "ref"} \cup Logical
  <2>1. q.args = args
    BY <1>2, <1>8
  <2>2. same = types
    <3>1. same = [i \in DOMAIN q.args |-> same[i]] /\ types = [i \in DOMAIN p.args |-> types[i]]
      BY ArgsOfIs, Zenon DEF same, types
    <3>2. \A i \in DOMAIN p.args : same[i] = types[i]
      BY <1>1, <1>4, <2>1
    <3> QED
      BY <1>2, <3>1, <3>2
  <2>3. p.op = "changed" => q.args[1].op = p.args[1].op
    <3>1. p.op = "changed" => 1 \in DOMAIN p.args
      BY <1>3, <1>8 DEF Unary
    <3> QED
      BY <1>1, <2>1, <3>1
  <2>4. p # Zero /\ q # Zero /\ p.op = q.op /\ p.op \notin {"literal", "ref"}
    BY <1>2, <1>3, <1>8
  <2>5. TermType(p, types, env) = TermType(q, types, env)
    BY <2>3, <2>4, TermTypeSame
  <2> QED
    BY <2>2, <2>5 DEF q, same, types, args
<1> QED
  BY <1>6, <1>7, <1>8 DEF q, same, types, args

(* A valid normal form has the types of the expression it is made from, term *)
(* by term.                                                                  *)
LEMMA NormalKeepsTypes ==
    ASSUME NEW e, IsExpression(e), \A n \in Subterms(NormalExpr(e)) : ValidTerm(n), NEW env
    PROVE  \A k \in 0 .. MaxNesting : \A p \in TermsAt(e)[k] :
               TypesAt(NormalExpr(e), env)[k][NormalTermsAt(e)[k][p]] = TypesAt(e, env)[k][p]
<1> DEFINE at == TermsAt(e)
           normal == NormalTermsAt(e)
           new == TypesAt(NormalExpr(e), env)
           old == TypesAt(e, env)
           Reached == {k \in 0 .. MaxNesting : \A p \in at[k] : new[k][normal[k][p]] = old[k][p]}
<1>1. ASSUME NEW k \in 0 .. MaxNesting, k = MaxNesting \/ k + 1 \in Reached
      PROVE  k \in Reached
  <2>1. ASSUME NEW p \in at[k]
        PROVE  new[k][normal[k][p]] = old[k][p]
    <3>1. normal[k][p] = NormalTerm(p, ArgsOf(p, normal[k + 1]))
            /\ old[k][p] = TermType(p, ArgsOf(p, old[k + 1]), env)
      BY TermAtLevel
    <3>2. normal[k][p] \in TermsAt(NormalExpr(e))[k]
      BY NormalTermsAreThere
    <3>3. new[k][normal[k][p]] = TermType(normal[k][p], ArgsOf(normal[k][p], new[k + 1]), env)
      BY <3>2, TermAtLevel
    <3>4. IsTerm(p) /\ ValidTerm(normal[k][p])
      BY <3>2, SubtermsAreAtLevels DEF IsExpression
    <3>5. ASSUME NEW i \in DOMAIN p.args
          PROVE  /\ normal[k + 1][p.args[i]].op = p.args[i].op
                 /\ new[k + 1][normal[k + 1][p.args[i]]] = old[k + 1][p.args[i]]
      <4>1. k + 1 \in 0 .. MaxNesting /\ k # MaxNesting /\ p.args[i] \in at[k + 1]
        BY ArgumentsBelow
      <4>2. new[k + 1][normal[k + 1][p.args[i]]] = old[k + 1][p.args[i]]
        BY <1>1, <4>1
      <4>3. IsTerm(p.args[i])
        BY <4>1, SubtermsAreAtLevels DEF IsExpression
      <4> DEFINE h == p.args[i]
                 inner == ArgsOf(h, normal[k + 2])
      <4>4. normal[k + 1][h] = NormalTerm(h, inner)
        <5>1. normal[k + 1][h] = NormalTerm(h, ArgsOf(h, normal[(k + 1) + 1]))
          BY <4>1, TermAtLevel
        <5>2. (k + 1) + 1 = k + 2
          OBVIOUS
        <5> HIDE DEF normal, h
        <5> QED
          BY <5>1, <5>2
      <4>5. normal[k + 1][h].op = h.op
        <5>1. DOMAIN inner = DOMAIN h.args
          BY ArgsOfIs
        <5> HIDE DEF inner, normal
        <5> QED
          BY <4>3, <4>4, <5>1, NormalTermKeeps
      <4> QED
        BY <4>2, <4>5
    <3>6. ValidTerm(NormalTerm(p, ArgsOf(p, normal[k + 1])))
      BY <3>1, <3>4
    <3> DEFINE q == NormalTerm(p, ArgsOf(p, normal[k + 1]))
    <3>7. TermType(q, ArgsOf(q, new[k + 1]), env) = TermType(p, ArgsOf(p, old[k + 1]), env)
      <4> HIDE DEF new, old, normal
      <4> QED
        BY <3>4, <3>5, <3>6, NormalTermType
    <3> QED
      <4> HIDE DEF new, old, normal
      <4> QED
        BY <3>1, <3>3, <3>7
  <2> QED
    BY <2>1
<1>2. Reached = 0 .. MaxNesting
  <2>1. Reached \in SUBSET (0 .. MaxNesting)
    OBVIOUS
  <2> HIDE DEF Reached
  <2> QED
    BY <1>1, <2>1, LevelDescent
<1> QED
  BY <1>2

(* What a type promises of a value: its kind, up to the kinds of number.     *)
Promised(t, v) == ValidType(t) /\ Sort(t) = Sort(v.type)

(* A promised number is a number, a promised truth value is one, and neither *)
(* a type error nor a failed evaluation promises anything.                   *)
LEMMA PromisesKept ==
    ASSUME NEW t, NEW v, Promised(t, v)
    PROVE  /\ t.kind \in NumberKinds => IsNumber(v)
           /\ t.kind = "bool" => IsTruth(v)
           /\ t # TypeError /\ v # EvalError
<1>1. t.kind \in NumberKinds => Sort(t) = "int"
  BY DEF Sort
<1>2. Sort(v.type) = "int" => v.type.kind \in NumberKinds
  BY DEF Sort, NumberKinds
<1>3. t.kind = "bool" => Sort(t) = "bool"
  BY DEF Sort, NumberKinds, Quantities, CanonicalUnit
<1>4. Sort(v.type) = "bool" => v.type.kind = "bool"
  BY DEF Sort
<1>5. t.kind # "error" /\ Sort(t) # "error"
  BY DEF Promised, ValidType, Plain, Described, Quantities, CanonicalUnit, Sort
<1>6. TypeError.kind = "error" /\ Sort(TypeError) = "error" /\ EvalError.type = TypeError
  BY DEF TypeError, Sort, NumberKinds, Quantities, CanonicalUnit, EvalError, Text
<1>7. t # TypeError /\ v # EvalError
  BY <1>5, <1>6 DEF Promised
<1> QED
  BY <1>1, <1>2, <1>3, <1>4, <1>7 DEF Promised, IsNumber, IsTruth

(* The kinds an operator returns are promised of what it computes.           *)
LEMMA ResultsKept ==
    /\ \A v : Promised(T("bool"), Bool(v))
    /\ \A text : Promised(T("string"), Text(T("string"), text))
    /\ \A kind \in {"int", "float"} : \A n : Representable(n) => Promised(T(kind), Number(n))
    /\ \A t, n : ValidType(t) /\ t.kind \in NumberKinds /\ Representable(n) => Promised(t, Number(n))
<1>1. \A kind : T(kind).kind = kind /\ T(kind).of = "" /\ T(kind).unit = T(T(kind).kind).unit
  BY DEF T
<1>2. \A kind \in {"bool", "string", "int", "float"} : ValidType(T(kind))
  BY <1>1 DEF ValidType, Plain, Described, Quantities, CanonicalUnit
<1>3. \A v : Bool(v).type = T("bool")
  BY DEF Bool, Text
<1>4. \A text : Text(T("string"), text).type = T("string")
  BY DEF Text
<1>5. \A n : Representable(n) => Sort(Number(n).type) = "int"
  BY <1>1 DEF Number, Sort, NumberKinds
<1>6. \A kind \in {"int", "float"} : Sort(T(kind)) = "int"
  BY <1>1 DEF Sort, NumberKinds
<1>7. \A t : t.kind \in NumberKinds => Sort(t) = "int"
  BY DEF Sort
<1> QED
  BY <1>2, <1>3, <1>4, <1>5, <1>6, <1>7 DEF Promised

(* and, or over truth values have one.                                       *)
LEMMA JunctionKeeps ==
    ASSUME NEW n \in Nat, NEW vals, DOMAIN vals = 1 .. n, \A i \in 1 .. n : IsTruth(vals[i]),
           NEW unit
    PROVE  Promised(T("bool"), Junction(vals, unit))
<1> DEFINE Other == {i \in 1 .. n : vals[i] # Bool(unit)}
           Deciding(i) == i \in DOMAIN vals /\ vals[i] # Bool(unit) /\ \A j \in 1 .. (i - 1) : vals[j] = Bool(unit)
           first == CHOOSE i \in DOMAIN vals : vals[i] # Bool(unit) /\ \A j \in 1 .. (i - 1) : vals[j] = Bool(unit)
<1>1. CASE \A i \in DOMAIN vals : vals[i] = Bool(unit)
  <2>1. Junction(vals, unit) = Bool(unit)
    BY <1>1 DEF Junction
  <2> QED
    BY <2>1, ResultsKept
<1>2. CASE ~\A i \in DOMAIN vals : vals[i] = Bool(unit)
  <2>1. Other \in SUBSET Nat /\ Other # {}
    BY <1>2
  <2>2. PICK m \in Other : \A y \in Other : m <= y
    BY <2>1, LevelLeast
  <2>3. m \in DOMAIN vals /\ vals[m] # Bool(unit) /\ \A j \in 1 .. (m - 1) : vals[j] = Bool(unit)
    <3>1. ASSUME NEW j \in 1 .. (m - 1)
          PROVE  vals[j] = Bool(unit)
      <4>1. j \in 1 .. n /\ ~(m <= j)
        BY <2>2
      <4> QED
        BY <2>2, <4>1
    <3> QED
      BY <2>2, <3>1
  <2>4. first \in DOMAIN vals
    BY <2>3
  <2>5. Junction(vals, unit) = IF IsTruth(vals[first]) THEN vals[first] ELSE EvalError
    BY <1>2 DEF Junction
  <2> HIDE DEF first
  <2>6. IsTruth(vals[first]) /\ Junction(vals, unit) = vals[first]
    BY <2>4, <2>5
  <2>7. Sort(vals[first].type) = "bool" /\ Sort(T("bool")) = "bool"
    BY <2>6 DEF IsTruth, Sort, T, NumberKinds, Quantities, CanonicalUnit
  <2>8. ValidType(T("bool"))
    BY ResultsKept DEF Promised
  <2> QED
    BY <2>6, <2>7, <2>8 DEF Promised
<1> QED
  BY <1>1, <1>2

(* The checker's kind of an arithmetic result is the evaluator's.            *)
LEMMA ArithmeticKeeps ==
    ASSUME NEW op \in Arithmetic, NEW t, NEW u, NEW v, NEW w, Promised(t, v), Promised(u, w),
           ArithmeticResult(op, t, u) # TypeError,
           ~NoResult(op, v, w)
    PROVE  Promised(ArithmeticResult(op, t, u), Calculate(op, v, w))
<1>1. CASE op = "add" /\ {t.kind, u.kind} = {"string"}
  <2>1. ArithmeticResult(op, t, u) = T("string")
    BY <1>1 DEF ArithmeticResult, Quantities, CanonicalUnit
  <2>2. v.type.kind = "string" /\ w.type.kind = "string"
    <3>1. t.kind = "string" /\ u.kind = "string"
      BY <1>1
    <3>2. \A x : x.kind = "string" => Sort(x) = "string"
      BY DEF Sort, NumberKinds, Quantities, CanonicalUnit
    <3>3. \A x : Sort(x) = "string" => x.kind = "string"
      BY DEF Sort
    <3> QED
      BY <3>1, <3>2, <3>3 DEF Promised
  <2>3. ~IsNumber(v)
    BY <2>2 DEF IsNumber, NumberKinds, Quantities, CanonicalUnit
  <2>4. Calculate(op, v, w) = Text(T("string"), v.text \o w.text)
    BY <1>1, <2>2, <2>3 DEF Calculate
  <2> QED
    BY <2>1, <2>4, ResultsKept
<1>2. CASE ~(op = "add" /\ {t.kind, u.kind} = {"string"})
  <2> DEFINE r == ArithmeticResult(op, t, u)
  <2>1. /\ t.kind \in NumberKinds /\ u.kind \in NumberKinds
        /\ r \in {T("int"), T("float")} \/ r = t
    <3>1. CASE {t.kind, u.kind} = {"int"}
      <4>1. r \in {T("int"), T("float")}
        BY <1>2, <3>1 DEF ArithmeticResult, Quantities, CanonicalUnit
      <4> QED
        BY <3>1, <4>1 DEF NumberKinds
    <3>2. CASE "float" \in {t.kind, u.kind} /\ {t.kind, u.kind} \subseteq {"int", "float"}
      <4>1. t.kind \notin Quantities /\ {t.kind, u.kind} # {"int"}
        BY <3>2 DEF Quantities, CanonicalUnit
      <4>2. r = T("float")
        BY <1>2, <3>2, <4>1 DEF ArithmeticResult
      <4> QED
        BY <3>2, <4>2 DEF NumberKinds
    <3>3. CASE {t.kind, u.kind} # {"int"} /\ ~("float" \in {t.kind, u.kind} /\ {t.kind, u.kind} \subseteq {"int", "float"})
      <4>1. t.kind \in Quantities /\ Compatible(t, u) /\ r = t
        BY <1>2, <3>3 DEF ArithmeticResult
      <4> QED
        BY <4>1 DEF Compatible, NumberKinds
    <3> QED
      BY <3>1, <3>2, <3>3
  <2>2. IsNumber(v) /\ IsNumber(w)
    BY <2>1, PromisesKept
  <2>3. v.type.kind # "string"
    BY <2>2 DEF IsNumber, NumberKinds, Quantities, CanonicalUnit
  <2> DEFINE result == Result(op, v.num, w.num)
  <2>4. Calculate(op, v, w) = Number(result) /\ Representable(result)
    BY <2>2, <2>3 DEF Calculate, NoResult
  <2>5. ValidType(t)
    BY DEF Promised
  <2> HIDE DEF r, result
  <2> QED
    BY <2>1, <2>4, <2>5, ResultsKept DEF r
<1> QED
  BY <1>1, <1>2

(* An operator applied to values that keep what their types promise.         *)
LEMMA ApplicationKeeps ==
    ASSUME NEW p, NEW n \in Nat, NEW types, NEW vals, DOMAIN types = 1 .. n, DOMAIN vals = 1 .. n,
           p.op \in Unary \cup Binary \cup {"between"}, p.op \notin {"exists", "missing", "in", "changed"},
           p.op \in Unary => n = 1, p.op \in Binary => n = 2, p.op = "between" => n = 3,
           \A i \in 1 .. n : Promised(types[i], vals[i]),
           p.op \in Arithmetic => ~NoResult(p.op, vals[1], vals[2]),
           p.op \in Ordering \cup {"between"} => types[1].kind \in NumberKinds,
           AppliedType(p, types) # TypeError
    PROVE  Promised(AppliedType(p, types), AppliedValue(p.op, vals))
<1>1. \A v : Promised(T("bool"), Bool(v))
  BY ResultsKept
<1>2. CASE p.op = "not"
  <2>1. 1 \in 1 .. n
    BY <1>2 DEF Unary
  <2>2. AppliedType(p, types) = IF \A i \in DOMAIN types : types[i].kind = "bool" THEN T("bool") ELSE TypeError
    BY <1>2 DEF AppliedType, Ordering
  <2>3. types[1].kind = "bool" /\ AppliedType(p, types) = T("bool")
    BY <2>1, <2>2
  <2>4. IsTruth(vals[1])
    BY <2>1, <2>3, PromisesKept
  <2>5. AppliedValue(p.op, vals) = Bool(vals[1] = Bool(FALSE))
    BY <1>2, <2>4 DEF AppliedValue, Ordering, Arithmetic
  <2> QED
    BY <1>1, <2>3, <2>5
<1>3. CASE p.op \in {"eq", "ne"}
  <2>1. AppliedType(p, types) = IF Compatible(types[1], types[2]) THEN T("bool") ELSE TypeError
    BY <1>3 DEF AppliedType, Ordering, Logical
  <2>2. AppliedValue(p.op, vals) = Bool(SameData(vals[1], vals[2]) <=> (p.op = "eq"))
    BY <1>3 DEF AppliedValue, Ordering, Arithmetic
  <2> QED
    BY <1>1, <2>1, <2>2
<1>4. CASE p.op \in Ordering
  <2>0. n = 2 /\ 1 \in 1 .. n /\ 2 \in 1 .. n
    BY <1>4 DEF Binary
  <2>1. AppliedType(p, types) =
          IF Compatible(types[1], types[2]) /\ Ordered(types[1]) THEN T("bool") ELSE TypeError
    BY <1>4 DEF AppliedType, Ordering, Logical
  <2>2. types[2] = types[1] /\ AppliedType(p, types) = T("bool")
    BY <2>1 DEF Compatible
  <2>3. IsNumber(vals[1]) /\ IsNumber(vals[2])
    BY <1>4, <2>0, <2>2, PromisesKept
  <2>4. AppliedValue(p.op, vals) = Bool(Compare(p.op, vals[1].num, vals[2].num))
    BY <1>4, <2>3 DEF AppliedValue, Ordering, Arithmetic
  <2> QED
    BY <1>1, <2>2, <2>4
<1>5. CASE p.op = "between"
  <2>0. n = 3 /\ \A i \in 1 .. 3 : i \in 1 .. n /\ (i = 1 \/ i = 2 \/ i = 3)
    BY <1>5
  <2>1. AppliedType(p, types) =
          IF Ordered(types[1]) /\ Compatible(types[1], types[2]) /\ Compatible(types[1], types[3])
          THEN T("bool") ELSE TypeError
    BY <1>5 DEF AppliedType, Ordering, Logical
  <2>2. types[2] = types[1] /\ types[3] = types[1] /\ AppliedType(p, types) = T("bool")
    BY <2>1 DEF Compatible
  <2>3. \A i \in 1 .. 3 : IsNumber(vals[i])
    BY <1>5, <2>0, <2>2, PromisesKept
  <2>4. AppliedValue(p.op, vals) =
          Bool(~Less(vals[1].num, vals[2].num) /\ ~Less(vals[3].num, vals[1].num))
    BY <1>5, <2>3 DEF AppliedValue, Ordering, Arithmetic
  <2> QED
    BY <1>1, <2>2, <2>4
<1>6. CASE p.op \in Arithmetic
  <2>0. n = 2 /\ 1 \in 1 .. n /\ 2 \in 1 .. n
    BY <1>6 DEF Binary
  <2>1. AppliedType(p, types) = ArithmeticResult(p.op, types[1], types[2])
    BY <1>6 DEF AppliedType, Ordering, Logical, Arithmetic
  <2>2. AppliedValue(p.op, vals) = Calculate(p.op, vals[1], vals[2])
    BY <1>6 DEF AppliedValue, Ordering, Arithmetic
  <2>3. Promised(types[1], vals[1]) /\ Promised(types[2], vals[2])
    BY <2>0
  <2> QED
    BY <1>6, <2>1, <2>2, <2>3, ArithmeticKeeps
<1> QED
  BY <1>2, <1>3, <1>4, <1>5, <1>6 DEF Unary, Binary

(* A term whose arguments keep what their types promise keeps it too, unless *)
(* it has one of the causes to fail.                                         *)
LEMMA TermKeeps ==
    ASSUME NEW p, NEW n \in Nat, NEW types, NEW vals, NEW env, NEW run,
           DOMAIN types = 1 .. n, DOMAIN vals = 1 .. n, p # Zero,
           p.op \in {"literal", "ref"} \cup Unary \cup Logical \cup Binary \cup {"between"},
           p.op = "literal" => ValidValue(p.value),
           p.op \in Unary => n = 1, p.op \in Binary => n = 2, p.op = "between" => n = 3,
           \A i \in 1 .. n : types[i] # TypeError => Promised(types[i], vals[i]),
           ~UncoveredTerm(p, types, vals, env, run), TermType(p, types, env) # TypeError
    PROVE  Promised(TermType(p, types, env), TermValue(p, vals, run))
<1>1. CASE p.op = "literal"
  <2>1. TermType(p, types, env) = p.value.type /\ TermValue(p, vals, run) = p.value
    BY <1>1 DEF TermType, TermValue, Logical
  <2>2. ValidType(p.value.type)
    BY <1>1 DEF ValidValue
  <2> QED
    BY <2>1, <2>2 DEF Promised
<1>2. CASE p.op = "ref"
  <2> DEFINE r == Trim(p.ref)
  <2>1. r \in DOMAIN env /\ ValidType(env[r]) /\ TermType(p, types, env) = env[r]
    BY <1>2 DEF TermType
  <2>2. r \in DOMAIN run /\ Sort(run[r].type) = Sort(env[r])
    BY <1>2 DEF UncoveredTerm
  <2>3. TermValue(p, vals, run) = run[r]
    BY <1>2, <2>2 DEF TermValue, Logical
  <2> QED
    BY <2>1, <2>2, <2>3 DEF Promised
<1>3. CASE p.op \notin {"literal", "ref"}
  <2>1. TypeError \notin Elements(types) /\ TermType(p, types, env) = AppliedType(p, types)
    BY <1>3 DEF TermType
  <2>2. \A i \in 1 .. n : Promised(types[i], vals[i])
    BY <2>1 DEF Elements
  <2>3. EvalError \notin Elements(vals)
    BY <2>2, PromisesKept DEF Elements
  <2>4. CASE p.op \in {"exists", "missing"}
    <3>1. AppliedType(p, types) = T("bool")
      BY <2>4 DEF AppliedType, Logical, Ordering
    <3>2. \E v : TermValue(p, vals, run) = Bool(v)
      BY <2>4 DEF TermValue, Logical
    <3> QED
      BY <2>1, <3>1, <3>2, ResultsKept
  <2>5. CASE p.op \in Logical
    <3>1. AppliedType(p, types) = IF \A i \in DOMAIN types : types[i].kind = "bool" THEN T("bool") ELSE TypeError
      BY <2>5 DEF AppliedType, Logical, Ordering
    <3>2. \A i \in 1 .. n : IsTruth(vals[i])
      BY <2>1, <2>2, <3>1, PromisesKept
    <3>3. TermValue(p, vals, run) = Junction(vals, p.op = "and")
      BY <2>5 DEF TermValue, Logical
    <3> QED
      BY <2>1, <3>1, <3>2, <3>3, JunctionKeeps
  <2>6. CASE p.op \notin {"exists", "missing"} \cup Logical
    <3>1. TermValue(p, vals, run) = AppliedValue(p.op, vals)
      BY <1>3, <2>3, <2>6 DEF TermValue
    <3>2. p.op \notin {"in", "changed"}
      BY DEF UncoveredTerm
    <3>3. p.op \in Arithmetic => ~NoResult(p.op, vals[1], vals[2])
      BY DEF UncoveredTerm
    <3>4. p.op \in Ordering \cup {"between"} => types[1].kind \in NumberKinds
      BY DEF UncoveredTerm
    <3>5. p.op \in Unary \cup Binary \cup {"between"}
      BY <1>3, <2>6
    <3>6. Promised(AppliedType(p, types), AppliedValue(p.op, vals))
      BY <2>1, <2>2, <2>6, <3>2, <3>3, <3>4, <3>5, ApplicationKeeps
    <3> QED
      BY <2>1, <3>1, <3>6
  <2> QED
    BY <2>4, <2>5, <2>6
<1> QED
  BY <1>1, <1>2, <1>3

(* Every term of an expression that compiles keeps what its type promises,   *)
(* unless some term has one of the causes to fail.                           *)
LEMMA ExpressionKeeps ==
    ASSUME NEW e, IsExpression(e), \A n \in Subterms(NormalExpr(e)) : ValidTerm(n),
           NEW env, NEW run, ~Uncovered(e, env, run)
    PROVE  \A k \in 0 .. MaxNesting : \A p \in TermsAt(e)[k] :
               TypesAt(e, env)[k][p] # TypeError =>
                   Promised(TypesAt(e, env)[k][p], ValuesAt(e, run)[k][p])
<1> DEFINE at == TermsAt(e)
           normal == NormalTermsAt(e)
           type == TypesAt(e, env)
           val == ValuesAt(e, run)
           Kept(k, p) == type[k][p] # TypeError => Promised(type[k][p], val[k][p])
           Reached == {k \in 0 .. MaxNesting : \A p \in at[k] : Kept(k, p)}
<1>1. ASSUME NEW k \in 0 .. MaxNesting, k = MaxNesting \/ k + 1 \in Reached
      PROVE  k \in Reached
  <2>1. ASSUME NEW p \in at[k], type[k][p] # TypeError
        PROVE  Promised(type[k][p], val[k][p])
    <3> DEFINE types == ArgsOf(p, type[k + 1])
               vals == ArgsOf(p, val[k + 1])
               n == Len(p.args)
    <3>1. type[k][p] = TermType(p, types, env) /\ val[k][p] = TermValue(p, vals, run)
      BY TermAtLevel
    <3>2. IsTerm(p)
      BY SubtermsAreAtLevels DEF IsExpression
    <3>3. ValidTerm(NormalTerm(p, ArgsOf(p, normal[k + 1])))
      <4>1. normal[k][p] = NormalTerm(p, ArgsOf(p, normal[k + 1]))
        BY TermAtLevel
      <4>2. normal[k][p] \in Subterms(NormalExpr(e))
        BY NormalTermsAreThere, SubtermsAreAtLevels
      <4> HIDE DEF normal
      <4> QED
        BY <4>1, <4>2
    <3>4. n \in Nat /\ DOMAIN p.args = 1 .. n
      BY <3>2 DEF IsTerm, IsList
    <3>5. DOMAIN types = 1 .. n /\ DOMAIN vals = 1 .. n
      BY <3>4, ArgsOfIs
    <3>6. ASSUME NEW i \in 1 .. n, types[i] # TypeError
          PROVE  Promised(types[i], vals[i])
      <4>1. k + 1 \in 0 .. MaxNesting /\ k # MaxNesting /\ p.args[i] \in at[k + 1]
        BY <3>4, ArgumentsBelow
      <4>2. types[i] = type[k + 1][p.args[i]] /\ vals[i] = val[k + 1][p.args[i]]
        BY <3>4, ArgsOfIs
      <4>3. Kept(k + 1, p.args[i])
        BY <1>1, <4>1
      <4> HIDE DEF types, vals, type, val
      <4> QED
        BY <3>6, <4>2, <4>3
    <3>7. ~UncoveredTerm(p, types, vals, env, run)
      BY DEF Uncovered
    <3>8. /\ p # Zero
          /\ p.op = "literal" => ValidValue(p.value)
          /\ p.op \notin {"literal", "ref"} =>
               /\ p.op \in Unary \cup Logical \cup Binary \cup {"between"}
               /\ p.op \in Unary => DOMAIN p.args = 1 .. 1
               /\ p.op \in Binary => DOMAIN p.args = 1 .. 2
               /\ p.op = "between" => DOMAIN p.args = 1 .. 3
      BY <3>2, <3>3, ValidTermShape
    <3>9. /\ p.op \in {"literal", "ref"} \cup Unary \cup Logical \cup Binary \cup {"between"}
          /\ p.op \in Unary => n = 1
          /\ p.op \in Binary => n = 2
          /\ p.op = "between" => n = 3
      <4>1. \A m \in {1, 2, 3} : 1 .. n = 1 .. m => n = m
        BY <3>4
      <4>2. p.op \in Unary \cup Binary \cup {"between"} => p.op \notin {"literal", "ref"}
        BY DEF Unary, Binary, Ordering, Arithmetic
      <4> HIDE DEF n
      <4> QED
        BY <3>4, <3>8, <4>1, <4>2
    <3> HIDE DEF types, vals, n, type, val
    <3>10. Promised(TermType(p, types, env), TermValue(p, vals, run))
      BY <2>1, <3>1, <3>4, <3>5, <3>6, <3>7, <3>8, <3>9, TermKeeps
    <3> QED
      BY <3>1, <3>10
  <2> QED
    BY <2>1
<1>2. Reached = 0 .. MaxNesting
  <2>1. Reached \in SUBSET (0 .. MaxNesting)
    OBVIOUS
  <2> HIDE DEF Reached
  <2> QED
    BY <1>1, <2>1, LevelDescent
<1> QED
  BY <1>2

(* A condition that compiles evaluates in the dry run, unless it has one of  *)
(* the causes to fail (expression.go:CheckExpr, evaluator.go:Evaluate).      *)
THEOREM CheckedConditionsEvaluateHolds == CompileSpec => []CheckedConditionsEvaluate
<1>1. EditorInv => CheckedConditionsEvaluate
  <2> SUFFICES ASSUME EditorInv, Good, trial # Undone, trial.result.outcome = "CONDITION_ERROR",
                      ~Uncovered(doc.condition, BuildTypeEnvironment(Normal(doc), reg),
                                 RuntimeEnv(doc, trial.ctx))
               PROVE  FALSE
    BY DEF CheckedConditionsEvaluate
  <2> DEFINE d == Normal(doc)
             e == doc.condition
             env == BuildTypeEnvironment(d, reg)
             run == RuntimeEnv(doc, trial.ctx)
  <2>1. doc \in Documents /\ compiled = Compile(doc, reg)
    BY DEF EditorInv, Good
  <2>2. Normalizes(doc) /\ compiled = CompileNormal(d, reg)
    BY GoodIsNormal
  <2>3. d.condition = NormalExpr(e) /\ NormalExpr(e) # Zero
    BY DEF Normal, Uncovered
  <2>4. \A n \in Subterms(NormalExpr(e)) : ValidTerm(n)
    BY <2>2, <2>3 DEF Normalizes, Valid, ValidExpr
  <2>5. IsExpression(e)
    BY <2>1, DocumentsAssumption DEF IsDocument, IsExpression
  <2>6. IsBool(NormalExpr(e), env)
    <3>1. compiled.diags = ResolveCapabilities(d, reg).diags \cup StaticConflictAnalysis(d) \cup
                             TypeCheckScenario(d, env, ResolveCapabilities(d, reg).descriptors)
      BY <2>2 DEF CompileNormal
    <3>2. ~IsBool(NormalExpr(e), env) =>
             Error("type_mismatch") \in TypeCheckScenario(d, env, ResolveCapabilities(d, reg).descriptors)
      <4> HIDE DEF env, d
      <4> QED
        BY <2>3 DEF TypeCheckScenario, If
    <3>3. Error("type_mismatch").severity = "error"
      BY DEF Error
    <3> HIDE DEF env, d
    <3> QED
      BY <3>1, <3>2, <3>3 DEF Good, HasErrors
  <2>7. TypesAt(NormalExpr(e), env)[0][NormalExpr(e)].kind = "bool"
    BY <2>3, <2>4, <2>6 DEF IsBool, CheckExpr, ValidExpr, TypeOf
  <2>8. 0 \in 0 .. MaxNesting /\ e \in TermsAt(e)[0] /\ NormalExpr(e) = NormalTermsAt(e)[0][e]
    BY NestingAssumption, TermsAtIs DEF NormalExpr
  <2> HIDE DEF env, run, e
  <2>9. TypesAt(e, env)[0][e].kind = "bool"
    <3> DEFINE n == NormalExpr(e)
    <3>1. TypesAt(n, env)[0][NormalTermsAt(e)[0][e]] = TypesAt(e, env)[0][e]
      BY <2>4, <2>5, <2>8, NormalKeepsTypes
    <3>2. n = NormalTermsAt(e)[0][e]
      BY <2>8
    <3>3. TypesAt(n, env)[0][n].kind = "bool"
      BY <2>7
    <3> HIDE DEF n
    <3>4. TypesAt(n, env)[0][n] = TypesAt(e, env)[0][e]
      BY <3>1, <3>2
    <3> QED
      BY <3>3, <3>4
  <2>10. TypesAt(e, env)[0][e] # TypeError
    <3>1. TypeError.kind = "error"
      BY DEF TypeError
    <3>2. "bool" # "error"
      OBVIOUS
    <3> QED
      BY <2>9, <3>1, <3>2, Zenon
  <2>11. ~Uncovered(e, env, run)
    BY DEF e, env, run
  <2>12. Promised(TypesAt(e, env)[0][e], ValuesAt(e, run)[0][e])
    BY <2>4, <2>5, <2>8, <2>10, <2>11, ExpressionKeeps
  <2>13. ~Fails(e, run)
    BY <2>9, <2>12, PromisesKept DEF Fails, Evaluate
  <2>14. trial.result = Simulate(doc, trial.ctx, reg)
    BY DEF EditorInv
  <2>15. trial.result.outcome # "CONDITION_ERROR"
    BY <2>13, <2>14 DEF Simulate, Ended, e, run
  <2> QED
    BY <2>15
<1> QED
  BY <1>1, EditorInvHolds, PTL

-----------------------------------------------------------------------------
(* Sequences of whatever they hold.                                          *)
IsSeq(u) == u \in Seq(Elements(u))

(* A function on the first numbers is a sequence.                            *)
LEMMA SequenceIs ==
    ASSUME NEW n \in Nat, NEW u, u = [i \in 1 .. n |-> u[i]]
    PROVE  IsSeq(u) /\ Len(u) = n
<1>1. u \in [1 .. n -> Elements(u)]
  <2>1. DOMAIN u = 1 .. n
    BY Zenon
  <2>2. \A i \in 1 .. n : u[i] \in Elements(u)
    BY <2>1 DEF Elements
  <2> QED
    BY <2>2
<1>2. IsSeq(u)
  BY <1>1 DEF IsSeq
<1> QED
  BY <1>2, ListLength

(* Two sequences joined: the first, then the second.                         *)
LEMMA JoinIs ==
    ASSUME NEW u, NEW v, IsSeq(u), IsSeq(v)
    PROVE  /\ Len(u) \in Nat /\ DOMAIN u = 1 .. Len(u)
           /\ Len(v) \in Nat /\ DOMAIN v = 1 .. Len(v)
           /\ IsSeq(u \o v) /\ Len(u \o v) = Len(u) + Len(v)
           /\ \A i \in 1 .. Len(u) : (u \o v)[i] = u[i]
           /\ \A i \in 1 .. Len(v) : (u \o v)[Len(u) + i] = v[i]
<1> DEFINE S == Elements(u) \cup Elements(v)
<1>1. u \in Seq(S) /\ v \in Seq(S)
  BY DEF IsSeq
<1> HIDE DEF S
<1>2. /\ u \o v \in Seq(S) /\ Len(u \o v) = Len(u) + Len(v)
      /\ \A i \in 1 .. Len(u) + Len(v) : (u \o v)[i] = IF i <= Len(u) THEN u[i] ELSE v[i - Len(u)]
  BY <1>1, ConcatProperties
<1>3. Len(u) \in Nat /\ DOMAIN u = 1 .. Len(u) /\ Len(v) \in Nat /\ DOMAIN v = 1 .. Len(v)
  BY <1>1
<1>4. \A i \in 1 .. Len(u) : (u \o v)[i] = u[i]
  BY <1>2, <1>3
<1>5. ASSUME NEW i \in 1 .. Len(v)
      PROVE  (u \o v)[Len(u) + i] = v[i]
  <2>1. Len(u) + i \in 1 .. Len(u) + Len(v) /\ ~(Len(u) + i <= Len(u)) /\ Len(u) + i - Len(u) = i
    BY <1>3
  <2> QED
    BY <1>2, <2>1
<1>6. IsSeq(u \o v)
  <2> DEFINE c == u \o v
             n == Len(c)
  <2>1. n \in Nat /\ c = [i \in 1 .. n |-> c[i]]
    <3>1. c \in Seq(S)
      BY <1>2
    <3> HIDE DEF c
    <3> QED
      BY <3>1
  <2> HIDE DEF c, n
  <2>2. IsSeq(c)
    BY <2>1, SequenceIs
  <2> QED
    BY <2>2 DEF c
<1> QED
  BY <1>2, <1>3, <1>4, <1>5, <1>6

(* What holds of 0, and of each number up to n if of the one before, holds   *)
(* of all.                                                                   *)
LEMMA PrefixInduction ==
    ASSUME NEW n \in Nat, NEW Reached \in SUBSET (0 .. n), 0 \in Reached,
           \A k \in 1 .. n : k - 1 \in Reached => k \in Reached
    PROVE  Reached = 0 .. n
<1> DEFINE Missing == (0 .. n) \ Reached
<1>1. ASSUME Missing # {}
      PROVE  FALSE
  <2>1. Missing \in SUBSET Nat
    OBVIOUS
  <2>2. PICK m \in Missing : \A y \in Missing : m <= y
    BY <1>1, <2>1, LevelLeast
  <2>3. m \in 1 .. n /\ m - 1 \in 0 .. n /\ ~(m <= m - 1)
    BY <2>2
  <2> QED
    BY <2>2, <2>3
<1> QED
  BY <1>1

(* The concatenation of a list of sequences is made of its prefixes.         *)
LEMMA FlattenIs ==
    ASSUME NEW n \in Nat, NEW t, t = [i \in 1 .. n |-> t[i]], \A i \in 1 .. n : IsSeq(t[i])
    PROVE  \E flat : /\ flat[0] = <<>>
                     /\ \A i \in 1 .. n : flat[i] = flat[i - 1] \o t[i]
                     /\ FlattenSeq(t) = flat[n]
<1>0. Len(t) = n
  BY ListLength
<1>1. CASE n = 0
  <2>1. t = <<>>
    BY <1>1
  <2>2. FlattenSeq(t) = t
    BY <1>0, <1>1 DEF FlattenSeq
  <2>3. [k \in {0} |-> <<>>][0] = <<>> /\ 1 .. n = {}
    BY <1>1
  <2> QED
    BY <1>1, <2>1, <2>2, <2>3
<1>2. CASE n # 0
  <2> DEFINE Here(f, i) == IF i = 1 THEN t[i] ELSE f[i - 1] \o t[i]
             IsUpTo(f, m) == f = [i \in 1 .. m |-> Here(f, i)]
             Reached == {m \in 0 .. n : \E f : IsUpTo(f, m)}
             built == CHOOSE f : IsUpTo(f, n)
  <2>1. FlattenSeq(t) = built[n]
    BY <1>0, <1>2 DEF FlattenSeq
  <2>2. 0 \in Reached
    <3>1. IsUpTo(<<>>, 0)
      OBVIOUS
    <3>2. \E f : IsUpTo(f, 0)
      BY <3>1
    <3> HIDE DEF IsUpTo
    <3> QED
      BY <3>2
  <2>3. ASSUME NEW m \in 1 .. n, m - 1 \in Reached
        PROVE  m \in Reached
    <3>1. PICK f : IsUpTo(f, m - 1)
      BY <2>3
    <3> DEFINE g == [i \in 1 .. m |-> IF i < m THEN f[i] ELSE Here(f, m)]
    <3>2. ASSUME NEW i \in 1 .. m
          PROVE  g[i] = Here(g, i)
      <4>1. CASE i < m
        <5>1. i \in 1 .. m - 1 /\ (i # 1 => i - 1 \in 1 .. m /\ i - 1 < m)
          BY <4>1
        <5>2. f[i] = Here(f, i)
          BY <3>1, <5>1
        <5>3. g[i] = f[i] /\ (i # 1 => g[i - 1] = f[i - 1])
          BY <4>1, <5>1
        <5> HIDE DEF g
        <5> QED
          BY <5>2, <5>3
      <4>2. CASE ~(i < m)
        <5>1. i = m /\ (m # 1 => m - 1 \in 1 .. m /\ m - 1 < m)
          BY <4>2
        <5>2. g[m] = Here(f, m) /\ (m # 1 => g[m - 1] = f[m - 1])
          BY <5>1
        <5> HIDE DEF g
        <5> QED
          BY <5>1, <5>2
      <4> QED
        BY <4>1, <4>2
    <3>3. IsUpTo(g, m)
      <4>1. g = [i \in 1 .. m |-> g[i]]
        OBVIOUS
      <4> HIDE DEF g, Here
      <4> QED
        BY <3>2, <4>1
    <3>4. \E h : IsUpTo(h, m)
      BY <3>3
    <3> HIDE DEF IsUpTo
    <3> QED
      BY <3>4
  <2>4. n \in Reached
    <3> HIDE DEF IsUpTo
    <3>1. Reached \in SUBSET (0 .. n)
      OBVIOUS
    <3>2. n \in 0 .. n
      OBVIOUS
    <3> HIDE DEF Reached
    <3> QED
      BY <2>2, <2>3, <3>1, <3>2, PrefixInduction
  <2>5. IsUpTo(built, n)
    BY <2>4
  <2> HIDE DEF built
  <2> DEFINE flat == [i \in 0 .. n |-> IF i = 0 THEN <<>> ELSE built[i]]
  <2>6. flat[0] = <<>> /\ FlattenSeq(t) = flat[n]
    BY <1>2, <2>1
  <2>7. ASSUME NEW i \in 1 .. n
        PROVE  flat[i] = flat[i - 1] \o t[i]
    <3>1. built[i] = Here(built, i)
      BY <2>5
    <3>2. flat[i] = built[i] /\ flat[i - 1] = IF i = 1 THEN <<>> ELSE built[i - 1]
      OBVIOUS
    <3>3. CASE i = 1
      <4>1. t[i] \in Seq(Elements(t[i]))
        BY DEF IsSeq
      <4>2. <<>> \o t[i] = t[i]
        BY <4>1
      <4> HIDE DEF flat
      <4> QED
        BY <3>1, <3>2, <3>3, <4>2
    <3>4. CASE i # 1
      <4> HIDE DEF flat
      <4> QED
        BY <3>1, <3>2, <3>4
    <3> QED
      BY <3>3, <3>4
  <2> HIDE DEF flat
  <2> QED
    BY <2>6, <2>7
<1> QED
  BY <1>1, <1>2

-----------------------------------------------------------------------------
(* A sequence keeps to another when its elements are related, in order, to   *)
(* elements of the other.                                                    *)
KeepsBy(m, u, v, R) ==
    /\ m \in [1 .. Len(u) -> 1 .. Len(v)]
    /\ \A i, j \in 1 .. Len(u) : i < j => m[i] < m[j]
    /\ \A i \in 1 .. Len(u) : <<u[i], v[m[i]]>> \in R
Keeps(u, v, R) == IsSeq(u) /\ IsSeq(v) /\ \E m : KeepsBy(m, u, v, R)

(* The empty sequence and those of one element.                              *)
LEMMA ShortSequences ==
    ASSUME NEW x
    PROVE  /\ IsSeq(<<>>) /\ Len(<<>>) = 0
           /\ IsSeq(<<x>>) /\ Len(<<x>>) = 1 /\ <<x>>[1] = x
<1>1. <<>> \in Seq(Elements(<<>>)) /\ Len(<<>>) = 0
  OBVIOUS
<1>2. Elements(<<x>>) = {x}
  BY DEF Elements
<1>3. <<x>> \in Seq({x}) /\ Len(<<x>>) = 1 /\ <<x>>[1] = x
  OBVIOUS
<1> QED
  BY <1>1, <1>2, <1>3 DEF IsSeq

(* The empty sequence keeps to any other.                                    *)
LEMMA NothingKeeps ==
    ASSUME NEW v, IsSeq(v), NEW R
    PROVE  Keeps(<<>>, v, R)
<1>1. KeepsBy([i \in 1 .. 0 |-> 0], <<>>, v, R)
  BY ShortSequences DEF KeepsBy
<1> QED
  BY <1>1, ShortSequences DEF Keeps

(* Related elements keep to one another.                                     *)
LEMMA OneKeeps ==
    ASSUME NEW x, NEW y, NEW R, <<x, y>> \in R
    PROVE  Keeps(<<x>>, <<y>>, R)
<1>1. KeepsBy([i \in 1 .. 1 |-> 1], <<x>>, <<y>>, R)
  BY ShortSequences DEF KeepsBy
<1> QED
  BY <1>1, ShortSequences DEF Keeps

(* What keeps piece by piece keeps joined.                                   *)
LEMMA JoinKeeps ==
    ASSUME NEW u, NEW v, NEW c, NEW d, NEW R, Keeps(u, v, R), Keeps(c, d, R)
    PROVE  Keeps(u \o c, v \o d, R)
<1>1. PICK m : KeepsBy(m, u, v, R)
  BY DEF Keeps
<1>2. PICK n : KeepsBy(n, c, d, R)
  BY DEF Keeps
<1>3. IsSeq(u) /\ IsSeq(v) /\ IsSeq(c) /\ IsSeq(d)
  BY DEF Keeps
<1> DEFINE la == Len(u)
           lb == Len(v)
           lc == Len(c)
           ld == Len(d)
           t == [i \in 1 .. la + lc |-> IF i <= la THEN m[i] ELSE lb + n[i - la]]
<1>4. la \in Nat /\ lb \in Nat /\ lc \in Nat /\ ld \in Nat
  BY <1>3, JoinIs
<1>5. /\ IsSeq(u \o c) /\ Len(u \o c) = la + lc
      /\ \A i \in 1 .. la : (u \o c)[i] = u[i]
      /\ \A i \in 1 .. lc : (u \o c)[la + i] = c[i]
  BY <1>3, JoinIs
<1>6. /\ IsSeq(v \o d) /\ Len(v \o d) = lb + ld
      /\ \A i \in 1 .. lb : (v \o d)[i] = v[i]
      /\ \A i \in 1 .. ld : (v \o d)[lb + i] = d[i]
  BY <1>3, JoinIs
<1>7. /\ m \in [1 .. la -> 1 .. lb] /\ \A i, j \in 1 .. la : i < j => m[i] < m[j]
      /\ \A i \in 1 .. la : <<u[i], v[m[i]]>> \in R
  BY <1>1 DEF KeepsBy
<1>8. /\ n \in [1 .. lc -> 1 .. ld] /\ \A i, j \in 1 .. lc : i < j => n[i] < n[j]
      /\ \A i \in 1 .. lc : <<c[i], d[n[i]]>> \in R
  BY <1>2 DEF KeepsBy
<1> HIDE DEF la, lb, lc, ld
<1>9. ASSUME NEW i \in 1 .. la + lc
      PROVE  \/ i \in 1 .. la /\ t[i] = m[i] /\ m[i] \in 1 .. lb
             \/ i \notin 1 .. la /\ i - la \in 1 .. lc /\ t[i] = lb + n[i - la] /\ n[i - la] \in 1 .. ld
                  /\ la + (i - la) = i
  <2>1. i \in 1 .. la \/ (~(i <= la) /\ i - la \in 1 .. lc /\ la + (i - la) = i)
    BY <1>4
  <2>2. t[i] = IF i <= la THEN m[i] ELSE lb + n[i - la]
    OBVIOUS
  <2> HIDE DEF t
  <2>3. CASE i \in 1 .. la
    <3>1. i <= la
      BY <1>4, <2>3
    <3> QED
      BY <1>7, <2>2, <2>3, <3>1
  <2>4. CASE ~(i <= la) /\ i - la \in 1 .. lc /\ la + (i - la) = i
    <3>1. i \notin 1 .. la
      BY <1>4, <2>4
    <3> QED
      BY <1>8, <2>2, <2>4, <3>1
  <2> QED
    BY <2>1, <2>3, <2>4
<1>10. t \in [1 .. la + lc -> 1 .. lb + ld]
  <2>1. \A x \in 1 .. lb : x \in 1 .. lb + ld
    BY <1>4
  <2>2. \A x \in 1 .. ld : lb + x \in 1 .. lb + ld
    BY <1>4
  <2>3. \A i \in 1 .. la + lc : t[i] \in 1 .. lb + ld
    <3> HIDE DEF t
    <3> QED
      BY <1>9, <2>1, <2>2
  <2>4. t = [i \in 1 .. la + lc |-> t[i]]
    OBVIOUS
  <2> HIDE DEF t
  <2> QED
    BY <2>3, <2>4
<1> HIDE DEF t
<1>11. ASSUME NEW i \in 1 .. la + lc, NEW j \in 1 .. la + lc, i < j
       PROVE  t[i] < t[j]
  <2>1. CASE i \in 1 .. la /\ j \in 1 .. la
    BY <1>7, <1>9, <1>11, <2>1
  <2>2. CASE i \in 1 .. la /\ j \notin 1 .. la
    <3>1. t[i] \in 1 .. lb /\ t[j] = lb + n[j - la] /\ n[j - la] \in 1 .. ld
      BY <1>9, <2>2
    <3> QED
      BY <1>4, <3>1
  <2>3. CASE i \notin 1 .. la /\ j \notin 1 .. la
    <3>1. /\ i - la \in 1 .. lc /\ t[i] = lb + n[i - la] /\ n[i - la] \in 1 .. ld
          /\ j - la \in 1 .. lc /\ t[j] = lb + n[j - la] /\ n[j - la] \in 1 .. ld
      BY <1>9, <2>3
    <3>2. i - la < j - la
      BY <1>4, <1>11
    <3>3. n[i - la] < n[j - la]
      BY <1>8, <3>1, <3>2
    <3> QED
      BY <1>4, <3>1, <3>3
  <2>4. ~(i \notin 1 .. la /\ j \in 1 .. la)
    BY <1>4, <1>11
  <2> QED
    BY <2>1, <2>2, <2>3, <2>4
<1>12. ASSUME NEW i \in 1 .. la + lc
       PROVE  <<(u \o c)[i], (v \o d)[t[i]]>> \in R
  <2>1. CASE i \in 1 .. la
    <3>1. t[i] = m[i] /\ m[i] \in 1 .. lb
      BY <1>9, <2>1
    <3>2. (u \o c)[i] = u[i]
      BY <1>5, <2>1
    <3>3. (v \o d)[m[i]] = v[m[i]]
      BY <1>6, <3>1
    <3> QED
      BY <1>7, <2>1, <3>1, <3>2, <3>3
  <2>2. CASE i \notin 1 .. la
    <3>1. i - la \in 1 .. lc /\ t[i] = lb + n[i - la] /\ n[i - la] \in 1 .. ld /\ la + (i - la) = i
      BY <1>9, <2>2
    <3>2. (u \o c)[la + (i - la)] = c[i - la] /\ (v \o d)[lb + n[i - la]] = d[n[i - la]]
      BY <1>5, <1>6, <3>1
    <3>3. (u \o c)[i] = c[i - la] /\ (v \o d)[t[i]] = d[n[i - la]]
      BY <3>1, <3>2
    <3> QED
      BY <1>8, <3>1, <3>3
  <2> QED
    BY <2>1, <2>2
<1>13. KeepsBy(t, u \o c, v \o d, R)
  BY <1>5, <1>6, <1>10, <1>11, <1>12 DEF KeepsBy
<1> QED
  BY <1>5, <1>6, <1>13 DEF Keeps

(* What is made of the parts of a sequence.                                  *)
LEMMA FlattenKeeps ==
    ASSUME NEW n \in Nat, NEW t, NEW u, t = [i \in 1 .. n |-> t[i]], u = [i \in 1 .. n |-> u[i]],
           NEW R, \A i \in 1 .. n : Keeps(t[i], u[i], R)
    PROVE  Keeps(FlattenSeq(t), FlattenSeq(u), R)
<1>1. \A i \in 1 .. n : IsSeq(t[i]) /\ IsSeq(u[i])
  BY DEF Keeps
<1>2. PICK p : /\ p[0] = <<>> /\ \A i \in 1 .. n : p[i] = p[i - 1] \o t[i]
               /\ FlattenSeq(t) = p[n]
  BY <1>1, FlattenIs
<1>3. PICK q : /\ q[0] = <<>> /\ \A i \in 1 .. n : q[i] = q[i - 1] \o u[i]
               /\ FlattenSeq(u) = q[n]
  BY <1>1, FlattenIs
<1> DEFINE Reached == {k \in 0 .. n : Keeps(p[k], q[k], R)}
<1>4. 0 \in Reached
  <2>1. Keeps(p[0], q[0], R)
    BY <1>2, <1>3, ShortSequences, NothingKeeps
  <2>2. 0 \in 0 .. n
    OBVIOUS
  <2> QED
    BY <2>1, <2>2
<1>5. ASSUME NEW k \in 1 .. n, k - 1 \in Reached
      PROVE  k \in Reached
  <2>1. Keeps(p[k - 1] \o t[k], q[k - 1] \o u[k], R)
    BY <1>5, JoinKeeps
  <2>2. p[k] = p[k - 1] \o t[k] /\ q[k] = q[k - 1] \o u[k]
    BY <1>2, <1>3
  <2>3. Keeps(p[k], q[k], R) /\ k \in 0 .. n
    BY <2>1, <2>2
  <2> QED
    BY <2>3
<1>6. Reached \in SUBSET (0 .. n)
  OBVIOUS
<1>7. n \in 0 .. n
  OBVIOUS
<1> HIDE DEF Reached
<1>8. n \in Reached
  BY <1>4, <1>5, <1>6, <1>7, PrefixInduction
<1> QED
  BY <1>2, <1>3, <1>8 DEF Reached

(* A flattened list of sequences is a sequence.                              *)
LEMMA FlattenIsSeq ==
    ASSUME NEW n \in Nat, NEW t, t = [i \in 1 .. n |-> t[i]], \A i \in 1 .. n : IsSeq(t[i])
    PROVE  IsSeq(FlattenSeq(t))
<1>1. PICK p : /\ p[0] = <<>> /\ \A i \in 1 .. n : p[i] = p[i - 1] \o t[i]
               /\ FlattenSeq(t) = p[n]
  BY FlattenIs
<1> DEFINE Reached == {k \in 0 .. n : IsSeq(p[k])}
<1>2. 0 \in Reached
  <2>1. IsSeq(p[0])
    BY <1>1, ShortSequences
  <2>2. 0 \in 0 .. n
    OBVIOUS
  <2> QED
    BY <2>1, <2>2
<1>3. ASSUME NEW k \in 1 .. n, k - 1 \in Reached
      PROVE  k \in Reached
  <2>1. IsSeq(p[k - 1]) /\ IsSeq(t[k]) /\ p[k] = p[k - 1] \o t[k] /\ k \in 0 .. n
    BY <1>1, <1>3
  <2>2. IsSeq(p[k])
    BY <2>1, JoinIs
  <2> QED
    BY <2>1, <2>2
<1>4. Reached \in SUBSET (0 .. n)
  OBVIOUS
<1>5. n \in 0 .. n
  OBVIOUS
<1> HIDE DEF Reached
<1>6. n \in Reached
  BY <1>2, <1>3, <1>4, <1>5, PrefixInduction
<1> QED
  BY <1>1, <1>6 DEF Reached

(* What keeps to one of the parts of a sequence keeps to the sequence.       *)
LEMMA PartKeeps ==
    ASSUME NEW n \in Nat, NEW u, u = [i \in 1 .. n |-> u[i]], \A i \in 1 .. n : IsSeq(u[i]),
           NEW R, NEW g, NEW v \in 1 .. n, Keeps(g, u[v], R)
    PROVE  Keeps(g, FlattenSeq(u), R)
<1>1. PICK p : /\ p[0] = <<>> /\ \A i \in 1 .. n : p[i] = p[i - 1] \o u[i]
               /\ FlattenSeq(u) = p[n]
  BY FlattenIs
<1>2. IsSeq(g) /\ g \o <<>> = g /\ <<>> \o g = g
  <2>1. g \in Seq(Elements(g))
    BY DEF Keeps, IsSeq
  <2> QED
    BY <2>1, ConcatEmptySeq DEF IsSeq
<1> DEFINE Reached == {k \in 0 .. n : Keeps(IF k >= v THEN g ELSE <<>>, p[k], R)}
<1>3. 0 \in Reached
  <2>1. ~(0 >= v) /\ 0 \in 0 .. n
    OBVIOUS
  <2>2. Keeps(<<>>, p[0], R)
    BY <1>1, ShortSequences, NothingKeeps
  <2> QED
    BY <2>1, <2>2
<1>4. ASSUME NEW k \in 1 .. n, k - 1 \in Reached
      PROVE  k \in Reached
  <2>1. p[k] = p[k - 1] \o u[k]
    BY <1>1
  <2>2. CASE k = v
    <3>1. Keeps(<<>>, p[k - 1], R)
      BY <1>4, <2>2
    <3>2. Keeps(<<>> \o g, p[k - 1] \o u[k], R)
      BY <2>2, <3>1, JoinKeeps
    <3>3. Keeps(g, p[k], R)
      BY <1>2, <2>1, <3>2
    <3>4. k >= v /\ k \in 0 .. n
      BY <2>2
    <3> QED
      BY <3>3, <3>4
  <2>3. CASE k # v
    <3> DEFINE c == IF k >= v THEN g ELSE <<>>
    <3>1. Keeps(c, p[k - 1], R)
      BY <1>4, <2>3
    <3>2. Keeps(<<>>, u[k], R)
      BY NothingKeeps
    <3>3. c \o <<>> = c
      BY <1>2
    <3>4. k \in 0 .. n
      OBVIOUS
    <3> HIDE DEF c
    <3>5. Keeps(c \o <<>>, p[k - 1] \o u[k], R)
      BY <3>1, <3>2, JoinKeeps
    <3>6. Keeps(c, p[k], R)
      BY <2>1, <3>3, <3>5
    <3> QED
      BY <3>4, <3>6 DEF c
  <2> QED
    BY <2>2, <2>3
<1>5. Reached \in SUBSET (0 .. n)
  OBVIOUS
<1>6. n \in 0 .. n /\ n >= v
  OBVIOUS
<1> HIDE DEF Reached
<1>7. n \in Reached
  BY <1>3, <1>4, <1>5, <1>6, PrefixInduction
<1> QED
  BY <1>1, <1>6, <1>7 DEF Reached

-----------------------------------------------------------------------------
(* The flow of a document, as the Go types and the bound on its levels allow.*)
IsFlow(flow) ==
    /\ \A f \in FlowsIn(flow, Branching) : IsList(f)
    /\ \A s \in AllSteps(flow) : IsStep(s)
    /\ \A f \in FlowsAt(flow, Branching)[MaxNesting] :
          \A i \in DOMAIN f : f[i].kind \notin Branching

(* The steps of a flow of a document, and the flows nested in them.          *)
LEMMA StepsBelow ==
    ASSUME NEW flow, IsFlow(flow), NEW into \in SUBSET Branching, NEW k \in 0 .. MaxNesting,
           NEW f \in FlowsAt(flow, into)[k]
    PROVE  /\ f \in FlowsAt(flow, Branching)[k] /\ IsList(f)
           /\ \A i \in DOMAIN f : f[i] \in AllSteps(flow) /\ IsStep(f[i])
           /\ \A i \in DOMAIN f : f[i].kind \in into =>
                /\ k + 1 \in 0 .. MaxNesting /\ IsList(f[i].flows)
                /\ \A j \in DOMAIN f[i].flows : f[i].flows[j] \in FlowsAt(flow, into)[k + 1]
<1>0. MaxNesting \in Nat
  BY NestingAssumption
<1>1. f \in FlowsAt(flow, Branching)[k]
  BY FlowsNarrow
<1>2. f \in FlowsIn(flow, Branching)
  BY <1>1, FlowsAreAtLevels
<1>3. IsList(f) /\ \A i \in DOMAIN f : f[i] \in AllSteps(flow) /\ IsStep(f[i])
  BY <1>2, FlowsAreAtLevels DEF IsFlow, AllSteps
<1>4. ASSUME NEW i \in DOMAIN f, f[i].kind \in into
      PROVE  /\ k + 1 \in 0 .. MaxNesting /\ IsList(f[i].flows)
             /\ \A j \in DOMAIN f[i].flows : f[i].flows[j] \in FlowsAt(flow, into)[k + 1]
  <2>1. k # MaxNesting
    BY <1>1, <1>4 DEF IsFlow
  <2>2. k + 1 \in 1 .. MaxNesting /\ (k + 1) - 1 = k /\ k + 1 \in 0 .. MaxNesting
    BY <1>0, <2>1
  <2>3. FlowsAt(flow, into)[k + 1] = UNION {Nested(g, into) : g \in FlowsAt(flow, into)[(k + 1) - 1]}
    BY <2>2, FlowsAtIs
  <2>4. \A j \in DOMAIN f[i].flows : f[i].flows[j] \in Nested(f, into)
    BY <1>4 DEF Nested, Elements
  <2>5. IsList(f[i].flows)
    BY <1>3, <1>4 DEF IsStep
  <2> QED
    BY <2>2, <2>3, <2>4, <2>5
<1> QED
  BY <1>1, <1>3, <1>4

(* Steps with their normal form.                                             *)
Normalized(flow) ==
    {pair \in AllSteps(flow) \X AllSteps(NormalFlow(flow)) :
        \E flows : pair[2] = NormalStep(pair[1], flows)}

(* The normal form of a flow, and those of the flows nested in a step.       *)
NormalAt(flow, k, f) == NormalFlowsAt(flow)[k][f]
NormalFlowsIn(flow, k, s) == [j \in DOMAIN s.flows |-> NormalFlowsAt(flow)[k + 1][s.flows[j]]]

(* The normal form of a flow, step by step.                                  *)
LEMMA NormalSteppedIs ==
    ASSUME NEW flow, IsFlow(flow), NEW k \in 0 .. MaxNesting,
           NEW f \in FlowsAt(flow, Branching)[k]
    PROVE  /\ DOMAIN NormalAt(flow, k, f) = DOMAIN f
           /\ \A i \in DOMAIN f :
                /\ NormalAt(flow, k, f)[i].kind = f[i].kind
                /\ NormalAt(flow, k, f)[i].id = Trim(f[i].id)
                /\ <<f[i], NormalAt(flow, k, f)[i]>> \in Normalized(flow)
                /\ f[i].kind \in Branching => NormalAt(flow, k, f)[i].flows = NormalFlowsIn(flow, k, f[i])
<1> DEFINE n == NormalFlowsAt(flow)[k][f]
           normal == NormalFlowsAt(flow)[k + 1]
<1>1. n = NormalSteps(f, normal)
  BY NormalFlowIs
<1>2. n \in FlowsIn(NormalFlow(flow), Branching)
  BY NormalFlowsAreThere, FlowsAreAtLevels DEF IsFlow
<1> HIDE DEF n, normal
<1>3. DOMAIN n = DOMAIN f
  BY <1>1 DEF NormalSteps
<1>4. ASSUME NEW i \in DOMAIN f
      PROVE  /\ n[i].kind = f[i].kind /\ n[i].id = Trim(f[i].id)
             /\ <<f[i], n[i]>> \in Normalized(flow)
             /\ f[i].kind \in Branching => n[i].flows = NormalFlowsIn(flow, k, f[i])
  <2> DEFINE inner == [j \in DOMAIN f[i].flows |-> normal[f[i].flows[j]]]
             flows == IF f[i].kind \in Branching THEN inner ELSE <<>>
  <2>1. n[i] = NormalStep(f[i], flows)
    BY <1>1 DEF NormalSteps
  <2>2. f[i] \in AllSteps(flow) /\ IsStep(f[i])
    BY StepsBelow
  <2>3. n[i] \in AllSteps(NormalFlow(flow))
    BY <1>2, <1>3, FlowsAreAtLevels DEF AllSteps
  <2>4. f[i].kind \in Branching => flows = inner
    OBVIOUS
  <2>7. inner = NormalFlowsIn(flow, k, f[i])
    BY DEF NormalFlowsIn, normal
  <2> HIDE DEF inner, flows
  <2>5. n[i].kind = f[i].kind /\ n[i].id = Trim(f[i].id) /\ (f[i].kind \in Branching => n[i].flows = inner)
    BY <2>1, <2>2, <2>4, NormalStepKeeps
  <2>6. <<f[i], n[i]>> \in Normalized(flow)
    BY <2>1, <2>2, <2>3 DEF Normalized
  <2> QED
    BY <2>5, <2>6, <2>7
<1> QED
  BY <1>3, <1>4 DEF n, NormalAt

(* The walk through the normal form of a flow, and through the flows nested  *)
(* in a step of it.                                                          *)
NormalWalk(flow, into, k, f) == WalksAt(NormalFlow(flow), into)[k][NormalAt(flow, k, f)]
NormalWalksIn(flow, into, k, s) == [j \in DOMAIN s.flows |-> NormalWalk(flow, into, k + 1, s.flows[j])]
Inner(flow, into, k, s) ==
    IF s.kind \in into THEN FlattenSeq(NormalWalksIn(flow, into, k, s)) ELSE <<>>
Outer(flow, into, k, f, i) == <<NormalAt(flow, k, f)[i]>> \o Inner(flow, into, k, f[i])
NormalParts(flow, into, k, f) == [i \in DOMAIN f |-> Outer(flow, into, k, f, i)]

(* The walk through the normal form of a flow is made of its parts.          *)
LEMMA NormalWalkIs ==
    ASSUME NEW flow, IsFlow(flow), NEW into \in SUBSET Branching, NEW k \in 0 .. MaxNesting,
           NEW f \in FlowsAt(flow, into)[k]
    PROVE  NormalWalk(flow, into, k, f) = FlattenSeq(NormalParts(flow, into, k, f))
<1> DEFINE N == NormalFlow(flow)
           n == NormalAt(flow, k, f)
           walk == WalksAt(N, into)
           at == FlowsAt(N, into)
<1>1. n \in at[k]
  BY NormalFlowsAreThere DEF IsFlow, NormalAt
<1>2. walk[k] = [g \in at[k] |-> Walked(g, into, walk[k + 1])]
  <2> HIDE DEF N
  <2>1. \A l \in 0 .. MaxNesting :
           WalksAt(N, into)[l] = [g \in FlowsAt(N, into)[l] |-> Walked(g, into, WalksAt(N, into)[l + 1])]
    BY WalksAtIs
  <2> QED
    BY <2>1, Zenon
<1>3. DOMAIN n = DOMAIN f /\ \A i \in DOMAIN f :
         /\ n[i].kind = f[i].kind
         /\ f[i].kind \in Branching => n[i].flows = NormalFlowsIn(flow, k, f[i])
  <2>1. f \in FlowsAt(flow, Branching)[k]
    BY StepsBelow
  <2> QED
    BY <2>1, NormalSteppedIs
<1> DEFINE parts == [i \in DOMAIN n |-> <<n[i]>> \o Within(n[i], into, walk[k + 1])]
<1>4. Walked(n, into, walk[k + 1]) = FlattenSeq(parts)
  BY DEF Walked
<1>5. ASSUME NEW i \in DOMAIN f
      PROVE  Within(n[i], into, walk[k + 1]) = Inner(flow, into, k, f[i])
  <2> DEFINE nested == [j \in DOMAIN n[i].flows |-> walk[k + 1][n[i].flows[j]]]
  <2>1. CASE f[i].kind \in into
    <3>1. n[i].flows = [j \in DOMAIN f[i].flows |-> NormalFlowsAt(flow)[k + 1][f[i].flows[j]]]
      <4> HIDE DEF n
      <4> QED
        BY <1>3, <2>1 DEF NormalFlowsIn
    <3>2. DOMAIN n[i].flows = DOMAIN f[i].flows
      <4> HIDE DEF n
      <4> QED
        BY <3>1
    <3>3. ASSUME NEW j \in DOMAIN f[i].flows
          PROVE  walk[k + 1][n[i].flows[j]] = NormalWalk(flow, into, k + 1, f[i].flows[j])
      <4>1. n[i].flows[j] = NormalFlowsAt(flow)[k + 1][f[i].flows[j]]
        <5> HIDE DEF n
        <5> QED
          BY <3>1
      <4> HIDE DEF n
      <4> QED
        BY <4>1 DEF NormalWalk, NormalAt
    <3>4. nested = NormalWalksIn(flow, into, k, f[i])
      <4> HIDE DEF walk, n
      <4> QED
        BY <3>2, <3>3 DEF NormalWalksIn
    <3>5. n[i].kind \in into
      BY <1>3, <2>1
    <3>6. Within(n[i], into, walk[k + 1]) = FlattenSeq(nested)
      <4> HIDE DEF n, walk
      <4> QED
        BY <3>5 DEF Within
    <3> HIDE DEF nested, n, walk
    <3> QED
      BY <2>1, <3>4, <3>6 DEF Inner
  <2>2. CASE f[i].kind \notin into
    <3>1. n[i].kind \notin into
      BY <1>3, <2>2
    <3> HIDE DEF n, walk
    <3> QED
      BY <2>2, <3>1 DEF Within, Inner
  <2> QED
    BY <2>1, <2>2
<1>6. \A i \in DOMAIN f : Outer(flow, into, k, f, i) = <<n[i]>> \o Inner(flow, into, k, f[i])
  BY DEF Outer
<1>7. NormalWalk(flow, into, k, f) = walk[k][n]
  BY DEF NormalWalk
<1> HIDE DEF n, walk, at
<1>8. parts = NormalParts(flow, into, k, f)
  BY <1>3, <1>5, <1>6 DEF NormalParts
<1> HIDE DEF parts
<1>9. walk[k][n] = Walked(n, into, walk[k + 1])
  BY <1>1, <1>2
<1> QED
  BY <1>4, <1>7, <1>8, <1>9

(* What a pass meets in the flows nested in a step is a sequence.            *)
LEMMA InnerIsSeq ==
    ASSUME NEW flow, NEW into, NEW k, NEW s, s.kind \in into => IsList(s.flows),
           s.kind \in into => \A j \in DOMAIN s.flows : IsSeq(NormalWalk(flow, into, k + 1, s.flows[j]))
    PROVE  IsSeq(Inner(flow, into, k, s))
<1>1. CASE s.kind \in into
  <2> DEFINE n == Len(s.flows)
             u == NormalWalksIn(flow, into, k, s)
  <2>1. n \in Nat /\ DOMAIN s.flows = 1 .. n
    BY <1>1 DEF IsList
  <2>2. u = [j \in 1 .. n |-> u[j]] /\ \A j \in 1 .. n : IsSeq(u[j])
    BY <1>1, <2>1 DEF NormalWalksIn
  <2>3. Inner(flow, into, k, s) = FlattenSeq(u)
    BY <1>1 DEF Inner
  <2> HIDE DEF n, u
  <2> QED
    BY <2>1, <2>2, <2>3, FlattenIsSeq
<1>2. CASE s.kind \notin into
  BY <1>2, ShortSequences DEF Inner
<1> QED
  BY <1>1, <1>2

(* The walk through a normal form is a sequence.                             *)
LEMMA NormalWalkIsSeq ==
    ASSUME NEW flow, IsFlow(flow), NEW into \in SUBSET Branching
    PROVE  \A k \in 0 .. MaxNesting : \A f \in FlowsAt(flow, into)[k] :
               IsSeq(NormalWalk(flow, into, k, f))
<1> DEFINE Reached == {k \in 0 .. MaxNesting :
                         \A f \in FlowsAt(flow, into)[k] : IsSeq(NormalWalk(flow, into, k, f))}
<1>1. ASSUME NEW k \in 0 .. MaxNesting, k = MaxNesting \/ k + 1 \in Reached
      PROVE  k \in Reached
  <2>1. ASSUME NEW f \in FlowsAt(flow, into)[k]
        PROVE  IsSeq(NormalWalk(flow, into, k, f))
    <3> DEFINE n == Len(f)
               t == NormalParts(flow, into, k, f)
    <3>1. n \in Nat /\ DOMAIN f = 1 .. n
      BY StepsBelow DEF IsList
    <3>2. ASSUME NEW i \in DOMAIN f
          PROVE  IsSeq(Outer(flow, into, k, f, i))
      <4>1. f[i].kind \in into =>
              /\ k + 1 \in 0 .. MaxNesting /\ IsList(f[i].flows)
              /\ \A j \in DOMAIN f[i].flows : f[i].flows[j] \in FlowsAt(flow, into)[k + 1]
        BY StepsBelow
      <4>2. f[i].kind \in into => k + 1 \in Reached
        <5>1. k + 1 \in 0 .. MaxNesting => k # MaxNesting
          BY NestingAssumption
        <5> QED
          BY <1>1, <4>1, <5>1
      <4>3. f[i].kind \in into =>
              \A j \in DOMAIN f[i].flows : IsSeq(NormalWalk(flow, into, k + 1, f[i].flows[j]))
        BY <4>1, <4>2
      <4>4. IsSeq(Inner(flow, into, k, f[i]))
        BY <4>1, <4>3, InnerIsSeq
      <4> QED
        BY <4>4, ShortSequences, JoinIs DEF Outer
    <3>3. t = [i \in 1 .. n |-> t[i]] /\ \A i \in 1 .. n : IsSeq(t[i])
      BY <3>1, <3>2 DEF NormalParts
    <3>4. NormalWalk(flow, into, k, f) = FlattenSeq(t)
      BY NormalWalkIs
    <3> HIDE DEF t, n
    <3> QED
      BY <3>1, <3>3, <3>4, FlattenIsSeq
  <2> QED
    BY <2>1
<1>2. Reached \in SUBSET (0 .. MaxNesting)
  OBVIOUS
<1> HIDE DEF Reached
<1>3. Reached = 0 .. MaxNesting
  BY <1>1, <1>2, LevelDescent
<1> QED
  BY <1>3 DEF Reached

(* The branch a dry run takes keeps to the walk through the normal form of   *)
(* the step.                                                                 *)
LEMMA BranchKeeps ==
    ASSUME NEW flow, NEW k, NEW s, IsStep(s), NEW env, NEW path, NEW R,
           s.kind = "if" => IsList(s.flows) /\ \A j \in DOMAIN s.flows :
               Keeps(path[s.flows[j]], NormalWalk(flow, {"if"}, k + 1, s.flows[j]), R)
    PROVE  Keeps(Taken(s, env, path), Inner(flow, {"if"}, k, s), R)
<1>1. CASE s.kind # "if"
  <2>1. Taken(s, env, path) = <<>> /\ Inner(flow, {"if"}, k, s) = <<>>
    BY <1>1 DEF Taken, Inner
  <2> QED
    BY <2>1, ShortSequences, NothingKeeps
<1>2. CASE s.kind = "if"
  <2> DEFINE n == Len(s.flows)
             u == NormalWalksIn(flow, {"if"}, k, s)
  <2>1. n \in Nat /\ DOMAIN s.flows = 1 .. n
    BY <1>2 DEF IsList
  <2>2. /\ u = [j \in 1 .. n |-> u[j]]
        /\ \A j \in 1 .. n : IsSeq(u[j]) /\ Keeps(path[s.flows[j]], u[j], R)
    BY <1>2, <2>1 DEF NormalWalksIn, Keeps
  <2>3. Inner(flow, {"if"}, k, s) = FlattenSeq(u)
    BY <1>2 DEF Inner
  <2>4. CASE Branch(s, env) = {}
    <3>1. Taken(s, env, path) = <<>>
      BY <2>4 DEF Taken
    <3> HIDE DEF n, u
    <3>2. IsSeq(FlattenSeq(u))
      BY <2>1, <2>2, FlattenIsSeq
    <3> QED
      BY <2>3, <3>1, <3>2, NothingKeeps
  <2>5. CASE Branch(s, env) # {}
    <3> DEFINE v == CHOOSE j \in Branch(s, env) : TRUE
    <3>1. v \in Branch(s, env)
      BY <2>5
    <3> HIDE DEF v
    <3>2. v \in DOMAIN s.flows
      BY <1>2, <3>1 DEF Branch, IsStep
    <3>3. Taken(s, env, path) = path[s.flows[v]]
      BY <1>2, <2>5 DEF Taken, v
    <3>4. v \in 1 .. n /\ Keeps(path[s.flows[v]], u[v], R)
      BY <2>1, <2>2, <3>2
    <3> HIDE DEF n, u
    <3>5. Keeps(path[s.flows[v]], FlattenSeq(u), R)
      BY <2>1, <2>2, <3>4, PartKeeps
    <3> QED
      BY <2>3, <3>3, <3>5
  <2> QED
    BY <2>4, <2>5
<1> QED
  BY <1>1, <1>2

(* The path of a dry run keeps to the safety pass's walk through the normal  *)
(* form.                                                                     *)
LEMMA PathKeepsToWalk ==
    ASSUME NEW flow, IsFlow(flow), NEW env
    PROVE  \A k \in 0 .. MaxNesting : \A f \in FlowsAt(flow, {"if"})[k] :
               Keeps(PathsAt(flow, env)[k][f], NormalWalk(flow, {"if"}, k, f), Normalized(flow))
<1> DEFINE path == PathsAt(flow, env)
           R == Normalized(flow)
           Reached == {k \in 0 .. MaxNesting : \A f \in FlowsAt(flow, {"if"})[k] :
                         Keeps(path[k][f], NormalWalk(flow, {"if"}, k, f), R)}
<1>0. {"if"} \in SUBSET Branching
  BY DEF Branching
<1>1. ASSUME NEW k \in 0 .. MaxNesting, k = MaxNesting \/ k + 1 \in Reached
      PROVE  k \in Reached
  <2>0. path[k] = [f \in FlowsAt(flow, {"if"})[k] |-> Passed(f, env, path[k + 1])]
    <3>1. \A l \in 0 .. MaxNesting : PathsAt(flow, env)[l] =
             [f \in FlowsAt(flow, {"if"})[l] |-> Passed(f, env, PathsAt(flow, env)[l + 1])]
      BY PathsAtIs
    <3> QED
      BY <3>1, Zenon
  <2> HIDE DEF path, R
  <2>1. ASSUME NEW f \in FlowsAt(flow, {"if"})[k]
        PROVE  Keeps(path[k][f], NormalWalk(flow, {"if"}, k, f), R)
    <3> DEFINE n == Len(f)
               t == [i \in DOMAIN f |-> <<f[i]>> \o Taken(f[i], env, path[k + 1])]
               u == NormalParts(flow, {"if"}, k, f)
    <3>1. n \in Nat /\ DOMAIN f = 1 .. n
      BY <1>0, StepsBelow DEF IsList
    <3>2. ASSUME NEW i \in DOMAIN f
          PROVE  Keeps(<<f[i]>> \o Taken(f[i], env, path[k + 1]), Outer(flow, {"if"}, k, f, i), R)
      <4>1. /\ IsStep(f[i])
            /\ f[i].kind = "if" =>
                 /\ k + 1 \in 0 .. MaxNesting /\ IsList(f[i].flows)
                 /\ \A j \in DOMAIN f[i].flows : f[i].flows[j] \in FlowsAt(flow, {"if"})[k + 1]
        BY <1>0, StepsBelow
      <4>2. f[i].kind = "if" => k + 1 \in Reached
        <5>1. k + 1 \in 0 .. MaxNesting => k # MaxNesting
          BY NestingAssumption
        <5> QED
          BY <1>1, <4>1, <5>1
      <4>3. f[i].kind = "if" => \A j \in DOMAIN f[i].flows :
               Keeps(path[k + 1][f[i].flows[j]], NormalWalk(flow, {"if"}, k + 1, f[i].flows[j]), R)
        BY <4>1, <4>2
      <4>4. Keeps(Taken(f[i], env, path[k + 1]), Inner(flow, {"if"}, k, f[i]), R)
        BY <4>1, <4>3, BranchKeeps
      <4>5. <<f[i], NormalAt(flow, k, f)[i]>> \in R
        <5>1. f \in FlowsAt(flow, Branching)[k]
          BY <1>0, StepsBelow
        <5> QED
          BY <5>1, NormalSteppedIs DEF R
      <4>6. Keeps(<<f[i]>>, <<NormalAt(flow, k, f)[i]>>, R)
        BY <4>5, OneKeeps
      <4> QED
        BY <4>4, <4>6, JoinKeeps DEF Outer
    <3>3. /\ t = [i \in 1 .. n |-> t[i]] /\ u = [i \in 1 .. n |-> u[i]]
          /\ \A i \in 1 .. n : Keeps(t[i], u[i], R)
      BY <3>1, <3>2 DEF NormalParts
    <3>4. NormalWalk(flow, {"if"}, k, f) = FlattenSeq(u)
      BY <1>0, NormalWalkIs
    <3>5. path[k][f] = FlattenSeq(t)
      BY <2>0 DEF Passed
    <3> HIDE DEF t, n, u
    <3> QED
      BY <3>1, <3>3, <3>4, <3>5, FlattenKeeps
  <2> QED
    BY <2>1
<1>2. Reached \in SUBSET (0 .. MaxNesting)
  OBVIOUS
<1> HIDE DEF Reached
<1>3. Reached = 0 .. MaxNesting
  BY <1>1, <1>2, LevelDescent
<1> QED
  BY <1>3 DEF Reached

(* The safety pass's walk through a normal form keeps to the walk into every *)
(* branch.                                                                   *)
LEMMA NarrowKeepsToWhole ==
    ASSUME NEW flow, IsFlow(flow)
    PROVE  \A k \in 0 .. MaxNesting : \A f \in FlowsAt(flow, {"if"})[k] :
               Keeps(NormalWalk(flow, {"if"}, k, f), NormalWalk(flow, Branching, k, f),
                     {pair \in AllSteps(NormalFlow(flow)) \X AllSteps(NormalFlow(flow)) : pair[1] = pair[2]})
<1> DEFINE R == {pair \in AllSteps(NormalFlow(flow)) \X AllSteps(NormalFlow(flow)) : pair[1] = pair[2]}
           Reached == {k \in 0 .. MaxNesting : \A f \in FlowsAt(flow, {"if"})[k] :
                         Keeps(NormalWalk(flow, {"if"}, k, f), NormalWalk(flow, Branching, k, f), R)}
<1> HIDE DEF R
<1>0. {"if"} \in SUBSET Branching /\ Branching \in SUBSET Branching /\ "if" \in Branching
  BY DEF Branching
<1>1. ASSUME NEW k \in 0 .. MaxNesting, k = MaxNesting \/ k + 1 \in Reached
      PROVE  k \in Reached
  <2>1. ASSUME NEW f \in FlowsAt(flow, {"if"})[k]
        PROVE  Keeps(NormalWalk(flow, {"if"}, k, f), NormalWalk(flow, Branching, k, f), R)
    <3> DEFINE n == Len(f)
               t == NormalParts(flow, {"if"}, k, f)
               u == NormalParts(flow, Branching, k, f)
    <3>0. f \in FlowsAt(flow, Branching)[k]
      BY <1>0, StepsBelow
    <3>1. n \in Nat /\ DOMAIN f = 1 .. n
      BY <1>0, StepsBelow DEF IsList
    <3>2. ASSUME NEW i \in DOMAIN f
          PROVE  Keeps(Outer(flow, {"if"}, k, f, i), Outer(flow, Branching, k, f, i), R)
      <4>1. /\ f[i].kind \in Branching =>
                 /\ k + 1 \in 0 .. MaxNesting /\ IsList(f[i].flows)
                 /\ \A j \in DOMAIN f[i].flows : f[i].flows[j] \in FlowsAt(flow, Branching)[k + 1]
            /\ f[i].kind = "if" =>
                 \A j \in DOMAIN f[i].flows : f[i].flows[j] \in FlowsAt(flow, {"if"})[k + 1]
        BY <1>0, <3>0, StepsBelow
      <4>2. f[i].kind = "if" => k + 1 \in Reached
        <5>1. k + 1 \in 0 .. MaxNesting => k # MaxNesting
          BY NestingAssumption
        <5> QED
          BY <1>0, <1>1, <4>1, <5>1
      <4>3. Keeps(Inner(flow, {"if"}, k, f[i]), Inner(flow, Branching, k, f[i]), R)
        <5>1. CASE f[i].kind = "if"
          <6> DEFINE m == Len(f[i].flows)
                     v == NormalWalksIn(flow, {"if"}, k, f[i])
                     w == NormalWalksIn(flow, Branching, k, f[i])
          <6>1. m \in Nat /\ DOMAIN f[i].flows = 1 .. m
            BY <1>0, <4>1, <5>1 DEF IsList
          <6>2. \A j \in DOMAIN f[i].flows :
                   Keeps(NormalWalk(flow, {"if"}, k + 1, f[i].flows[j]),
                         NormalWalk(flow, Branching, k + 1, f[i].flows[j]), R)
            BY <4>1, <4>2, <5>1
          <6>3. /\ v = [j \in 1 .. m |-> v[j]] /\ w = [j \in 1 .. m |-> w[j]]
                /\ \A j \in 1 .. m : Keeps(v[j], w[j], R)
            BY <6>1, <6>2 DEF NormalWalksIn
          <6>4. Inner(flow, {"if"}, k, f[i]) = FlattenSeq(v) /\ Inner(flow, Branching, k, f[i]) = FlattenSeq(w)
            BY <1>0, <5>1 DEF Inner
          <6> HIDE DEF m, v, w
          <6> QED
            BY <6>1, <6>3, <6>4, FlattenKeeps
        <5>2. CASE f[i].kind # "if"
          <6>1. Inner(flow, {"if"}, k, f[i]) = <<>>
            BY <5>2 DEF Inner
          <6>2. f[i].kind \in Branching => \A j \in DOMAIN f[i].flows :
                   IsSeq(NormalWalk(flow, Branching, k + 1, f[i].flows[j]))
            BY <1>0, <4>1, NormalWalkIsSeq
          <6>3. IsSeq(Inner(flow, Branching, k, f[i]))
            BY <4>1, <6>2, InnerIsSeq
          <6> QED
            BY <6>1, <6>3, NothingKeeps
        <5> QED
          BY <5>1, <5>2
      <4>4. <<NormalAt(flow, k, f)[i], NormalAt(flow, k, f)[i]>> \in R
        <5>1. <<f[i], NormalAt(flow, k, f)[i]>> \in Normalized(flow)
          BY <3>0, NormalSteppedIs
        <5>2. NormalAt(flow, k, f)[i] \in AllSteps(NormalFlow(flow))
          BY <5>1 DEF Normalized
        <5> QED
          BY <5>2 DEF R
      <4>5. Keeps(<<NormalAt(flow, k, f)[i]>>, <<NormalAt(flow, k, f)[i]>>, R)
        BY <4>4, OneKeeps
      <4> QED
        BY <4>3, <4>5, JoinKeeps DEF Outer
    <3>3. /\ t = [i \in 1 .. n |-> t[i]] /\ u = [i \in 1 .. n |-> u[i]]
          /\ \A i \in 1 .. n : Keeps(t[i], u[i], R)
      BY <3>1, <3>2 DEF NormalParts
    <3>4. NormalWalk(flow, {"if"}, k, f) = FlattenSeq(t) /\ NormalWalk(flow, Branching, k, f) = FlattenSeq(u)
      BY <1>0, <3>0, NormalWalkIs
    <3> HIDE DEF t, n, u
    <3> QED
      BY <3>1, <3>3, <3>4, FlattenKeeps
  <2> QED
    BY <2>1
<1>2. Reached \in SUBSET (0 .. MaxNesting)
  OBVIOUS
<1> HIDE DEF Reached
<1>3. Reached = 0 .. MaxNesting
  BY <1>1, <1>2, LevelDescent
<1> QED
  BY <1>3 DEF Reached, R

-----------------------------------------------------------------------------
(* A dry run along its path, step by step.                                   *)
Onward(s, run, env, ctx) == IF run.going THEN StepOf(s, run, env, ctx) ELSE run

(* A dry run along a path starts afresh and takes its steps in turn.         *)
LEMMA RunAlongIs ==
    ASSUME NEW path, IsSeq(path), NEW env, NEW ctx
    PROVE  /\ Len(path) \in Nat
           /\ RunAlong(path, env, ctx)[0] = Started
           /\ \A i \in 1 .. Len(path) :
                RunAlong(path, env, ctx)[i] = Onward(path[i], RunAlong(path, env, ctx)[i - 1], env, ctx)
<1> DEFINE n == Len(path)
           run == RunAlong(path, env, ctx)
           Here(f, i) == IF i = 0 THEN Started ELSE Onward(path[i], f[i - 1], env, ctx)
           IsUpTo(f, m) == f = [i \in 0 .. m |-> Here(f, i)]
           Reached == {m \in 0 .. n : \E f : IsUpTo(f, m)}
<1>0. n \in Nat
  BY JoinIs
<1>1. run = CHOOSE f : IsUpTo(f, n)
  BY DEF RunAlong, Onward
<1> HIDE DEF n, run
<1>2. 0 \in Reached
  <2>1. IsUpTo([i \in 0 .. 0 |-> Started], 0)
    OBVIOUS
  <2>2. \E f : IsUpTo(f, 0)
    BY <2>1
  <2> HIDE DEF IsUpTo
  <2> QED
    BY <1>0, <2>2
<1>3. ASSUME NEW m \in 1 .. n, m - 1 \in Reached
      PROVE  m \in Reached
  <2>1. PICK f : IsUpTo(f, m - 1)
    BY <1>3
  <2>2. m \in Nat /\ m # 0
    BY <1>0
  <2> DEFINE g == [i \in 0 .. m |-> IF i < m THEN f[i] ELSE Here(f, m)]
  <2>3. ASSUME NEW i \in 0 .. m
        PROVE  g[i] = Here(g, i)
    <3>1. CASE i < m
      <4>1. i \in 0 .. m - 1 /\ (i # 0 => i - 1 \in 0 .. m /\ i - 1 < m)
        BY <2>2, <3>1
      <4>2. f[i] = Here(f, i)
        BY <2>1, <4>1
      <4>3. g[i] = f[i] /\ (i # 0 => g[i - 1] = f[i - 1])
        BY <3>1, <4>1
      <4> HIDE DEF g
      <4> QED
        BY <4>2, <4>3
    <3>2. CASE ~(i < m)
      <4>1. i = m /\ m - 1 \in 0 .. m /\ m - 1 < m
        BY <2>2, <3>2
      <4>2. g[m] = Here(f, m) /\ g[m - 1] = f[m - 1]
        BY <4>1
      <4> HIDE DEF g
      <4> QED
        BY <4>1, <4>2
    <3> QED
      BY <3>1, <3>2
  <2>4. IsUpTo(g, m)
    <3>1. g = [i \in 0 .. m |-> g[i]]
      OBVIOUS
    <3> HIDE DEF g, Here
    <3> QED
      BY <2>3, <3>1
  <2>5. \E h : IsUpTo(h, m)
    BY <2>4
  <2>6. m \in 0 .. n
    OBVIOUS
  <2> HIDE DEF IsUpTo
  <2> QED
    BY <2>5, <2>6
<1>4. n \in Reached
  <2> HIDE DEF IsUpTo
  <2>1. Reached \in SUBSET (0 .. n)
    OBVIOUS
  <2>2. n \in 0 .. n
    BY <1>0
  <2> HIDE DEF Reached
  <2> QED
    BY <1>0, <1>2, <1>3, <2>1, <2>2, PrefixInduction
<1>5. IsUpTo(run, n)
  BY <1>1, <1>4
<1>6. 0 \in 0 .. n /\ \A i \in 1 .. n : i \in 0 .. n /\ i # 0
  BY <1>0
<1>7. run[0] = Started /\ \A i \in 1 .. n : run[i] = Onward(path[i], run[i - 1], env, ctx)
  BY <1>5, <1>6
<1> QED
  BY <1>0, <1>7 DEF n, run

(* What a dry run carries along.                                             *)
RunFields == {"effects", "errors", "clock", "going", "rejected"}
(* A step of a dry run adds what an action would execute, or nothing.        *)
LEMMA OnwardAdds ==
    ASSUME NEW s, NEW run, DOMAIN run = RunFields, NEW env, NEW ctx
    PROVE  /\ DOMAIN Onward(s, run, env, ctx) = RunFields
           /\ \/ Onward(s, run, env, ctx).effects = run.effects
              \/ s.kind = "action" /\ Onward(s, run, env, ctx).effects = Append(run.effects, WouldExecute(s))
<1>1. DOMAIN StepOf(s, run, env, ctx) = RunFields
  BY DEF StepOf, RunFields, Rejected, Halt
<1>2. \/ StepOf(s, run, env, ctx).effects = run.effects
      \/ s.kind = "action" /\ StepOf(s, run, env, ctx).effects = Append(run.effects, WouldExecute(s))
  BY DEF StepOf, RunFields, Rejected, Halt
<1> QED
  BY <1>1, <1>2 DEF Onward

(* A sequence with one element more.                                         *)
LEMMA AppendIs ==
    ASSUME NEW u, IsSeq(u), NEW x
    PROVE  /\ IsSeq(Append(u, x)) /\ Len(u) \in Nat /\ Len(Append(u, x)) = Len(u) + 1
           /\ \A i \in 1 .. Len(u) : Append(u, x)[i] = u[i]
           /\ Append(u, x)[Len(u) + 1] = x
<1> DEFINE S == Elements(u) \cup {x}
<1>1. u \in Seq(S) /\ x \in S
  BY DEF IsSeq
<1> HIDE DEF S
<1>2. Append(u, x) = u \o <<x>>
  BY <1>1, AppendIsConcat
<1>3. IsSeq(u \o <<x>>)
  BY ShortSequences, JoinIs
<1>4. /\ Len(Append(u, x)) = Len(u) + 1
      /\ \A i \in 1 .. Len(u) : Append(u, x)[i] = u[i]
      /\ Append(u, x)[Len(u) + 1] = x
  BY <1>1, AppendProperties
<1>5. Len(u) \in Nat
  BY <1>1
<1> QED
  BY <1>2, <1>3, <1>4, <1>5

(* What a dry run would execute are actions of its path, in order.           *)
FollowsBy(g, effects, path, k) ==
    /\ g \in [1 .. Len(effects) -> 1 .. k]
    /\ \A i, j \in 1 .. Len(effects) : i < j => g[i] < g[j]
    /\ \A i \in 1 .. Len(effects) :
          path[g[i]].kind = "action" /\ effects[i] = WouldExecute(path[g[i]])
Follows(effects, path, k) == IsSeq(effects) /\ \E g : FollowsBy(g, effects, path, k)

(* No effect has been recorded before the first step.                        *)
LEMMA NothingFollows ==
    ASSUME NEW path
    PROVE  Follows(<<>>, path, 0)
<1>1. FollowsBy([i \in 1 .. 0 |-> 0], <<>>, path, 0)
  BY ShortSequences DEF FollowsBy
<1> QED
  BY <1>1, ShortSequences DEF Follows

(* A step of the path lets the effects be, or adds one of an action.         *)
LEMMA FollowsOn ==
    ASSUME NEW effects, NEW path, NEW k \in Nat, k # 0, Follows(effects, path, k - 1)
    PROVE  /\ Follows(effects, path, k)
           /\ path[k].kind = "action" => Follows(Append(effects, WouldExecute(path[k])), path, k)
<1>1. PICK g : FollowsBy(g, effects, path, k - 1)
  BY DEF Follows
<1>2. IsSeq(effects)
  BY DEF Follows
<1> DEFINE n == Len(effects)
           x == WouldExecute(path[k])
           more == Append(effects, x)
<1>3. /\ n \in Nat /\ IsSeq(more) /\ Len(more) = n + 1
      /\ \A i \in 1 .. n : more[i] = effects[i]
      /\ more[n + 1] = x
  BY <1>2, AppendIs
<1>4. /\ g \in [1 .. n -> 1 .. k - 1] /\ \A i, j \in 1 .. n : i < j => g[i] < g[j]
      /\ \A i \in 1 .. n : path[g[i]].kind = "action" /\ effects[i] = WouldExecute(path[g[i]])
  BY <1>1 DEF FollowsBy
<1>5. Follows(effects, path, k)
  <2>1. \A i \in 1 .. n : g[i] \in 1 .. k
    BY <1>4
  <2>2. g \in [1 .. n -> 1 .. k]
    BY <1>4, <2>1
  <2>3. FollowsBy(g, effects, path, k)
    BY <1>4, <2>2 DEF FollowsBy
  <2> QED
    BY <1>2, <2>3 DEF Follows
<1>6. ASSUME path[k].kind = "action"
      PROVE  Follows(more, path, k)
  <2> DEFINE h == [i \in 1 .. n + 1 |-> IF i <= n THEN g[i] ELSE k]
  <2> HIDE DEF n, x, more
  <2>1. ASSUME NEW i \in 1 .. n + 1
        PROVE  \/ i \in 1 .. n /\ h[i] = g[i] /\ g[i] \in 1 .. k - 1
               \/ i = n + 1 /\ h[i] = k
    <3>1. h[i] = IF i <= n THEN g[i] ELSE k
      OBVIOUS
    <3>2. (i \in 1 .. n /\ i <= n) \/ (i = n + 1 /\ ~(i <= n))
      BY <1>3
    <3> HIDE DEF h
    <3> QED
      BY <1>4, <3>1, <3>2
  <2>2. h \in [1 .. n + 1 -> 1 .. k]
    <3>1. \A i \in 1 .. n + 1 : h[i] \in 1 .. k
      <4> HIDE DEF h
      <4> QED
        BY <2>1
    <3>2. h = [i \in 1 .. n + 1 |-> h[i]]
      OBVIOUS
    <3> HIDE DEF h
    <3> QED
      BY <3>1, <3>2
  <2> HIDE DEF h
  <2>3. ASSUME NEW i \in 1 .. n + 1, NEW j \in 1 .. n + 1, i < j
        PROVE  h[i] < h[j]
    <3>1. i \in 1 .. n
      BY <1>3, <2>3
    <3>2. h[i] = g[i] /\ g[i] \in 1 .. k - 1
      BY <1>3, <2>1, <3>1
    <3>3. CASE j \in 1 .. n
      <4>1. h[j] = g[j]
        BY <1>3, <2>1, <3>3
      <4> QED
        BY <1>4, <2>3, <3>1, <3>2, <3>3, <4>1
    <3>4. CASE j \notin 1 .. n
      BY <2>1, <3>2, <3>4
    <3> QED
      BY <3>3, <3>4
  <2>4. ASSUME NEW i \in 1 .. n + 1
        PROVE  path[h[i]].kind = "action" /\ more[i] = WouldExecute(path[h[i]])
    <3>1. CASE i \in 1 .. n /\ h[i] = g[i]
      BY <1>3, <1>4, <3>1
    <3>2. CASE i = n + 1 /\ h[i] = k
      BY <1>3, <1>6, <3>2 DEF x
    <3> QED
      BY <2>1, <3>1, <3>2
  <2>5. FollowsBy(h, more, path, k)
    BY <1>3, <2>2, <2>3, <2>4 DEF FollowsBy
  <2> QED
    BY <1>3, <2>5 DEF Follows
<1> QED
  BY <1>5, <1>6

(* The effects of a dry run are those of actions on its path, in order       *)
(* (simulator.go:executeFlow).                                               *)
LEMMA EffectsFollowPath ==
    ASSUME NEW flow, NEW env, NEW ctx, IsSeq(Path(flow, env))
    PROVE  Follows(Execute(flow, env, ctx).effects, Path(flow, env), Len(Path(flow, env)))
<1> DEFINE path == Path(flow, env)
           n == Len(path)
           run == RunAlong(path, env, ctx)
           Reached == {k \in 0 .. n : DOMAIN run[k] = RunFields /\ Follows(run[k].effects, path, k)}
<1>1. /\ n \in Nat /\ run[0] = Started
      /\ \A i \in 1 .. n : run[i] = Onward(path[i], run[i - 1], env, ctx)
  BY RunAlongIs
<1>2. Execute(flow, env, ctx) = run[n]
  BY DEF Execute
<1> HIDE DEF path, n, run
<1>3. 0 \in Reached
  <2>1. DOMAIN Started = RunFields /\ Started.effects = <<>>
    BY DEF Started, RunFields
  <2>2. DOMAIN run[0] = RunFields /\ Follows(run[0].effects, path, 0)
    BY <1>1, <2>1, NothingFollows
  <2>3. 0 \in 0 .. n
    BY <1>1
  <2> QED
    BY <2>2, <2>3
<1>4. ASSUME NEW k \in 1 .. n, k - 1 \in Reached
      PROVE  k \in Reached
  <2>1. DOMAIN run[k - 1] = RunFields /\ Follows(run[k - 1].effects, path, k - 1)
    BY <1>4
  <2>2. k \in Nat /\ k # 0 /\ k \in 0 .. n
    BY <1>1
  <2>3. run[k] = Onward(path[k], run[k - 1], env, ctx)
    BY <1>1
  <2>4. /\ DOMAIN run[k] = RunFields
        /\ \/ run[k].effects = run[k - 1].effects
           \/ path[k].kind = "action"
                /\ run[k].effects = Append(run[k - 1].effects, WouldExecute(path[k]))
    <3> DEFINE now == run[k - 1]
               s == path[k]
    <3>1. DOMAIN now = RunFields
      BY <2>1
    <3> HIDE DEF now, s
    <3>2. /\ DOMAIN Onward(s, now, env, ctx) = RunFields
          /\ \/ Onward(s, now, env, ctx).effects = now.effects
             \/ s.kind = "action"
                  /\ Onward(s, now, env, ctx).effects = Append(now.effects, WouldExecute(s))
      BY <3>1, OnwardAdds
    <3> QED
      BY <2>3, <3>2 DEF now, s
  <2>5. Follows(run[k].effects, path, k)
    <3> DEFINE before == run[k - 1].effects
    <3>1. /\ Follows(before, path, k)
          /\ path[k].kind = "action" => Follows(Append(before, WouldExecute(path[k])), path, k)
      BY <2>1, <2>2, FollowsOn
    <3> QED
      BY <2>4, <3>1
  <2> QED
    BY <2>2, <2>4, <2>5
<1>5. Reached \in SUBSET (0 .. n)
  OBVIOUS
<1>6. n \in 0 .. n
  BY <1>1
<1> HIDE DEF Reached
<1>7. n \in Reached
  BY <1>1, <1>3, <1>4, <1>5, <1>6, PrefixInduction
<1> QED
  BY <1>2, <1>7 DEF Reached, path, n

-----------------------------------------------------------------------------
(* In a list without duplicates an element tells its place.                  *)
LEMMA DistinctIsInjective ==
    ASSUME NEW n \in Nat, NEW list, list = [i \in 1 .. n |-> list[i]], Distinct(list)
    PROVE  \A i, j \in 1 .. n : list[i] = list[j] => i = j
<1> DEFINE S == Elements(list)
<1>1. list \in Surjection(1 .. n, S)
  <2>1. DOMAIN list = 1 .. n
    BY Zenon
  <2>2. \A i \in 1 .. n : list[i] \in S
    BY <2>1 DEF Elements
  <2>3. \A x \in S : \E i \in 1 .. n : list[i] = x
    BY <2>1 DEF Elements
  <2> HIDE DEF S
  <2>4. list \in [1 .. n -> S]
    BY <2>2
  <2> QED
    BY <2>3, <2>4 DEF Surjection
<1>2. Cardinality(S) = n
  BY ListLength DEF Distinct
<1>3. IsFiniteSet(1 .. n) /\ Cardinality(1 .. n) = n
  <2>1. 1 \in Int /\ n \in Int
    OBVIOUS
  <2>2. IsFiniteSet(1 .. n) /\ Cardinality(1 .. n) = IF 1 > n THEN 0 ELSE n - 1 + 1
    BY <2>1, FS_Interval
  <2> QED
    BY <2>2
<1> HIDE DEF S
<1>4. list \in Injection(1 .. n, S)
  BY <1>1, <1>2, <1>3, FS_SurjSameCardinalityImpliesInj
<1> QED
  BY <1>4 DEF Injection, IsInjective

(* Where the parts of a flattened list are: part i after place o[i - 1].     *)
PartsAt(o, n, t) ==
    /\ o[0] = 0 /\ \A i \in 0 .. n : o[i] \in Nat
    /\ \A i \in 1 .. n : o[i] = o[i - 1] + Len(t[i])
    /\ IsSeq(FlattenSeq(t)) /\ Len(FlattenSeq(t)) = o[n]
    /\ \A i \in 1 .. n : \A x \in 1 .. Len(t[i]) :
          o[i - 1] + x \in 1 .. o[n] /\ FlattenSeq(t)[o[i - 1] + x] = t[i][x]
    /\ \A p \in 1 .. o[n] : \E i \in 1 .. n : \E x \in 1 .. Len(t[i]) : p = o[i - 1] + x
    /\ \A k \in 0 .. n : \A i \in 0 .. k : o[i] <= o[k]

(* Every flattened list has such places.                                     *)
LEMMA FlattenPlaces ==
    ASSUME NEW n \in Nat, NEW t, t = [i \in 1 .. n |-> t[i]], \A i \in 1 .. n : IsSeq(t[i])
    PROVE  \E o : PartsAt(o, n, t)
<1>1. PICK flat : /\ flat[0] = <<>> /\ \A i \in 1 .. n : flat[i] = flat[i - 1] \o t[i]
                  /\ FlattenSeq(t) = flat[n]
  BY FlattenIs
<1> DEFINE o == [k \in 0 .. n |-> Len(flat[k])]
           Holds(k) ==
             /\ IsSeq(flat[k])
             /\ o[k] \in Nat
             /\ \A i \in 1 .. k : \A x \in 1 .. Len(t[i]) :
                  o[i - 1] + x \in 1 .. o[k] /\ flat[k][o[i - 1] + x] = t[i][x]
             /\ \A p \in 1 .. o[k] : \E i \in 1 .. k : \E x \in 1 .. Len(t[i]) : p = o[i - 1] + x
             /\ \A i \in 0 .. k : o[i] \in Nat /\ o[i] <= o[k]
           Reached == {k \in 0 .. n : Holds(k)}
<1>2. \A k \in 0 .. n : o[k] = Len(flat[k])
  OBVIOUS
<1> HIDE DEF o
<1>3. 0 \in Reached
  <2>1. 0 \in 0 .. n /\ o[0] = 0 /\ IsSeq(flat[0])
    <3>1. 0 \in 0 .. n
      OBVIOUS
    <3>2. o[0] = Len(flat[0])
      BY <1>2, <3>1
    <3>3. flat[0] = <<>> /\ Len(<<>>) = 0 /\ IsSeq(<<>>)
      BY <1>1, ShortSequences
    <3> QED
      BY <3>1, <3>2, <3>3
  <2>2. \A i \in 0 .. 0 : i = 0
    OBVIOUS
  <2>3. Holds(0)
    BY <2>1, <2>2
  <2> HIDE DEF Holds
  <2> QED
    BY <2>1, <2>3
<1>4. ASSUME NEW k \in 1 .. n, k - 1 \in Reached
      PROVE  k \in Reached /\ o[k] = o[k - 1] + Len(t[k])
  <2>1. k \in Nat /\ k - 1 \in Nat /\ k - 1 \in 0 .. n /\ k \in 0 .. n
    OBVIOUS
  <2>2. Holds(k - 1)
    BY <1>4
  <2> DEFINE before == flat[k - 1]
             piece == t[k]
             L == Len(piece)
  <2>3. /\ flat[k] = before \o piece /\ IsSeq(before) /\ IsSeq(piece)
        /\ o[k - 1] = Len(before) /\ o[k] = Len(before \o piece)
    BY <1>1, <1>2, <2>1, <2>2
  <2>4. /\ Len(before) \in Nat /\ L \in Nat /\ IsSeq(before \o piece)
        /\ Len(before \o piece) = Len(before) + L
        /\ \A i \in 1 .. Len(before) : (before \o piece)[i] = before[i]
        /\ \A i \in 1 .. L : (before \o piece)[Len(before) + i] = piece[i]
    <3> HIDE DEF before, piece
    <3> QED
      BY <2>3, JoinIs
  <2>5. o[k] = o[k - 1] + L /\ o[k - 1] \in Nat /\ L \in Nat
    BY <2>3, <2>4
  <2>6. \A i \in 1 .. o[k - 1] : flat[k][i] = before[i]
    BY <2>3, <2>4
  <2>7. \A i \in 1 .. L : flat[k][o[k - 1] + i] = piece[i]
    BY <2>3, <2>4
  <2>8. ASSUME NEW i \in 1 .. k, NEW x \in 1 .. Len(t[i])
        PROVE  o[i - 1] + x \in 1 .. o[k] /\ flat[k][o[i - 1] + x] = t[i][x]
    <3>1. CASE i = k
      <4>1. x \in 1 .. L
        BY <3>1
      <4>2. o[k - 1] + x \in 1 .. o[k]
        BY <2>5, <4>1
      <4> QED
        BY <2>7, <3>1, <4>1, <4>2
    <3>2. CASE i # k
      <4>1. i \in 1 .. k - 1
        BY <2>1, <3>2
      <4>2. o[i - 1] + x \in 1 .. o[k - 1] /\ before[o[i - 1] + x] = t[i][x]
        BY <2>2, <4>1
      <4>3. \A y \in 1 .. o[k - 1] : y \in 1 .. o[k]
        BY <2>5
      <4> QED
        BY <2>6, <4>2, <4>3
    <3> QED
      BY <3>1, <3>2
  <2>9. ASSUME NEW p \in 1 .. o[k]
        PROVE  \E i \in 1 .. k : \E x \in 1 .. Len(t[i]) : p = o[i - 1] + x
    <3>1. CASE p \in 1 .. o[k - 1]
      <4>1. PICK i \in 1 .. k - 1 : \E x \in 1 .. Len(t[i]) : p = o[i - 1] + x
        BY <2>2, <3>1
      <4>2. i \in 1 .. k
        BY <2>1
      <4> QED
        BY <4>1, <4>2
    <3>2. CASE p \notin 1 .. o[k - 1]
      <4>1. p - o[k - 1] \in 1 .. L /\ p = o[k - 1] + (p - o[k - 1])
        BY <2>5, <3>2
      <4>2. k \in 1 .. k
        BY <2>1
      <4> QED
        BY <4>1, <4>2
    <3> QED
      BY <3>1, <3>2
  <2>10. ASSUME NEW i \in 0 .. k
         PROVE  o[i] \in Nat /\ o[i] <= o[k]
    <3>1. CASE i = k
      BY <2>5, <3>1
    <3>2. CASE i # k
      <4>1. i \in 0 .. k - 1
        BY <2>1, <3>2
      <4>2. o[i] \in Nat /\ o[i] <= o[k - 1]
        BY <2>2, <4>1
      <4> QED
        BY <2>5, <4>2
    <3> QED
      BY <3>1, <3>2
  <2>11. IsSeq(flat[k]) /\ o[k] \in Nat
    BY <2>3, <2>4, <2>5
  <2>12. Holds(k)
    BY <2>8, <2>9, <2>10, <2>11
  <2> HIDE DEF Holds
  <2> QED
    BY <2>1, <2>5, <2>12
<1>5. \A k \in 0 .. n : Holds(k)
  <2> HIDE DEF Holds
  <2>1. Reached \in SUBSET (0 .. n)
    OBVIOUS
  <2> HIDE DEF Reached
  <2>2. Reached = 0 .. n
    BY <1>3, <1>4, <2>1, PrefixInduction
  <2> QED
    BY <2>2 DEF Reached
<1>6. \A i \in 1 .. n : o[i] = o[i - 1] + Len(t[i])
  <2>1. \A i \in 1 .. n : i - 1 \in 0 .. n
    OBVIOUS
  <2> HIDE DEF Holds
  <2> QED
    BY <1>4, <1>5, <2>1
<1>7. n \in 0 .. n /\ 0 \in 0 .. n
  OBVIOUS
<1>8. o[0] = 0
  BY <1>1, <1>2, <1>7, ShortSequences
<1>9. \A k \in 0 .. n : \A i \in 0 .. k : o[i] \in Nat /\ o[i] <= o[k]
  BY <1>5
<1>10. /\ IsSeq(FlattenSeq(t)) /\ Len(FlattenSeq(t)) = o[n]
       /\ \A i \in 1 .. n : \A x \in 1 .. Len(t[i]) :
            o[i - 1] + x \in 1 .. o[n] /\ FlattenSeq(t)[o[i - 1] + x] = t[i][x]
       /\ \A p \in 1 .. o[n] : \E i \in 1 .. n : \E x \in 1 .. Len(t[i]) : p = o[i - 1] + x
  <2>1. Holds(n)
    BY <1>5, <1>7
  <2> QED
    BY <1>1, <1>2, <1>7, <2>1
<1>11. /\ o[0] = 0 /\ \A i \in 0 .. n : o[i] \in Nat
       /\ \A i \in 1 .. n : o[i] = o[i - 1] + Len(t[i])
       /\ \A k \in 0 .. n : \A i \in 0 .. k : o[i] <= o[k]
  BY <1>6, <1>7, <1>8, <1>9
<1> HIDE DEF Holds, Reached
<1>12. PartsAt(o, n, t)
  BY <1>10, <1>11 DEF PartsAt
<1> QED
  BY <1>12

(* The role and the spot of an action among the nodes the safety pass makes  *)
(* of its step.                                                              *)
RoleOfId(id) == IF IsUnlock(id) \/ IsSiren(id) THEN "action" ELSE "user"
SpotOf(s) == IF IsUnlock(s.cap.id) THEN 4 ELSE IF IsSiren(s.cap.id) THEN 2 ELSE 1
GateKinds ==
    <<"human_approval", "resource_reservation", "read_before_write", "action", "verify_after_write">>

(* The five nodes of an unlock (safety.go:walkFlow).                         *)
LEMMA UnlockNodes ==
    ASSUME NEW s, NEW descriptors, s.kind = "action", IsUnlock(s.cap.id)
    PROVE  LET nodes == NodesOf(s, descriptors)
           IN  /\ IsSeq(nodes) /\ Len(nodes) = 5
               /\ \A y \in 1 .. 5 : \E role : nodes[y].id = <<role, s.id>>
               /\ \A y, z \in 1 .. 5 : nodes[y].id = nodes[z].id => y = z
               /\ nodes[4].id = <<"action", s.id>>
               /\ \A y \in 1 .. 5 : nodes[y].kind = GateKinds[y]
<1> DEFINE nodes == NodesOf(s, descriptors)
           u == Node("approval", s, "human_approval", "critical", TRUE)
           v == Node("lock", s, "resource_reservation", "high", TRUE)
           c == Node("read", s, "read_before_write", "low", TRUE)
           d == Node("action", s, "action", "critical", FALSE)
           e == Node("verify", s, "verify_after_write", "low", TRUE)
<1>1. nodes = <<u, v, c, d, e>>
  BY DEF NodesOf
<1>2. /\ u.id = <<"approval", s.id>> /\ u.kind = "human_approval"
      /\ v.id = <<"lock", s.id>> /\ v.kind = "resource_reservation"
      /\ c.id = <<"read", s.id>> /\ c.kind = "read_before_write"
      /\ d.id = <<"action", s.id>> /\ d.kind = "action"
      /\ e.id = <<"verify", s.id>> /\ e.kind = "verify_after_write"
  BY DEF Node
<1> HIDE DEF nodes, u, v, c, d, e
<1>3. nodes = [y \in 1 .. 5 |-> nodes[y]]
  BY <1>1
<1>4. IsSeq(nodes) /\ Len(nodes) = 5
  BY <1>3, SequenceIs
<1>5. nodes[1] = u /\ nodes[2] = v /\ nodes[3] = c /\ nodes[4] = d /\ nodes[5] = e
  BY <1>1
<1>6. \A y \in 1 .. 5 : y = 1 \/ y = 2 \/ y = 3 \/ y = 4 \/ y = 5
  OBVIOUS
<1>7. \A y \in 1 .. 5 : \E role : nodes[y].id = <<role, s.id>>
  BY <1>2, <1>5, <1>6
<1>8. \A y, z \in 1 .. 5 : nodes[y].id = nodes[z].id => y = z
  BY <1>2, <1>5, <1>6
<1>9. \A y \in 1 .. 5 : nodes[y].kind = GateKinds[y]
  BY <1>2, <1>5, <1>6 DEF GateKinds
<1> QED
  BY <1>2, <1>4, <1>5, <1>7, <1>8, <1>9 DEF nodes

(* The three nodes of a siren (safety.go:walkFlow).                          *)
LEMMA SirenNodes ==
    ASSUME NEW s, NEW descriptors, s.kind = "action", ~IsUnlock(s.cap.id), IsSiren(s.cap.id)
    PROVE  LET nodes == NodesOf(s, descriptors)
           IN  /\ IsSeq(nodes) /\ Len(nodes) = 3
               /\ \A y \in 1 .. 3 : \E role : nodes[y].id = <<role, s.id>>
               /\ \A y, z \in 1 .. 3 : nodes[y].id = nodes[z].id => y = z
               /\ nodes[2].id = <<"action", s.id>> /\ nodes[2].kind = "action"
<1> DEFINE nodes == NodesOf(s, descriptors)
           u == Node("duration", s, "duration_limit", "medium", TRUE)
           v == Node("action", s, "action", "high", FALSE)
           c == Node("comp", s, "compensation", "low", TRUE)
<1>1. nodes = <<u, v, c>>
  BY DEF NodesOf
<1>2. /\ u.id = <<"duration", s.id>> /\ c.id = <<"comp", s.id>>
      /\ v.id = <<"action", s.id>> /\ v.kind = "action"
  BY DEF Node
<1> HIDE DEF nodes, u, v, c
<1>3. nodes = [y \in 1 .. 3 |-> nodes[y]]
  BY <1>1
<1>4. IsSeq(nodes) /\ Len(nodes) = 3
  BY <1>3, SequenceIs
<1>5. nodes[1] = u /\ nodes[2] = v /\ nodes[3] = c
  BY <1>1
<1>6. \A y \in 1 .. 3 : y = 1 \/ y = 2 \/ y = 3
  OBVIOUS
<1>7. \A y \in 1 .. 3 : \E role : nodes[y].id = <<role, s.id>>
  BY <1>2, <1>5, <1>6
<1>8. \A y, z \in 1 .. 3 : nodes[y].id = nodes[z].id => y = z
  BY <1>2, <1>5, <1>6
<1> QED
  BY <1>2, <1>4, <1>5, <1>7, <1>8 DEF nodes

(* The one node of any other step (safety.go:walkFlow).                      *)
LEMMA PlainNodes ==
    ASSUME NEW s, NEW descriptors, s.kind = "action" => ~IsUnlock(s.cap.id) /\ ~IsSiren(s.cap.id)
    PROVE  LET nodes == NodesOf(s, descriptors)
           IN  /\ IsSeq(nodes) /\ Len(nodes) = 1
               /\ nodes[1].id = <<"user", s.id>>
               /\ s.kind = "action" => nodes[1].kind = "action"
<1>1. \E kind, risk : NodesOf(s, descriptors) = <<Node("user", s, kind, risk, FALSE)>>
                        /\ (s.kind = "action" => kind = "action")
  BY DEF NodesOf
<1>2. PICK kind, risk : NodesOf(s, descriptors) = <<Node("user", s, kind, risk, FALSE)>>
                          /\ (s.kind = "action" => kind = "action")
  BY <1>1
<1> DEFINE u == Node("user", s, kind, risk, FALSE)
<1>3. u.id = <<"user", s.id>> /\ u.kind = kind
  BY DEF Node
<1> HIDE DEF u
<1>4. IsSeq(<<u>>) /\ Len(<<u>>) = 1 /\ <<u>>[1] = u
  BY ShortSequences
<1> QED
  BY <1>2, <1>3, <1>4 DEF u

(* The nodes of a step.                                                      *)
LEMMA NodesOfIs ==
    ASSUME NEW s, NEW descriptors
    PROVE  LET nodes == NodesOf(s, descriptors)
           IN  /\ IsSeq(nodes) /\ Len(nodes) \in Nat /\ DOMAIN nodes = 1 .. Len(nodes)
               /\ \A y \in DOMAIN nodes : \E role : nodes[y].id = <<role, s.id>>
               /\ \A y, z \in DOMAIN nodes : nodes[y].id = nodes[z].id => y = z
               /\ s.kind = "action" => /\ SpotOf(s) \in DOMAIN nodes
                                       /\ nodes[SpotOf(s)].id = <<RoleOfId(s.cap.id), s.id>>
                                       /\ nodes[SpotOf(s)].kind = "action"
               /\ s.kind = "action" /\ IsUnlock(s.cap.id) =>
                    /\ Len(nodes) = 5 /\ SpotOf(s) = 4
                    /\ \A y \in 1 .. 5 : nodes[y].kind = GateKinds[y]
<1> DEFINE nodes == NodesOf(s, descriptors)
<1>1. CASE s.kind = "action" /\ IsUnlock(s.cap.id)
  <2>1. /\ IsSeq(nodes) /\ Len(nodes) = 5
        /\ \A y \in 1 .. 5 : \E role : nodes[y].id = <<role, s.id>>
        /\ \A y, z \in 1 .. 5 : nodes[y].id = nodes[z].id => y = z
        /\ nodes[4].id = <<"action", s.id>>
        /\ \A y \in 1 .. 5 : nodes[y].kind = GateKinds[y]
    BY <1>1, UnlockNodes
  <2>2. DOMAIN nodes = 1 .. 5 /\ 4 \in 1 .. 5 /\ 5 \in Nat
    <3> HIDE DEF nodes
    <3> QED
      BY <2>1, JoinIs
  <2>3. SpotOf(s) = 4 /\ RoleOfId(s.cap.id) = "action" /\ GateKinds[4] = "action"
    BY <1>1 DEF SpotOf, RoleOfId, GateKinds
  <2> HIDE DEF nodes
  <2> QED
    BY <2>1, <2>2, <2>3 DEF nodes
<1>2. CASE s.kind = "action" /\ ~IsUnlock(s.cap.id) /\ IsSiren(s.cap.id)
  <2>1. /\ IsSeq(nodes) /\ Len(nodes) = 3
        /\ \A y \in 1 .. 3 : \E role : nodes[y].id = <<role, s.id>>
        /\ \A y, z \in 1 .. 3 : nodes[y].id = nodes[z].id => y = z
        /\ nodes[2].id = <<"action", s.id>> /\ nodes[2].kind = "action"
    BY <1>2, SirenNodes
  <2>2. DOMAIN nodes = 1 .. 3 /\ 2 \in 1 .. 3 /\ 3 \in Nat
    <3> HIDE DEF nodes
    <3> QED
      BY <2>1, JoinIs
  <2>3. SpotOf(s) = 2 /\ RoleOfId(s.cap.id) = "action"
    BY <1>2 DEF SpotOf, RoleOfId
  <2> HIDE DEF nodes
  <2> QED
    BY <1>2, <2>1, <2>2, <2>3 DEF nodes
<1>3. CASE s.kind = "action" => ~IsUnlock(s.cap.id) /\ ~IsSiren(s.cap.id)
  <2>1. /\ IsSeq(nodes) /\ Len(nodes) = 1
        /\ nodes[1].id = <<"user", s.id>>
        /\ s.kind = "action" => nodes[1].kind = "action"
    BY <1>3, PlainNodes
  <2>2. DOMAIN nodes = 1 .. 1 /\ 1 \in 1 .. 1 /\ 1 \in Nat /\ \A y \in 1 .. 1 : y = 1
    <3> HIDE DEF nodes
    <3> QED
      BY <2>1, JoinIs
  <2>3. s.kind = "action" => SpotOf(s) = 1 /\ RoleOfId(s.cap.id) = "user"
    BY <1>3 DEF SpotOf, RoleOfId
  <2> HIDE DEF nodes
  <2> QED
    BY <1>3, <2>1, <2>2, <2>3 DEF nodes
<1> QED
  BY <1>1, <1>2, <1>3

(* Where the nodes of each step of a walk are in the graph.                  *)
StepNodes(w, descriptors) == [i \in DOMAIN w |-> NodesOf(w[i], descriptors)]
PlacedAt(at, graph, w, descriptors) ==
    /\ \A i \in 1 .. Len(w) : at[i] \in Nat
    /\ \A i \in 1 .. Len(w) : \A x \in DOMAIN NodesOf(w[i], descriptors) :
          /\ at[i] + x \in DOMAIN graph \ {1}
          /\ graph[at[i] + x] = NodesOf(w[i], descriptors)[x]
          /\ \A p \in DOMAIN graph \ {1} :
                graph[p].id = NodesOf(w[i], descriptors)[x].id => p = at[i] + x
    /\ \A i, j \in 1 .. Len(w) : i < j =>
          \A x \in DOMAIN NodesOf(w[i], descriptors) : at[i] + x <= at[j]

(* Steps told apart by their names.                                          *)
Unlike(w) == \A i, j \in 1 .. Len(w) : w[i].id = w[j].id => i = j

(* In the graph of steps told apart by their names, each step has its nodes  *)
(* at a place of its own, after those of the steps before it.                *)
LEMMA GraphPlaces ==
    ASSUME NEW w, IsSeq(w), Unlike(w), NEW descriptors,
           NEW graph, graph = <<Entry>> \o FlattenSeq(StepNodes(w, descriptors))
    PROVE  graph[1] = Entry /\ 1 \in DOMAIN graph /\ \E at : PlacedAt(at, graph, w, descriptors)
<1> DEFINE n == Len(w)
           t == StepNodes(w, descriptors)
           flat == FlattenSeq(t)
<1>1. n \in Nat /\ DOMAIN w = 1 .. n
  BY JoinIs
<1>2. t = [i \in 1 .. n |-> t[i]] /\ \A i \in 1 .. n : t[i] = NodesOf(w[i], descriptors)
  BY <1>1 DEF StepNodes
<1> HIDE DEF t, n
<1>3. \A i \in 1 .. n : /\ IsSeq(t[i]) /\ Len(t[i]) \in Nat /\ DOMAIN t[i] = 1 .. Len(t[i])
                        /\ \A y \in DOMAIN t[i] : \E role : t[i][y].id = <<role, w[i].id>>
                        /\ \A y, z \in DOMAIN t[i] : t[i][y].id = t[i][z].id => y = z
  BY <1>2, NodesOfIs
<1>4. PICK o : PartsAt(o, n, t)
  <2>1. \A i \in 1 .. n : IsSeq(t[i])
    BY <1>3
  <2> QED
    BY <1>1, <1>2, <2>1, FlattenPlaces
<1>14. /\ o[0] = 0 /\ \A i \in 0 .. n : o[i] \in Nat
       /\ \A i \in 1 .. n : o[i] = o[i - 1] + Len(t[i])
       /\ IsSeq(flat) /\ Len(flat) = o[n]
       /\ \A i \in 1 .. n : \A x \in 1 .. Len(t[i]) :
            o[i - 1] + x \in 1 .. o[n] /\ flat[o[i - 1] + x] = t[i][x]
       /\ \A p \in 1 .. o[n] : \E i \in 1 .. n : \E x \in 1 .. Len(t[i]) : p = o[i - 1] + x
       /\ \A k \in 0 .. n : \A i \in 0 .. k : o[i] <= o[k]
  BY <1>4 DEF PartsAt
<1> HIDE DEF flat
<1>5. graph = <<Entry>> \o flat
  BY DEF flat, t
<1>6. /\ DOMAIN graph = 1 .. 1 + o[n] /\ graph[1] = Entry
      /\ \A i \in 1 .. o[n] : graph[1 + i] = flat[i]
  <2>1. IsSeq(<<Entry>>) /\ Len(<<Entry>>) = 1 /\ <<Entry>>[1] = Entry
    BY ShortSequences
  <2>2. /\ IsSeq(<<Entry>> \o flat) /\ Len(<<Entry>> \o flat) = 1 + Len(flat)
        /\ \A i \in 1 .. 1 : (<<Entry>> \o flat)[i] = <<Entry>>[i]
        /\ \A i \in 1 .. Len(flat) : (<<Entry>> \o flat)[1 + i] = flat[i]
    BY <1>14, <2>1, JoinIs
  <2>3. DOMAIN graph = 1 .. Len(graph)
    BY <1>5, <2>2, JoinIs
  <2> QED
    BY <1>14, <1>5, <2>1, <2>2, <2>3
<1> DEFINE at == [i \in 1 .. n |-> 1 + o[i - 1]]
<1>7. ASSUME NEW i \in 1 .. n
      PROVE  i - 1 \in 0 .. n /\ i \in 0 .. n /\ at[i] = 1 + o[i - 1] /\ at[i] \in Nat /\ o[i - 1] \in Nat
  BY <1>1, <1>14
<1>8. n \in 0 .. n /\ o[n] \in Nat
  BY <1>1, <1>14
<1> HIDE DEF at
<1>9. ASSUME NEW i \in 1 .. n, NEW x \in 1 .. Len(t[i])
      PROVE  /\ at[i] + x \in DOMAIN graph \ {1}
             /\ graph[at[i] + x] = t[i][x]
             /\ at[i] + x = 1 + (o[i - 1] + x)
  <2>1. o[i - 1] + x \in 1 .. o[n] /\ flat[o[i - 1] + x] = t[i][x] /\ o[i - 1] + x \in Nat
    BY <1>14, <1>8
  <2>2. at[i] + x = 1 + (o[i - 1] + x)
    <3>1. x \in Nat
      BY <1>3
    <3>2. at[i] = 1 + o[i - 1] /\ o[i - 1] \in Nat
      BY <1>7
    <3> QED
      BY <3>1, <3>2
  <2>3. 1 + (o[i - 1] + x) \in 1 .. 1 + o[n] /\ 1 + (o[i - 1] + x) # 1
    BY <1>8, <2>1
  <2>4. graph[1 + (o[i - 1] + x)] = flat[o[i - 1] + x]
    BY <1>6, <2>1
  <2> QED
    BY <1>6, <2>1, <2>2, <2>3, <2>4
<1>10. ASSUME NEW i \in 1 .. n, NEW x \in 1 .. Len(t[i]), NEW p \in DOMAIN graph \ {1},
              graph[p].id = t[i][x].id
       PROVE  p = at[i] + x
  <2>1. p - 1 \in 1 .. o[n] /\ p = 1 + (p - 1)
    BY <1>6, <1>8
  <2>2. PICK j \in 1 .. n : \E y \in 1 .. Len(t[j]) : p - 1 = o[j - 1] + y
    BY <1>14, <2>1
  <2>3. PICK y \in 1 .. Len(t[j]) : p - 1 = o[j - 1] + y
    BY <2>2
  <2>4. p = at[j] + y /\ graph[p] = t[j][y]
    <3>1. at[j] + y = 1 + (o[j - 1] + y) /\ graph[at[j] + y] = t[j][y]
      BY <1>9
    <3> QED
      BY <2>1, <2>3, <3>1
  <2>5. t[j][y].id = t[i][x].id
    BY <1>10, <2>4
  <2>6. PICK r : t[j][y].id = <<r, w[j].id>>
    BY <1>3
  <2>7. PICK q : t[i][x].id = <<q, w[i].id>>
    BY <1>3
  <2>8. w[i].id = w[j].id
    <3>1. <<r, w[j].id>> = <<q, w[i].id>>
      BY <2>5, <2>6, <2>7, Zenon
    <3> QED
      BY <3>1
  <2>9. i = j
    BY <2>8 DEF n, Unlike
  <2>10. y = x
    BY <1>3, <2>5, <2>9
  <2> QED
    BY <2>4, <2>9, <2>10
<1>11. ASSUME NEW i \in 1 .. n, NEW j \in 1 .. n, i < j, NEW x \in 1 .. Len(t[i])
       PROVE  at[i] + x <= at[j]
  <2>1. i \in 0 .. j - 1 /\ j - 1 \in 0 .. n
    BY <1>1, <1>11
  <2>2. o[i] <= o[j - 1] /\ o[i] = o[i - 1] + Len(t[i])
    BY <1>14, <2>1
  <2>3. /\ at[i] = 1 + o[i - 1] /\ at[j] = 1 + o[j - 1] /\ o[i - 1] \in Nat /\ o[j - 1] \in Nat
        /\ Len(t[i]) \in Nat
    BY <1>3, <1>7
  <2> QED
    BY <2>2, <2>3
<1>12. PlacedAt(at, graph, w, descriptors)
  <2>1. \A i \in 1 .. n : NodesOf(w[i], descriptors) = t[i] /\ DOMAIN t[i] = 1 .. Len(t[i])
    BY <1>2, <1>3
  <2>2. \A i \in 1 .. n : at[i] \in Nat
    BY <1>7
  <2>3. ASSUME NEW i \in 1 .. n, NEW x \in DOMAIN NodesOf(w[i], descriptors)
        PROVE  /\ at[i] + x \in DOMAIN graph \ {1}
               /\ graph[at[i] + x] = NodesOf(w[i], descriptors)[x]
               /\ \A p \in DOMAIN graph \ {1} :
                     graph[p].id = NodesOf(w[i], descriptors)[x].id => p = at[i] + x
    <3>1. NodesOf(w[i], descriptors) = t[i] /\ x \in 1 .. Len(t[i])
      BY <2>1
    <3>2. at[i] + x \in DOMAIN graph \ {1} /\ graph[at[i] + x] = t[i][x]
      BY <1>9, <3>1
    <3>3. \A p \in DOMAIN graph \ {1} : graph[p].id = t[i][x].id => p = at[i] + x
      BY <1>10, <3>1
    <3> QED
      BY <3>1, <3>2, <3>3
  <2>4. \A i, j \in 1 .. n : i < j => \A x \in DOMAIN NodesOf(w[i], descriptors) : at[i] + x <= at[j]
    BY <1>11, <2>1
  <2> QED
    BY <2>2, <2>3, <2>4 DEF PlacedAt, n
<1>13. 1 \in DOMAIN graph
  BY <1>6, <1>8
<1> QED
  BY <1>6, <1>12, <1>13

(* What a dry run would execute are actions of the walk of the safety pass,  *)
(* in order.                                                                 *)
StandFor(q, effects, w) ==
    /\ q \in [1 .. Len(effects) -> 1 .. Len(w)]
    /\ \A i, j \in 1 .. Len(effects) : i < j => q[i] < q[j]
    /\ \A i \in 1 .. Len(effects) :
          /\ w[q[i]].kind = "action" /\ w[q[i]].id = Trim(effects[i].step)
          /\ IsUnlock(w[q[i]].cap.id) = IsUnlock(effects[i].cap)
          /\ IsSiren(w[q[i]].cap.id) = IsSiren(effects[i].cap)

(* So it is for every flow of a document.                                    *)
LEMMA EffectsAreWalked ==
    ASSUME NEW flow, IsFlow(flow), NEW env, NEW ctx
    PROVE  LET effects == Execute(flow, env, ctx).effects
               w == Walk(NormalFlow(flow), {"if"})
           IN  IsSeq(effects) /\ IsSeq(w) /\ \E q : StandFor(q, effects, w)
<1> DEFINE effects == Execute(flow, env, ctx).effects
           w == Walk(NormalFlow(flow), {"if"})
           path == Path(flow, env)
<1>1. 0 \in 0 .. MaxNesting /\ flow \in FlowsAt(flow, {"if"})[0]
  BY NestingAssumption, FlowsAtIs
<1>2. Keeps(PathsAt(flow, env)[0][flow], NormalWalk(flow, {"if"}, 0, flow), Normalized(flow))
  BY <1>1, PathKeepsToWalk
<1>3. Keeps(path, w, Normalized(flow))
  BY <1>2 DEF Path, Walk, NormalWalk, NormalAt, NormalFlow
<1> HIDE DEF path, w
<1>4. PICK m : KeepsBy(m, path, w, Normalized(flow))
  BY <1>3 DEF Keeps
<1>5. IsSeq(path) /\ IsSeq(w)
  BY <1>3 DEF Keeps
<1>6. Follows(effects, path, Len(path))
  BY <1>5, EffectsFollowPath DEF path
<1> HIDE DEF effects
<1>7. PICK g : FollowsBy(g, effects, path, Len(path))
  BY <1>6 DEF Follows
<1>8. IsSeq(effects)
  BY <1>6 DEF Follows
<1> DEFINE n == Len(effects)
           q == [i \in 1 .. n |-> m[g[i]]]
<1>9. /\ g \in [1 .. n -> 1 .. Len(path)] /\ \A i, j \in 1 .. n : i < j => g[i] < g[j]
      /\ \A i \in 1 .. n : path[g[i]].kind = "action" /\ effects[i] = WouldExecute(path[g[i]])
  BY <1>7 DEF FollowsBy
<1>10. /\ m \in [1 .. Len(path) -> 1 .. Len(w)]
       /\ \A i, j \in 1 .. Len(path) : i < j => m[i] < m[j]
       /\ \A i \in 1 .. Len(path) : <<path[i], w[m[i]]>> \in Normalized(flow)
  BY <1>4 DEF KeepsBy
<1> HIDE DEF n
<1>11. q \in [1 .. n -> 1 .. Len(w)] /\ \A i \in 1 .. n : q[i] = m[g[i]]
  BY <1>9, <1>10
<1> HIDE DEF q
<1>12. \A i, j \in 1 .. n : i < j => q[i] < q[j]
  BY <1>9, <1>10, <1>11
<1>13. ASSUME NEW i \in 1 .. n
       PROVE  /\ w[q[i]].kind = "action" /\ w[q[i]].id = Trim(effects[i].step)
              /\ IsUnlock(w[q[i]].cap.id) = IsUnlock(effects[i].cap)
              /\ IsSiren(w[q[i]].cap.id) = IsSiren(effects[i].cap)
  <2> DEFINE s == path[g[i]]
             x == w[q[i]]
  <2>1. s.kind = "action" /\ effects[i] = WouldExecute(s)
    BY <1>9
  <2>2. <<s, x>> \in Normalized(flow)
    BY <1>9, <1>10, <1>11
  <2> HIDE DEF s, x
  <2>3. s \in AllSteps(flow) /\ \E flows : x = NormalStep(s, flows)
    BY <2>2 DEF Normalized
  <2>4. IsStep(s)
    BY <2>3 DEF IsFlow
  <2>5. x.kind = "action" /\ x.id = Trim(s.id) /\ x.cap.id = Trim(s.cap.id)
    BY <2>1, <2>3, <2>4, NormalStepKeeps
  <2>6. effects[i].step = s.id /\ effects[i].cap = s.cap.id
    BY <2>1 DEF WouldExecute
  <2>7. IsUnlock(x.cap.id) = IsUnlock(s.cap.id) /\ IsSiren(x.cap.id) = IsSiren(s.cap.id)
    BY <2>5, WordsStay
  <2> QED
    BY <2>5, <2>6, <2>7 DEF x
<1>14. StandFor(q, effects, w)
  BY <1>11, <1>12, <1>13 DEF StandFor, n
<1> QED
  BY <1>5, <1>8, <1>14 DEF effects, w

(* No two steps the safety pass meets bear one name, if no two steps do.     *)
LEMMA WalkedIdsDiffer ==
    ASSUME NEW flow, IsFlow(flow), Distinct(Ids(Walk(NormalFlow(flow), Branching)))
    PROVE  Unlike(Walk(NormalFlow(flow), {"if"}))
<1> DEFINE w == Walk(NormalFlow(flow), {"if"})
           v == Walk(NormalFlow(flow), Branching)
           R == {pair \in AllSteps(NormalFlow(flow)) \X AllSteps(NormalFlow(flow)) : pair[1] = pair[2]}
<1>1. 0 \in 0 .. MaxNesting /\ flow \in FlowsAt(flow, {"if"})[0]
  BY NestingAssumption, FlowsAtIs
<1>2. Keeps(NormalWalk(flow, {"if"}, 0, flow), NormalWalk(flow, Branching, 0, flow), R)
  BY <1>1, NarrowKeepsToWhole
<1>3. Keeps(w, v, R)
  <2> HIDE DEF R
  <2> QED
    BY <1>2 DEF Walk, NormalWalk, NormalAt, NormalFlow
<1>4. Distinct(Ids(v))
  OBVIOUS
<1> HIDE DEF w, v
<1>5. PICK m : KeepsBy(m, w, v, R)
  <2> HIDE DEF R
  <2> QED
    BY <1>3 DEF Keeps
<1>6. /\ m \in [1 .. Len(w) -> 1 .. Len(v)] /\ \A i, j \in 1 .. Len(w) : i < j => m[i] < m[j]
      /\ \A i \in 1 .. Len(w) : w[i] = v[m[i]]
  BY <1>5 DEF KeepsBy
<1>7. Len(v) \in Nat /\ DOMAIN v = 1 .. Len(v) /\ Len(w) \in Nat
  <2>1. IsSeq(v) /\ IsSeq(w)
    <3> HIDE DEF R
    <3> QED
      BY <1>3 DEF Keeps
  <2> QED
    BY <2>1, JoinIs
<1>8. \A i, j \in 1 .. Len(v) : v[i].id = v[j].id => i = j
  <2> DEFINE list == Ids(v)
             n == Len(v)
  <2>1. list = [i \in 1 .. n |-> list[i]] /\ \A i \in 1 .. n : list[i] = v[i].id
    BY <1>7 DEF Ids
  <2> HIDE DEF list, n
  <2>2. n \in Nat /\ Distinct(list)
    BY <1>4, <1>7 DEF n, list
  <2>3. \A i, j \in 1 .. n : list[i] = list[j] => i = j
    BY <2>1, <2>2, DistinctIsInjective
  <2>4. \A i, j \in 1 .. n : v[i].id = v[j].id => i = j
    BY <2>1, <2>3
  <2> QED
    BY <2>4 DEF n
<1>9. ASSUME NEW i \in 1 .. Len(w), NEW j \in 1 .. Len(w), w[i].id = w[j].id
      PROVE  i = j
  <2>1. v[m[i]].id = v[m[j]].id /\ m[i] \in 1 .. Len(v) /\ m[j] \in 1 .. Len(v)
    BY <1>6, <1>9
  <2>2. m[i] = m[j]
    BY <1>8, <2>1
  <2>3. ~(i < j) /\ ~(j < i)
    BY <1>6, <1>7, <2>1, <2>2
  <2> QED
    BY <1>7, <2>3
<1> QED
  BY <1>9 DEF w, Unlike

(* The nodes of the plan are those of the graph, by their types.             *)
TypeOfKind(kind) == IF kind \in DOMAIN NodeType THEN NodeType[kind] ELSE "Activity"
GateTypes == <<"Human", "ResourceLock", "ReadState", "Activity", "VerifyWrite">>

(* The types of the nodes around an unlock.                                  *)
LEMMA TypesOfGate ==
    /\ TypeOfKind("trigger") = "Trigger" /\ TypeOfKind("action") = "Activity"
    /\ \A k \in 1 .. 5 : TypeOfKind(GateKinds[k]) = GateTypes[k]
<1>1. TypeOfKind("trigger") = "Trigger" /\ TypeOfKind("action") = "Activity"
  BY DEF TypeOfKind, NodeType
<1>2. /\ TypeOfKind("human_approval") = "Human" /\ TypeOfKind("resource_reservation") = "ResourceLock"
      /\ TypeOfKind("read_before_write") = "ReadState" /\ TypeOfKind("verify_after_write") = "VerifyWrite"
  BY DEF TypeOfKind, NodeType
<1>3. \A k \in 1 .. 5 : k = 1 \/ k = 2 \/ k = 3 \/ k = 4 \/ k = 5
  OBVIOUS
<1>4. /\ GateKinds[1] = "human_approval" /\ GateKinds[2] = "resource_reservation"
      /\ GateKinds[3] = "read_before_write" /\ GateKinds[4] = "action"
      /\ GateKinds[5] = "verify_after_write"
  BY DEF GateKinds
<1>5. /\ GateTypes[1] = "Human" /\ GateTypes[2] = "ResourceLock" /\ GateTypes[3] = "ReadState"
      /\ GateTypes[4] = "Activity" /\ GateTypes[5] = "VerifyWrite"
  BY DEF GateTypes
<1> QED
  BY <1>1, <1>2, <1>3, <1>4, <1>5

(* The place of an effect in the plan: no other node stands for it, and      *)
(* around an unlock are its gates.                                           *)
InPlace(p, e, nodes) ==
    /\ p \in DOMAIN nodes /\ StandsFor(nodes[p], RoleOf(e), Trim(e.step))
    /\ \A x \in DOMAIN nodes : StandsFor(nodes[x], RoleOf(e), Trim(e.step)) => x = p
    /\ IsUnlock(e.cap) => \A k \in 1 .. 5 : nodes[p + k - 4].type = GateTypes[k]

Lowered(nodes, graph) ==
    /\ DOMAIN nodes = DOMAIN graph
    /\ \A p \in DOMAIN graph :
          nodes[p].id = graph[p].id /\ nodes[p].type = TypeOfKind(graph[p].kind)

(* Effects that stand for steps told apart by their names have their places  *)
(* in the plan, in order.                                                    *)
LEMMA EffectsInPlace ==
    ASSUME NEW w, IsSeq(w), Unlike(w), NEW descriptors,
           NEW graph, graph = <<Entry>> \o FlattenSeq(StepNodes(w, descriptors)),
           NEW nodes, Lowered(nodes, graph), NEW effects, NEW q, StandFor(q, effects, w)
    PROVE  \E place : /\ \A i \in 1 .. Len(effects) : InPlace(place[i], effects[i], nodes)
                      /\ \A i, j \in 1 .. Len(effects) : i < j => place[i] < place[j]
<1>1. /\ graph[1] = Entry /\ 1 \in DOMAIN graph /\ \E at : PlacedAt(at, graph, w, descriptors)
  BY GraphPlaces
<1>2. PICK at : PlacedAt(at, graph, w, descriptors)
  BY <1>1
<1> DEFINE n == Len(effects)
           step(i) == w[q[i]]
           place == [i \in 1 .. n |-> at[q[i]] + SpotOf(step(i))]
<1>3. /\ q \in [1 .. n -> 1 .. Len(w)] /\ \A i, j \in 1 .. n : i < j => q[i] < q[j]
      /\ \A i \in 1 .. n : /\ step(i).kind = "action" /\ step(i).id = Trim(effects[i].step)
                           /\ IsUnlock(step(i).cap.id) = IsUnlock(effects[i].cap)
                           /\ IsSiren(step(i).cap.id) = IsSiren(effects[i].cap)
  BY DEF StandFor
<1>4. /\ \A i \in 1 .. Len(w) : at[i] \in Nat
      /\ \A i \in 1 .. Len(w) : \A x \in DOMAIN NodesOf(w[i], descriptors) :
           /\ at[i] + x \in DOMAIN graph \ {1}
           /\ graph[at[i] + x] = NodesOf(w[i], descriptors)[x]
           /\ \A p \in DOMAIN graph \ {1} :
                 graph[p].id = NodesOf(w[i], descriptors)[x].id => p = at[i] + x
      /\ \A i, j \in 1 .. Len(w) : i < j =>
           \A x \in DOMAIN NodesOf(w[i], descriptors) : at[i] + x <= at[j]
  BY <1>2 DEF PlacedAt
<1>5. \A i \in 1 .. n : place[i] = at[q[i]] + SpotOf(step(i))
  OBVIOUS
<1>10. ASSUME NEW r \in 1 .. Len(w), NEW y \in DOMAIN NodesOf(w[r], descriptors)
       PROVE  at[r] + y \in DOMAIN graph /\ graph[at[r] + y] = NodesOf(w[r], descriptors)[y]
  BY <1>4
<1> HIDE DEF n, place
<1>6. nodes[1].type = "Trigger"
  <2>1. Entry.kind = "trigger"
    BY DEF Entry
  <2> QED
    BY <1>1, <2>1, TypesOfGate DEF Lowered
<1>7. ASSUME NEW i \in 1 .. n
      PROVE  /\ q[i] \in 1 .. Len(w) /\ SpotOf(step(i)) \in DOMAIN NodesOf(step(i), descriptors)
             /\ NodesOf(step(i), descriptors)[SpotOf(step(i))].id = <<RoleOf(effects[i]), Trim(effects[i].step)>>
             /\ NodesOf(step(i), descriptors)[SpotOf(step(i))].kind = "action"
             /\ SpotOf(step(i)) \in Nat /\ SpotOf(step(i)) > 0
             /\ at[q[i]] \in Nat
  <2> DEFINE s == step(i)
  <2>1. /\ s.kind = "action" /\ s.id = Trim(effects[i].step)
        /\ IsUnlock(s.cap.id) = IsUnlock(effects[i].cap) /\ IsSiren(s.cap.id) = IsSiren(effects[i].cap)
    BY <1>3
  <2>2. q[i] \in 1 .. Len(w) /\ at[q[i]] \in Nat
    BY <1>3, <1>4
  <2> HIDE DEF s
  <2>3. RoleOfId(s.cap.id) = RoleOf(effects[i])
    BY <2>1 DEF RoleOfId, RoleOf
  <2>4. /\ SpotOf(s) \in DOMAIN NodesOf(s, descriptors)
        /\ NodesOf(s, descriptors)[SpotOf(s)].id = <<RoleOfId(s.cap.id), s.id>>
        /\ NodesOf(s, descriptors)[SpotOf(s)].kind = "action"
    BY <2>1, NodesOfIs
  <2>5. SpotOf(s) \in Nat /\ SpotOf(s) > 0
    BY DEF SpotOf
  <2> QED
    BY <2>1, <2>2, <2>3, <2>4, <2>5 DEF s
<1> HIDE DEF step
<1>8. ASSUME NEW i \in 1 .. n
      PROVE  InPlace(place[i], effects[i], nodes)
  <2> DEFINE s == step(i)
             p == place[i]
             x == SpotOf(s)
             id == <<RoleOf(effects[i]), Trim(effects[i].step)>>
  <2>1. /\ q[i] \in 1 .. Len(w) /\ x \in DOMAIN NodesOf(s, descriptors)
        /\ NodesOf(s, descriptors)[x].id = id /\ NodesOf(s, descriptors)[x].kind = "action"
        /\ p = at[q[i]] + x /\ w[q[i]] = s /\ at[q[i]] \in Nat
    BY <1>5, <1>7 DEF step
  <2> HIDE DEF s, p, x, id
  <2>2. /\ p \in DOMAIN graph \ {1} /\ graph[p] = NodesOf(s, descriptors)[x]
        /\ \A y \in DOMAIN graph \ {1} : graph[y].id = id => y = p
    <3>1. x \in DOMAIN NodesOf(w[q[i]], descriptors)
      BY <2>1
    <3>2. /\ at[q[i]] + x \in DOMAIN graph \ {1}
          /\ graph[at[q[i]] + x] = NodesOf(w[q[i]], descriptors)[x]
          /\ \A y \in DOMAIN graph \ {1} :
                graph[y].id = NodesOf(w[q[i]], descriptors)[x].id => y = at[q[i]] + x
      BY <1>4, <2>1, <3>1
    <3> QED
      BY <2>1, <3>2
  <2>3. nodes[p].id = id /\ nodes[p].type = "Activity"
    <3>1. graph[p].id = id /\ graph[p].kind = "action" /\ p \in DOMAIN graph
      BY <2>1, <2>2
    <3>2. nodes[p].id = graph[p].id /\ nodes[p].type = TypeOfKind(graph[p].kind)
      BY <3>1 DEF Lowered
    <3>3. TypeOfKind("action") = "Activity"
      BY TypesOfGate
    <3> QED
      BY <3>1, <3>2, <3>3
  <2>4. p \in DOMAIN nodes /\ StandsFor(nodes[p], RoleOf(effects[i]), Trim(effects[i].step))
    BY <2>2, <2>3 DEF StandsFor, id, Lowered
  <2>5. ASSUME NEW y \in DOMAIN nodes, StandsFor(nodes[y], RoleOf(effects[i]), Trim(effects[i].step))
        PROVE  y = p
    <3>1. nodes[y].id = id /\ nodes[y].type # "Trigger"
      BY <2>5 DEF StandsFor, id
    <3>2. y \in DOMAIN graph \ {1} /\ graph[y].id = id
      BY <1>6, <3>1 DEF Lowered
    <3> QED
      BY <2>2, <3>2
  <2>6. ASSUME IsUnlock(effects[i].cap), NEW k \in 1 .. 5
        PROVE  nodes[p + k - 4].type = GateTypes[k]
    <3>1. s.kind = "action" /\ IsUnlock(s.cap.id)
      BY <1>3, <2>6 DEF s
    <3>2. /\ IsSeq(NodesOf(s, descriptors)) /\ Len(NodesOf(s, descriptors)) = 5
          /\ DOMAIN NodesOf(s, descriptors) = 1 .. 5 /\ SpotOf(s) = 4
          /\ NodesOf(s, descriptors)[k].kind = GateKinds[k]
      BY <3>1, NodesOfIs
    <3>3. at[q[i]] + k \in DOMAIN graph /\ graph[at[q[i]] + k] = NodesOf(s, descriptors)[k]
      <4>1. k \in DOMAIN NodesOf(w[q[i]], descriptors) /\ w[q[i]] = s
        BY <2>1, <3>2
      <4>2. /\ at[q[i]] + k \in DOMAIN graph
            /\ graph[at[q[i]] + k] = NodesOf(w[q[i]], descriptors)[k]
        <5>1. q[i] \in 1 .. Len(w)
          BY <2>1
        <5> QED
          BY <1>10, <4>1, <5>1
      <4> QED
        BY <4>1, <4>2
    <3>4. p + k - 4 = at[q[i]] + k
      <4>1. p = at[q[i]] + 4 /\ at[q[i]] \in Nat
        BY <2>1, <3>2 DEF x
      <4> QED
        BY <4>1
    <3>5. nodes[at[q[i]] + k].type = TypeOfKind(GateKinds[k])
      BY <3>2, <3>3 DEF Lowered
    <3> QED
      BY <3>4, <3>5, TypesOfGate
  <2> QED
    BY <2>4, <2>5, <2>6 DEF InPlace, p
<1>9. ASSUME NEW i \in 1 .. n, NEW j \in 1 .. n, i < j
      PROVE  place[i] < place[j]
  <2>1. q[i] < q[j] /\ q[i] \in 1 .. Len(w) /\ q[j] \in 1 .. Len(w)
    BY <1>3, <1>9
  <2>2. SpotOf(step(i)) \in DOMAIN NodesOf(w[q[i]], descriptors)
    BY <1>7 DEF step
  <2>3. at[q[i]] + SpotOf(step(i)) <= at[q[j]]
    BY <1>4, <2>1, <2>2
  <2>4. /\ at[q[i]] \in Nat /\ at[q[j]] \in Nat /\ SpotOf(step(i)) \in Nat
        /\ SpotOf(step(j)) \in Nat /\ SpotOf(step(j)) > 0
    BY <1>7
  <2>5. place[i] = at[q[i]] + SpotOf(step(i)) /\ place[j] = at[q[j]] + SpotOf(step(j))
    BY <1>5
  <2> QED
    BY <2>3, <2>4, <2>5
<1> QED
  BY <1>8, <1>9 DEF n

(* What a dry run says would be executed is in the plan, in the same order,  *)
(* and each unlock stands behind its approval and its lock and before its    *)
(* verification (simulator.go:executeFlow, safety.go:walkFlow).              *)
THEOREM DryRunFollowsPlanHolds == CompileSpec => []DryRunFollowsPlan
<1>1. EditorInv => DryRunFollowsPlan
  <2> DEFINE effects == trial.result.effects
             at(i) == PlaceIn(RoleOf(effects[i]), Trim(effects[i].step))
  <2> SUFFICES ASSUME EditorInv, Good, trial # Undone, compiled.manifest.runtime = "ADGO",
                      NEW i \in DOMAIN effects
               PROVE  /\ Planned(RoleOf(effects[i]), Trim(effects[i].step))
                      /\ \A j \in 1 .. (i - 1) : at(j) < at(i)
                      /\ IsUnlock(effects[i].cap) =>
                           [k \in 1 .. 5 |-> Plan.nodes[at(i) + k - 4].type] =
                             <<"Human", "ResourceLock", "ReadState", "Activity", "VerifyWrite">>
    BY DEF DryRunFollowsPlan
  <2> DEFINE d == Normal(doc)
             flow == doc.flow
             w == Walk(d.flow, {"if"})
             descriptors == ResolveCapabilities(d, reg).descriptors
             safety == ApplySafetyPass(d, descriptors)
             graph == safety.graph
             nodes == Plan.nodes
             env == RuntimeEnv(doc, trial.ctx)
  <2>1. /\ doc \in Documents /\ Normalizes(doc) /\ compiled = CompileNormal(d, reg)
    BY GoodIsNormal
  <2>2. d.flow = NormalFlow(flow)
    BY DEF Normal
  <2>3. Valid(d)
    BY <2>1 DEF Normalizes
  <2>4. IsFlow(flow)
    BY <2>1, DocumentsAssumption DEF IsDocument, IsFlow
  <2> HIDE DEF d
  <2>5. Plan = LowerToADGO(d, safety)
    <3> HIDE DEF safety, descriptors
    <3>1. compiled.manifest.runtime =
             ClassifyRuntime(d, AnalyzeTemporal(d), ApplySafetyPass(d, descriptors), descriptors)
      BY <2>1 DEF CompileNormal, descriptors
    <3>2. compiled.manifest.adgo =
             IF compiled.manifest.runtime = "ADGO" THEN LowerToADGO(d, ApplySafetyPass(d, descriptors)) ELSE NoPlan
      BY <2>1, <3>1 DEF CompileNormal, descriptors
    <3> QED
      BY <3>2 DEF Plan, safety
  <2>6. graph = <<Entry>> \o FlattenSeq(StepNodes(w, descriptors))
    BY DEF ApplySafetyPass, SafetyScope, StepNodes
  <2> HIDE DEF safety, descriptors
  <2>7. Lowered(nodes, graph)
    BY <2>5 DEF LowerToADGO, TypeOfKind, Lowered
  <2>8. Unlike(w)
    <3>1. Distinct(Ids(Walk(NormalFlow(flow), Branching)))
      BY <2>2, <2>3 DEF Valid
    <3> QED
      BY <2>2, <2>4, <3>1, WalkedIdsDiffer
  <2>9. effects = Execute(flow, env, trial.ctx).effects
    <3>1. trial.result = Simulate(doc, trial.ctx, reg)
      BY DEF EditorInv
    <3>2. effects = <<>> \/ effects = Execute(flow, env, trial.ctx).effects
      BY <3>1 DEF Simulate, Ended, Started
    <3>3. effects # <<>>
      OBVIOUS
    <3> QED
      BY <3>2, <3>3
  <2>10. IsSeq(effects) /\ IsSeq(w) /\ \E q : StandFor(q, effects, w)
    BY <2>2, <2>4, <2>9, EffectsAreWalked
  <2> HIDE DEF effects, w, graph, nodes, env, flow
  <2>11. PICK q : StandFor(q, effects, w)
    BY <2>10
  <2>12. PICK place : /\ \A x \in 1 .. Len(effects) : InPlace(place[x], effects[x], nodes)
                      /\ \A x, y \in 1 .. Len(effects) : x < y => place[x] < place[y]
    BY <2>6, <2>7, <2>8, <2>10, <2>11, EffectsInPlace
  <2>13. DOMAIN effects = 1 .. Len(effects) /\ Len(effects) \in Nat
    BY <2>10, JoinIs
  <2>14. ASSUME NEW x \in DOMAIN effects
         PROVE  /\ Planned(RoleOf(effects[x]), Trim(effects[x].step))
                /\ at(x) = place[x]
    <3>1. InPlace(place[x], effects[x], nodes)
      BY <2>12, <2>13
    <3>2. Planned(RoleOf(effects[x]), Trim(effects[x].step))
      BY <3>1 DEF InPlace, Planned, nodes
    <3>3. at(x) = CHOOSE p \in DOMAIN nodes : StandsFor(nodes[p], RoleOf(effects[x]), Trim(effects[x].step))
      BY DEF PlaceIn, nodes
    <3> HIDE DEF at
    <3>4. at(x) = place[x]
      BY <3>1, <3>3 DEF InPlace
    <3> QED
      BY <3>2, <3>4
  <2> HIDE DEF at
  <2>15. \A j \in 1 .. (i - 1) : at(j) < at(i)
    <3>1. \A j \in 1 .. (i - 1) : j \in DOMAIN effects /\ j < i
      BY <2>13
    <3> QED
      BY <2>12, <2>13, <2>14, <3>1
  <2>16. ASSUME IsUnlock(effects[i].cap)
         PROVE  [k \in 1 .. 5 |-> nodes[at(i) + k - 4].type] =
                  <<"Human", "ResourceLock", "ReadState", "Activity", "VerifyWrite">>
    <3>1. InPlace(place[i], effects[i], nodes) /\ at(i) = place[i]
      BY <2>12, <2>13, <2>14
    <3>2. \A k \in 1 .. 5 : nodes[at(i) + k - 4].type = GateTypes[k]
      BY <2>16, <3>1 DEF InPlace
    <3>3. [k \in 1 .. 5 |-> GateTypes[k]] = GateTypes
      BY DEF GateTypes
    <3>4. [k \in 1 .. 5 |-> nodes[at(i) + k - 4].type] = [k \in 1 .. 5 |-> GateTypes[k]]
      BY <3>2
    <3> QED
      BY <3>3, <3>4 DEF GateTypes
  <2> QED
    BY <2>14, <2>15, <2>16 DEF nodes
<1> QED
  BY <1>1, EditorInvHolds, PTL

-----------------------------------------------------------------------------
USE DEF Terminal, Effects, Parked, Nodes, Attempts

\* The steps on one execution.
NodeStep(r) == Worker(r) \/ Stop(r)

(* The types hold at the start.                                              *)
LEMMA TypeInit == Init => TypeOK
BY NoneAssumption DEF Init, TypeOK

\* What every step on an execution leaves alone, and that it keeps the types.
LEMMA NodeStepType ==
  ASSUME TypeOK, NEW r \in Requests, NodeStep(r)
  PROVE  TypeOK' /\ UNCHANGED threadVars
<1>0. r.siren \in Sirens
  BY RequestsAssumption
<1>1. CASE Validate(r) \/ SafetyTimer(r) \/ Record(r)
  BY <1>1 DEF Validate, SafetyTimer, Record, Advance, TypeOK, threadVars, history, bounds
<1>2. CASE ReadBefore(r)
  BY <1>2 DEF ReadBefore, Observed, TypeOK, threadVars, bounds
<1>3. CASE GiveUpReading(r)
  BY <1>3 DEF GiveUpReading, TypeOK, threadVars, history
<1>4. CASE WriteAnswered(r)
  BY <1>0, <1>4 DEF WriteAnswered, At, Carried, Counted, TypeOK, threadVars, bounds
<1>5. CASE WriteLost(r)
  <2>1. Unknown(r) \in Nodes
    BY <1>5 DEF WriteLost, At, Unknown
  <2> QED
    BY <1>0, <1>5, <2>1 DEF WriteLost, At, Carried, Counted, Park, TypeOK, threadVars
<1>6. CASE VerifySeen(r)
  BY <1>6 DEF VerifySeen, Observed, TypeOK, threadVars, bounds
<1>7. CASE VerifyFails(r)
  <2>1. Unknown(r) \in Nodes
    BY <1>7 DEF VerifyFails, At, Unknown
  <2> QED
    BY <1>7, <2>1 DEF VerifyFails, Park, TypeOK, threadVars, history
<1>8. CASE Commit(r)
  <2>1. After(st[r]) \in Nodes
    BY <1>8 DEF Commit, At, After
  <2> QED
    BY <1>8, <2>1 DEF Commit, TypeOK, threadVars, history, bounds
<1>9. CASE Stop(r)
  BY <1>9 DEF Stop, CancelTo, TypeOK, threadVars, history, bounds
<1> QED
  BY <1>1, <1>2, <1>3, <1>4, <1>5, <1>6, <1>7, <1>8, <1>9 DEF NodeStep, Worker

(* Every step keeps the types.                                               *)
LEMMA TypeNext == TypeOK /\ [Next]_vars => TypeOK'
<1> SUFFICES ASSUME TypeOK, [Next]_vars
             PROVE  TypeOK'
  OBVIOUS
<1>1. ASSUME NEW t \in Threads, NEW r \in Requests, Enter(t, r)
      PROVE  TypeOK'
  BY <1>1, NoneAssumption DEF Enter, TypeOK, history, bounds
<1>2. ASSUME NEW t \in Threads, CheckPasses(t)
      PROVE  TypeOK'
  BY <1>2 DEF CheckPasses, TypeOK, history, bounds
<1>3. ASSUME NEW t \in Threads, CheckFails(t)
      PROVE  TypeOK'
  BY <1>3, NoneAssumption DEF CheckFails, Leave, TypeOK, history, bounds
<1>4. ASSUME NEW t \in Threads, StartOrLoad(t)
      PROVE  TypeOK'
  <2>1. req[t] \in Requests
    BY <1>4 DEF StartOrLoad, TypeOK
  <2> QED
    BY <1>4, <2>1, NoneAssumption DEF StartOrLoad, Leave, TypeOK, history, bounds
<1>5. ASSUME NEW r \in Requests, NodeStep(r)
      PROVE  TypeOK'
  BY <1>5, NodeStepType
<1>6. ASSUME NEW s \in Sirens, SwitchByHand(s)
      PROVE  TypeOK'
  BY <1>6 DEF SwitchByHand, TypeOK, threadVars, history
<1>7. CASE Crash
  BY <1>7 DEF Crash, TypeOK
<1>8. CASE UNCHANGED vars
  BY <1>8 DEF vars, TypeOK
<1> QED
  BY <1>1, <1>2, <1>3, <1>4, <1>5, <1>6, <1>7, <1>8 DEF Next, Caller, NodeStep

\* Executions, callers and sirens keep their types; a caller inside Start holds startMu.
THEOREM TypeCorrect == Spec => []TypeOK
BY TypeInit, TypeNext, PTL DEF Spec

-----------------------------------------------------------------------------
\* What the progress of one execution says of its commands and observations.
EffectInvOf(r) ==
  /\ st[r] \notin Effects => attempt[r] = "none"
  /\ st[r] \in {"absent", "created", "enabling", "reconcile-enable"} => r \notin owed
  /\ st[r] \in {"sounding", "disabling", "reconcile-disable", "recording"} => r \in owed
  /\ r \in owed /\ attempt[r] \in {"found", "seen"} => r \in seenOff
  /\ st[r] \in {"recording", "completed"} => r \in seenOff
  /\ st[r] = "canceled" /\ r \in owed => r \in seenOff
  /\ enables[r] <= 1 + lost[r]
  /\ st[r] \in {"absent", "created"} => enables[r] = 0
  /\ st[r] = "enabling" /\ attempt[r] \in {"none", "found", "write"} => enables[r] <= lost[r]

EffectInv == \A r \in Requests : EffectInvOf(r)

\* A step of one execution leaves what is known of the others alone.
LEMMA OthersUntouched ==
  ASSUME TypeOK, EffectInv, NEW r \in Requests, NEW q \in Requests, q # r, NodeStep(r)
  PROVE  EffectInvOf(q)'
<1>1. CASE Validate(r) \/ SafetyTimer(r) \/ Record(r)
  BY <1>1 DEF Validate, SafetyTimer, Record, Advance, TypeOK, EffectInv, EffectInvOf, history, bounds
<1>2. CASE ReadBefore(r) \/ VerifySeen(r)
  BY <1>2 DEF ReadBefore, VerifySeen, Observed, TypeOK, EffectInv, EffectInvOf, bounds
<1>3. CASE GiveUpReading(r) \/ Commit(r) \/ Stop(r)
  BY <1>3 DEF GiveUpReading, Commit, Stop, TypeOK, EffectInv, EffectInvOf, history, bounds
<1>4. CASE WriteAnswered(r) \/ WriteLost(r)
  BY <1>4 DEF WriteAnswered, WriteLost, Counted, Park, TypeOK, EffectInv, EffectInvOf, bounds
<1>5. CASE VerifyFails(r)
  BY <1>5 DEF VerifyFails, Park, TypeOK, EffectInv, EffectInvOf, history
<1> QED
  BY <1>1, <1>2, <1>3, <1>4, <1>5 DEF NodeStep, Worker

(* A step on an execution keeps what is said of its own effects.             *)
LEMMA OwnStep ==
  ASSUME TypeOK, EffectInv, NEW r \in Requests, NodeStep(r)
  PROVE  EffectInvOf(r)'
<1>1. EffectInvOf(r) /\ enables[r] \in Nat /\ lost[r] \in Nat /\ st[r] \in Nodes
  BY DEF EffectInv, TypeOK
<1>2. CASE Validate(r) \/ SafetyTimer(r) \/ Record(r)
  BY <1>1, <1>2 DEF Validate, SafetyTimer, Record, Advance, TypeOK, EffectInvOf, history, bounds
<1>3. CASE ReadBefore(r)
  BY <1>1, <1>3 DEF ReadBefore, At, AsDesired, Desired, Observed, TypeOK, EffectInvOf, bounds
<1>4. CASE GiveUpReading(r)
  BY <1>1, <1>4 DEF GiveUpReading, At, TypeOK, EffectInvOf, history
<1>5. CASE WriteAnswered(r)
  BY <1>1, <1>5 DEF WriteAnswered, At, Counted, Desired, TypeOK, EffectInvOf, bounds
<1>6. CASE WriteLost(r)
  BY <1>1, <1>6 DEF WriteLost, At, Counted, Desired, Park, Unknown, TypeOK, EffectInvOf
<1>7. CASE VerifySeen(r)
  BY <1>1, <1>7 DEF VerifySeen, At, AsDesired, Desired, Observed, TypeOK, EffectInvOf, bounds
<1>8. CASE VerifyFails(r)
  BY <1>1, <1>8 DEF VerifyFails, At, Park, Unknown, TypeOK, EffectInvOf, history
<1>9. CASE Commit(r)
  BY <1>1, <1>9 DEF Commit, At, After, TypeOK, EffectInvOf, history, bounds
<1>10. CASE Stop(r)
  BY <1>1, <1>10 DEF Stop, CancelTo, Live, TypeOK, EffectInvOf, history, bounds
<1> QED
  BY <1>2, <1>3, <1>4, <1>5, <1>6, <1>7, <1>8, <1>9, <1>10 DEF NodeStep, Worker

(* Every step keeps what is said of the effects.                             *)
LEMMA EffectNext == TypeOK /\ EffectInv /\ [Next]_vars => EffectInv'
<1> SUFFICES ASSUME TypeOK, EffectInv, [Next]_vars
             PROVE  EffectInv'
  OBVIOUS
<1>1. ASSUME UNCHANGED <<st, attempt, owed, history>>
      PROVE  EffectInv'
  BY <1>1 DEF EffectInv, EffectInvOf, history
<1>2. ASSUME NEW t \in Threads, StartOrLoad(t)
      PROVE  EffectInv'
  <2>1. req[t] \in Requests
    BY <1>2 DEF StartOrLoad, TypeOK
  <2> QED
    BY <1>2, <2>1 DEF StartOrLoad, TypeOK, EffectInv, EffectInvOf, history
<1>3. ASSUME NEW r \in Requests, NodeStep(r)
      PROVE  EffectInv'
  BY <1>3, OwnStep, OthersUntouched DEF EffectInv
<1>4. CASE Crash
  <2> SUFFICES ASSUME NEW r \in Requests
               PROVE  EffectInvOf(r)'
    BY DEF EffectInv
  <2>1. EffectInvOf(r) /\ enables[r] \in Nat /\ lost[r] \in Nat /\ attempt[r] \in Attempts
    BY DEF EffectInv, TypeOK
  <2>2. /\ st' = st /\ owed' = owed /\ seenOff' = seenOff /\ enables' = enables /\ attempt'[r] = "none"
        /\ lost'[r] = IF st[r] = "enabling" /\ attempt[r] \in {"verify", "seen"} THEN lost[r] + 1 ELSE lost[r]
    BY <1>4 DEF Crash
  <2> QED
    BY <2>1, <2>2 DEF EffectInvOf
<1>5. ASSUME NEW t \in Threads, NEW r \in Requests, Enter(t, r)
      PROVE  EffectInv'
  BY <1>1, <1>5 DEF Enter
<1>6. ASSUME NEW t \in Threads, CheckPasses(t) \/ CheckFails(t)
      PROVE  EffectInv'
  BY <1>1, <1>6 DEF CheckPasses, CheckFails
<1>7. CASE (\E s \in Sirens : SwitchByHand(s)) \/ UNCHANGED vars
  BY <1>1, <1>7 DEF SwitchByHand, vars, history
<1> QED
  BY <1>2, <1>3, <1>4, <1>5, <1>6, <1>7 DEF Next, Caller, NodeStep

(* So it is said of every behaviour.                                         *)
LEMMA EffectAlways == Spec => []EffectInv
<1>1. Init => EffectInv
  BY DEF Init, EffectInv, EffectInvOf
<1> QED
  BY TypeCorrect, <1>1, EffectNext, PTL DEF Spec

\* An activation that completed, or was stopped after it had enabled the siren, has
\* seen it silent since, for any crashes, lost answers and hands on the switch.
THEOREM ActivationsEndInSilence == Spec => []EndedInSilence
<1>1. EffectInv => EndedInSilence
  BY DEF EffectInv, EffectInvOf, EndedInSilence
<1> QED
  BY <1>1, EffectAlways, PTL

\* A second enable command is owed to a crash that lost the answer of the first.
THEOREM SirenIsEnabledOnce == Spec => []EnabledOnce
<1>1. EffectInv => EnabledOnce
  BY DEF EffectInv, EffectInvOf, EnabledOnce
<1> QED
  BY <1>1, EffectAlways, PTL

-----------------------------------------------------------------------------
\* Past the check nobody else can create an execution: the siren stays free.
StartInv == \A t \in Threads : pc[t] = "admitted" => ~Held(req[t])

\* A step on a live execution keeps it live or ends it, and touches no other.
LEMMA NodeLives ==
  ASSUME TypeOK, NEW r \in Requests, NodeStep(r)
  PROVE  /\ \A q \in Requests \ {r} : st'[q] = st[q]
         /\ Live(r)
         /\ st'[r] # "absent"
<1>1. CASE Validate(r) \/ SafetyTimer(r) \/ Record(r)
  BY <1>1 DEF Validate, SafetyTimer, Record, Advance, TypeOK, Live
<1>2. CASE ReadBefore(r) \/ VerifySeen(r) \/ WriteAnswered(r)
  BY <1>2 DEF ReadBefore, VerifySeen, WriteAnswered, At, TypeOK, Live
<1>3. CASE GiveUpReading(r) \/ Stop(r)
  BY <1>3 DEF GiveUpReading, Stop, CancelTo, At, TypeOK, Live
<1>4. CASE WriteLost(r) \/ VerifyFails(r)
  BY <1>4 DEF WriteLost, VerifyFails, Park, Unknown, At, TypeOK, Live
<1>5. CASE Commit(r)
  BY <1>5 DEF Commit, After, At, TypeOK, Live
<1> QED
  BY <1>1, <1>2, <1>3, <1>4, <1>5 DEF NodeStep, Worker

(* Every step keeps that checks and creations are under the mutex.           *)
LEMMA StartNext == TypeOK /\ StartInv /\ [Next]_vars => StartInv'
<1> SUFFICES ASSUME TypeOK, StartInv, [Next]_vars
             PROVE  StartInv'
  OBVIOUS
<1> USE DEF StartInv
<1>1. ASSUME NEW t \in Threads, NEW r \in Requests, Enter(t, r)
      PROVE  StartInv'
  <2>1. \A u \in Threads : pc'[u] = "admitted" => pc[u] = "admitted" /\ req'[u] = req[u]
    BY <1>1 DEF Enter, TypeOK
  <2> QED
    BY <1>1, <2>1 DEF Enter, Held, Live
<1>2. ASSUME NEW t \in Threads, CheckPasses(t)
      PROVE  StartInv'
  BY <1>2 DEF CheckPasses, TypeOK, Held, Live
<1>3. ASSUME NEW t \in Threads, CheckFails(t)
      PROVE  StartInv'
  BY <1>3 DEF CheckFails, Leave, TypeOK, Held, Live
<1>4. ASSUME NEW t \in Threads, StartOrLoad(t)
      PROVE  StartInv'
  <2>1. \A u \in Threads : pc'[u] = "idle"
    BY <1>4 DEF StartOrLoad, Leave, TypeOK
  <2> QED
    BY <2>1
<1>5. ASSUME NEW r \in Requests, NodeStep(r)
      PROVE  StartInv'
  <2>1. UNCHANGED <<pc, req>> /\ \A q \in Requests : Live(q)' => Live(q)
    BY <1>5, NodeStepType, NodeLives DEF threadVars, Live
  <2>2. \A q : Held(q)' => Held(q)
    BY <2>1 DEF Held
  <2> QED
    BY <2>1, <2>2
<1>6. CASE (\E s \in Sirens : SwitchByHand(s)) \/ UNCHANGED vars
  BY <1>6 DEF SwitchByHand, threadVars, vars, Held, Live
<1>7. CASE Crash
  BY <1>7 DEF Crash
<1> QED
  BY <1>1, <1>2, <1>3, <1>4, <1>5, <1>6, <1>7 DEF Next, Caller, NodeStep

(* Every step is one of the abstract reservation, or a stutter.              *)
LEMMA NextRefines ==
  TypeOK /\ StartInv /\ [Next]_vars => [Reservation!Next]_(Reservation!vars)
<1> SUFFICES ASSUME TypeOK, StartInv, [Next]_vars
             PROVE  [Reservation!Next]_(Reservation!vars)
  OBVIOUS
<1>1. ASSUME UNCHANGED st
      PROVE  UNCHANGED Reservation!vars
  BY <1>1 DEF Reservation!vars, Live
<1>2. ASSUME NEW t \in Threads, StartOrLoad(t)
      PROVE  [Reservation!Next]_(Reservation!vars)
  <2> DEFINE r == req[t]
  <2>1. r \in Requests /\ ~Held(r) /\ st' = [st EXCEPT ![r] = IF @ = "absent" THEN "created" ELSE @]
    BY <1>2 DEF StartOrLoad, TypeOK, StartInv
  <2>2. CASE st[r] # "absent"
    BY <2>1, <2>2, <1>1 DEF TypeOK
  <2>3. CASE st[r] = "absent"
    <3>1. \A q \in Requests : Live(q)' <=> Live(q) \/ q = r
      BY <2>1, <2>3 DEF TypeOK, Live
    <3>2. \A q \in Requests : st'[q] \in Terminal <=> st[q] \in Terminal
      BY <2>1, <2>3 DEF TypeOK
    <3>3. ~Live(r) /\ st[r] \notin Terminal
      BY <2>3 DEF Live
    <3>4. \A q \in Requests : Live(q) => q.siren # r.siren
      BY <2>1, <3>3 DEF Held
    <3>5. Reservation!Reserve(r)
      BY <2>1, <3>1, <3>2, <3>3, <3>4 DEF Reservation!Reserve
    <3> QED
      BY <3>5, <2>1 DEF Reservation!Next
  <2> QED
    BY <2>2, <2>3
<1>3. ASSUME NEW r \in Requests, NodeStep(r)
      PROVE  [Reservation!Next]_(Reservation!vars)
  <2> DEFINE H == {q \in Requests : Live(q)}
             E == {q \in Requests : st[q] \in Terminal}
  <2>1. (\A q \in Requests \ {r} : st'[q] = st[q]) /\ Live(r) /\ st'[r] # "absent"
    BY <1>3, NodeLives
  <2>2. CASE st'[r] \in Terminal
    <3>1. r \in H /\ H' = H \ {r} /\ E' = E \cup {r}
      BY <2>1, <2>2 DEF Live
    <3> QED
      BY <3>1 DEF Reservation!Next, Reservation!Release
  <2>3. CASE st'[r] \notin Terminal
    <3>1. H' = H /\ E' = E
      BY <2>1, <2>3 DEF Live
    <3> QED
      BY <3>1 DEF Reservation!vars
  <2> QED
    BY <2>2, <2>3
<1>4. ASSUME UNCHANGED st
      PROVE  [Reservation!Next]_(Reservation!vars)
  BY <1>1, <1>4
<1>5. ASSUME NEW t \in Threads, NEW r \in Requests, Enter(t, r)
      PROVE  UNCHANGED st
  BY <1>5 DEF Enter
<1>6. ASSUME NEW t \in Threads, CheckPasses(t) \/ CheckFails(t)
      PROVE  UNCHANGED st
  BY <1>6 DEF CheckPasses, CheckFails
<1>7. ASSUME (\E s \in Sirens : SwitchByHand(s)) \/ Crash \/ UNCHANGED vars
      PROVE  UNCHANGED st
  BY <1>7 DEF SwitchByHand, Crash, vars
<1> QED
  BY <1>2, <1>3, <1>4, <1>5, <1>6, <1>7 DEF Next, Caller, NodeStep

\* The siren service implements the abstract reservation: an execution takes its
\* siren once, only while it is free, and keeps it until it ends.
THEOREM SirensImplementReservation == Spec => ReservesSirens
<1>1. Init => StartInv
  BY DEF Init, StartInv
<1>2. Init => Reservation!Init
  BY DEF Init, Reservation!Init, Live
<1> QED
  BY TypeCorrect, <1>1, <1>2, StartNext, NextRefines, PTL DEF Spec, ReservesSirens, Reservation!Spec

-----------------------------------------------------------------------------
ProbeAnswers == {"none", "yes", "no"}
ReconnectAttempts == {"none", "answered", "ambiguous"}

CameraTypes ==
  /\ node \in [CameraRequests -> C!Nodes]
  /\ tried \in [CameraRequests -> ReconnectAttempts]
  /\ facts \in [CameraRequests -> [C!Facts -> ProbeAnswers]]
  /\ calls \in [CameraRequests -> Nat] /\ cut \in [CameraRequests -> Nat]

(* What has been found out and done by the time an execution is at a node.   *)
Untried(r) == calls[r] = 0 /\ cut[r] = 0 /\ r \notin allowed /\ facts[r]["verify_ok"] = "none"
Pending(r) == IF tried[r] = "none" THEN 0 ELSE 1
Machine(r) == IF facts[r]["network_ok"] = "yes" THEN 1 ELSE 0

Found(r) ==
  LET f == facts[r] IN
  /\ node[r] \in {"absent", "validate-request", "probe-network", "decide-network", "probe-stream"} =>
       Untried(r) /\ f["stream_ok"] = "none"
  /\ node[r] \in {"probe-stream", "decide-stream"} => f["network_ok"] = "yes"
  /\ node[r] = "decide-stream" => Untried(r) /\ (f["stream_ok"] = "yes" => r \in verified)
                                /\ f["stream_ok"] # "none"
  /\ node[r] \in {"reconnect", "verify-stream"} =>
       f["network_ok"] = "yes" /\ f["stream_ok"] = "no" /\ f["verify_ok"] = "none" /\ r \notin allowed
  /\ node[r] = "decide-verify" =>
       f["verify_ok"] # "none" /\ (f["verify_ok"] = "yes" => r \in verified) /\ r \notin allowed
  /\ node[r] = "operator-recovery" => r \notin allowed
  /\ node[r] \in {"reconnect-after-operator", "verify-after-operator", "decide-final"} => r \in allowed
  /\ node[r] = "decide-final" =>
       f["verify_final_ok"] # "none" /\ (f["verify_final_ok"] = "yes" <=> r \in verified)
  /\ node[r] \notin {"decide-final"} \cup C!Records \cup C!Terminal => f["verify_final_ok"] = "none"

Done(r) ==
  /\ tried[r] # "none" => node[r] \in C!Reconnects /\ calls[r] > 0 /\ r \notin verified
  /\ node[r] \in {"verify-stream", "verify-after-operator"} => r \notin verified
  /\ node[r] \in {"verify-stream", "decide-verify", "verify-after-operator", "decide-final"} => calls[r] > 0

(* How many reconnects there were: those at a node that is running are due.  *)
Spent(r) ==
  CASE node[r] = "reconnect" -> calls[r] <= cut[r] + Pending(r)
    [] node[r] = "reconnect-after-operator" -> calls[r] <= cut[r] + Machine(r) + Pending(r)
    [] OTHER -> calls[r] <= cut[r] + Machine(r) + (IF r \in allowed THEN 1 ELSE 0)

Recorded(r) ==
  /\ node[r] \in {C!Record("healthy"), "healthy"} => calls[r] = 0 /\ r \in verified
  /\ node[r] \in {C!Record("recovered"), "recovered"} => calls[r] > 0 /\ r \in verified
  /\ node[r] \in {C!Record("failed"), "failed"} => r \in allowed /\ r \notin verified

Ladder(r) == Found(r) /\ Done(r) /\ Spent(r) /\ Recorded(r)
CameraInv == CameraTypes /\ \A r \in CameraRequests : Ladder(r)

-----------------------------------------------------------------------------
(* The types.                                                                *)
LEMMA RecordIsNode ==
  /\ C!Record("healthy") = "record-healthy" /\ C!Record("recovered") = "record-recovered"
  /\ C!Record("failed") = "record-failed" /\ C!Record("rejected") = "record-rejected"
  /\ C!Record("canceled") = "record-canceled"
BY DEF C!Record, C!RecordNode

(* Every outcome has a node of its own that records it.                    *)
LEMMA RecordsAre ==
  C!Records = {"record-healthy", "record-recovered", "record-failed", "record-rejected", "record-canceled"}
BY RecordIsNode DEF C!Records, C!Outcomes

(* Before anything is started nothing was found out or done.               *)
LEMMA CameraInit == C!Init => CameraInv
BY RecordIsNode, RecordsAre
DEF C!Init, CameraInv, CameraTypes, Ladder, Found, Done, Spent, Recorded, Untried, Pending, Machine,
    C!Nodes, ReconnectAttempts, ProbeAnswers, C!Facts, C!Terminal, C!Outcomes, C!Reconnects

(* A step of one request leaves what the others' ladder speaks of alone.     *)
Same(q) ==
  /\ node'[q] = node[q] /\ tried'[q] = tried[q] /\ facts'[q] = facts[q]
  /\ calls'[q] = calls[q] /\ cut'[q] = cut[q]
  /\ (q \in allowed') = (q \in allowed) /\ (q \in verified') = (q \in verified)

(* What is known of an execution does not depend on the others.            *)
LEMMA SameLadder == ASSUME NEW q, Ladder(q), Same(q) PROVE Ladder(q)'
BY DEF Ladder, Same, Found, Done, Spent, Recorded, Untried, Pending, Machine

(* Every step on an execution.                                               *)
Camera(r) == C!Start(r) \/ C!Worker(r) \/ C!Approve(r) \/ C!Refuse(r)

(* The types, step by step.                                                *)
LEMMA CameraStepTypes ==
  ASSUME CameraTypes, NEW r \in CameraRequests, Camera(r)
  PROVE  CameraTypes'
<1> USE RecordIsNode, RecordsAre DEF CameraTypes, C!Nodes, ReconnectAttempts, C!Goto, C!Terminal, C!Outcomes, C!Reconnects,
                                     C!Probes, C!Decides, C!history, C!bounds, C!world
<1>1. CASE C!Start(r) \/ C!Validate(r) \/ C!Approve(r) \/ C!Refuse(r) \/ C!GiveUpProbing(r) \/ C!RecordOutcome(r)
  BY <1>1 DEF C!Start, C!Validate, C!Approve, C!Refuse, C!GiveUpProbing, C!RecordOutcome
<1>2. CASE C!Probe(r)
  BY <1>2 DEF C!Probe, C!Produces, C!AfterProbe, C!Facts, ProbeAnswers
<1>3. CASE C!Decide(r)
  <2>1. PICK to \in C!NodeAfter(node[r], C!Decision(r)) : node' = [node EXCEPT ![r] = to]
    BY <1>3 DEF C!Decide
  <2>2. to \in C!Nodes
    BY <2>1 DEF C!NodeAfter, C!Edges
  <2> QED
    BY <1>3, <2>1, <2>2 DEF C!Decide
<1>4. CASE C!ReconnectAnswers(r) \/ C!ReconnectLost(r)
  <2>1. CASE C!ReconnectAnswers(r)
    BY <2>1 DEF C!ReconnectAnswers, C!Calling
  <2>2. CASE C!ReconnectLost(r)
    BY <2>2 DEF C!ReconnectLost, C!Calling, C!Parked
  <2> QED
    BY <1>4, <2>1, <2>2
<1>5. CASE C!SettleByProbe(r) \/ C!CommitReconnect(r)
  BY <1>5 DEF C!SettleByProbe, C!CommitReconnect, C!Parked
<1> QED
  BY <1>1, <1>2, <1>3, <1>4, <1>5 DEF Camera, C!Worker

(* A step on one execution leaves all that is known of the others alone.   *)
LEMMA CameraStepOthers ==
  ASSUME CameraTypes, NEW r \in CameraRequests, Camera(r), NEW q \in CameraRequests \ {r}
  PROVE  Same(q)
<1> USE DEF CameraTypes, Same, C!Goto, C!history, C!bounds, C!world
<1>1. CASE C!Start(r) \/ C!Validate(r) \/ C!Approve(r) \/ C!Refuse(r) \/ C!GiveUpProbing(r) \/ C!RecordOutcome(r)
  BY <1>1 DEF C!Start, C!Validate, C!Approve, C!Refuse, C!GiveUpProbing, C!RecordOutcome
<1>2. CASE C!Probe(r)
  BY <1>2 DEF C!Probe
<1>3. CASE C!Decide(r)
  BY <1>3 DEF C!Decide
<1>4. CASE C!ReconnectAnswers(r) \/ C!ReconnectLost(r)
  BY <1>4 DEF C!ReconnectAnswers, C!ReconnectLost, C!Calling
<1>5. CASE C!SettleByProbe(r) \/ C!CommitReconnect(r)
  BY <1>5 DEF C!SettleByProbe, C!CommitReconnect
<1> QED
  BY <1>1, <1>2, <1>3, <1>4, <1>5 DEF Camera, C!Worker

(* A step on an execution keeps what is known of it, node by node: each    *)
(* fact is stored before the node that reads it, and a reconnect is        *)
(* counted when it is called.                                              *)
LEMMA CameraStepLadder ==
  ASSUME CameraTypes, NEW r \in CameraRequests, Ladder(r), Camera(r)
  PROVE  Ladder(r)'
<1> USE RecordIsNode, RecordsAre DEF Ladder, Found, Done, Spent, Recorded, Untried, Pending, Machine
<1> USE DEF CameraTypes, C!Goto, C!Terminal, C!Outcomes, C!Reconnects, C!Probes, C!Decides, ReconnectAttempts, C!history, C!bounds, C!world
<1>1. CASE C!Start(r) \/ C!Validate(r)
  BY <1>1 DEF C!Start, C!Validate
<1>2. CASE C!Approve(r)
  BY <1>2 DEF C!Approve
<1>3. CASE C!Refuse(r) \/ C!GiveUpProbing(r)
  BY <1>3 DEF C!Refuse, C!GiveUpProbing
<1>4. CASE C!RecordOutcome(r)
  BY <1>4 DEF C!RecordOutcome
<1>5. CASE C!Probe(r)
  BY <1>5 DEF C!Probe, C!Produces, C!AfterProbe, C!Facts, ProbeAnswers
<1>6. CASE C!Decide(r)
  BY <1>6 DEF C!Decide, C!NodeAfter, C!Edges, C!Decision, C!DecideStream, C!Facts, ProbeAnswers
<1>7. CASE C!ReconnectAnswers(r)
  BY <1>7 DEF C!ReconnectAnswers, C!Calling
<1>8. CASE C!ReconnectLost(r)
  BY <1>8 DEF C!ReconnectLost, C!Calling, C!Parked
<1>9. CASE C!SettleByProbe(r)
  BY <1>9 DEF C!SettleByProbe, C!Parked
<1>10. CASE C!CommitReconnect(r)
  BY <1>10 DEF C!CommitReconnect
<1> QED
  BY <1>1, <1>2, <1>3, <1>4, <1>5, <1>6, <1>7, <1>8, <1>9, <1>10 DEF Camera, C!Worker

(* The steps together; a crash loses the attempts under way, and no more.  *)
LEMMA CameraNext == CameraInv /\ [C!Next]_(C!vars) => CameraInv'
<1> SUFFICES ASSUME CameraInv, [C!Next]_(C!vars)
             PROVE  CameraInv'
  OBVIOUS
<1>1. ASSUME NEW r \in CameraRequests, Camera(r)
      PROVE  CameraInv'
  BY <1>1, CameraStepTypes, CameraStepOthers, CameraStepLadder, SameLadder DEF CameraInv
<1>2. CASE C!Flap \/ UNCHANGED C!vars
  <2>1. CameraTypes' /\ \A q \in CameraRequests : Same(q)
    BY <1>2 DEF C!Flap, C!vars, C!history, CameraInv, CameraTypes, Same
  <2> QED
    BY <2>1, SameLadder DEF CameraInv
<1>3. CASE C!Crash
  <2>1. CameraTypes'
    BY <1>3 DEF C!Crash, C!history, C!world, CameraInv, CameraTypes, ReconnectAttempts
  <2>2. ASSUME NEW r \in CameraRequests PROVE Ladder(r)'
    <3> USE DEF CameraInv, CameraTypes, C!Crash, C!world, ReconnectAttempts
    <3>1. Found(r)'
      BY <1>3 DEF Ladder, Found, Untried, Done, C!Reconnects
    <3>2. Spent(r)' /\ Done(r)' /\ Recorded(r)'
      BY <1>3 DEF Ladder, Spent, Done, Recorded, Pending, Machine
    <3> QED
      BY <3>1, <3>2 DEF Ladder
  <2> QED
    BY <2>1, <2>2 DEF CameraInv
<1> QED
  BY <1>1, <1>2, <1>3 DEF C!Next, Camera

(* Recovery records of a camera only what happened: "healthy" was seen and *)
(* not touched, "recovered" was reconnected and its stream seen up since,  *)
(* "failed" had its operator attempt (handlers.go: recordV1).              *)
THEOREM RecordsAreTrue == C!Spec => []RecordIsTrue
<1>1. CameraInv => RecordIsTrue
  BY DEF CameraInv, Ladder, Recorded, C!RecordIsTrue, RecordIsTrue
<1> QED
  BY <1>1, CameraInit, CameraNext, PTL DEF C!Spec

(* Reconnects are bounded by the plan, one by the machine and one by an    *)
(* operator, beyond those a crash cut off.                                 *)
THEOREM RepairsAreBounded == C!Spec => []RepairIsBounded
<1>1. CameraInv => RepairIsBounded
  BY DEF CameraInv, CameraTypes, ReconnectAttempts, Ladder, Found, Spent, Done, Pending, Machine, C!RepairIsBounded, RepairIsBounded
<1> QED
  BY <1>1, CameraInit, CameraNext, PTL DEF C!Spec

-----------------------------------------------------------------------------
(* What the proof takes of the constants.                                  *)
BundlesAreKnown ==
    /\ Services \subseteq {"door", "camera", "siren", "incident"}
    /\ Active \in [Releases -> Nat]
    /\ Limits \subseteq Nat

Plans == [service : Services, version : Nat, limit : Nat]
PlanNodes == {"route", "approve", "apply", "record", "probe", "operator", "enable", "safety", "disable",
          "assess", "notify", "await", "archive", "medium", "high", "ack", "decide"}
Begun == [plan : Plans, at : PlanNodes, ran : Seq(PlanNodes), status : {"live", "completed", "canceled"}]

(* A path of a plan, and what is known of an execution.                    *)
Chained(path, graph) == \A i \in 1 .. Len(path) - 1 : path[i + 1] \in graph[path[i]]

Faithful(e) ==
    /\ e.at \in DOMAIN B!Graph(e.plan)
    /\ e.status = "live" => Chained(Append(e.ran, e.at), B!Graph(e.plan))
    /\ Chained(e.ran, B!Graph(e.plan))
    /\ e.status = "completed" => B!Graph(e.plan)[B!Last(e.ran)] = {}

(* Every execution is of the service and ran a path of its plan.           *)
BundleInv ==
    /\ service \in Services /\ release \in Releases /\ limit \in Limits
    /\ execution \in [Executions -> Begun \cup {B!Unstarted}]
    /\ \A x \in Executions : execution[x] # B!Unstarted =>
           execution[x].plan.service = service /\ Faithful(execution[x])

-----------------------------------------------------------------------------
(* An execution that was not started is none.                              *)
LEMMA UnstartedIsNone == B!Unstarted \notin Begun
<1>1. DOMAIN B!Unstarted = {"none"} /\ \A e \in Begun : DOMAIN e = {"plan", "at", "ran", "status"}
  BY DEF B!Unstarted, Begun
<1> QED
  BY <1>1

(* Every plan begins and goes on within itself.                            *)
LEMMA GraphIsClosed ==
    ASSUME BundlesAreKnown, NEW plan \in Plans
    PROVE  /\ DOMAIN B!Graph(plan) \subseteq PlanNodes
           /\ B!Initial[plan.service] \in DOMAIN B!Graph(plan)
           /\ \A n \in DOMAIN B!Graph(plan) : B!Graph(plan)[n] \subseteq DOMAIN B!Graph(plan)
<1>1. CASE plan.service = "door"
  BY <1>1 DEF B!Graph, B!DoorPlan, PlanNodes, B!Initial
<1>2. CASE plan.service = "camera"
  BY <1>2 DEF B!Graph, B!CameraPlan, PlanNodes, B!Initial
<1>3. CASE plan.service = "siren"
  BY <1>3 DEF B!Graph, B!SirenPlan, PlanNodes, B!Initial
<1>4. CASE plan.service = "incident" /\ plan.version = 1
  BY <1>4 DEF B!Graph, B!IncidentV1, PlanNodes, B!Initial
<1>5. CASE plan.service = "incident" /\ plan.version # 1
  BY <1>5 DEF B!Graph, B!IncidentV2, PlanNodes, B!Initial
<1> QED
  BY <1>1, <1>2, <1>3, <1>4, <1>5 DEF BundlesAreKnown, Plans

(* One more node at the end of a chain.                                      *)
LEMMA ChainGrows ==
    ASSUME NEW graph, NEW path \in Seq(PlanNodes), NEW n \in PlanNodes, path # <<>>,
           Chained(path, graph), n \in graph[B!Last(path)]
    PROVE  Chained(Append(path, n), graph)
<1> DEFINE k == Len(path)
           longer == Append(path, n)
<1>1. /\ k \in Nat /\ k > 0 /\ Len(longer) = k + 1
      /\ longer[k + 1] = n /\ \A i \in 1 .. k : longer[i] = path[i]
  BY AppendProperties, LenProperties, EmptySeq
<1>2. /\ n \in graph[path[k]]
      /\ \A i \in 1 .. k - 1 : path[i + 1] \in graph[path[i]]
  BY DEF B!Last, Chained
<1> HIDE DEF k, longer
<1>3. ASSUME NEW i \in 1 .. Len(longer) - 1 PROVE longer[i + 1] \in graph[longer[i]]
  BY <1>1, <1>2
<1> QED
  BY <1>3 DEF Chained, longer

(* The node that was appended is the last.                                 *)
LEMMA AppendedLast ==
    ASSUME NEW path \in Seq(PlanNodes), NEW n \in PlanNodes
    PROVE  /\ Append(path, n) \in Seq(PlanNodes) /\ Append(path, n) # <<>> /\ B!Last(Append(path, n)) = n
<1>1. Append(path, n) \in Seq(PlanNodes) /\ Append(path, n) # <<>>
  BY AppendProperties
<1>2. Len(Append(path, n)) = Len(path) + 1 /\ Append(path, n)[Len(path) + 1] = n
  BY AppendProperties
<1> QED
  BY <1>1, <1>2 DEF B!Last

-----------------------------------------------------------------------------
(* An execution starts at the beginning of its plan.                       *)
LEMMA StartIsFaithful ==
    ASSUME BundlesAreKnown, BundleInv, NEW x \in Executions, B!Start(x) PROVE BundleInv'
<1> DEFINE e == [plan |-> B!ActivePlan, at |-> B!Initial[service], ran |-> <<>>, status |-> "live"]
<1>1. B!ActivePlan \in Plans /\ B!ActivePlan.service = service
  BY DEF BundlesAreKnown, BundleInv, B!ActivePlan, Plans
<1>2. B!Initial[service] \in DOMAIN B!Graph(B!ActivePlan) /\ B!Initial[service] \in PlanNodes
  BY <1>1, GraphIsClosed
<1>3. /\ e \in Begun /\ e.plan = B!ActivePlan /\ e.at = B!Initial[service] /\ e.ran = <<>> /\ e.status = "live"
  BY <1>1, <1>2, EmptySeq DEF Begun
<1>4. execution' = [execution EXCEPT ![x] = e] /\ UNCHANGED <<service, release, limit>>
  BY DEF B!Start
<1> HIDE DEF e
<1>5. Len(Append(e.ran, e.at)) = 1 /\ Len(e.ran) = 0
  BY <1>2, <1>3, AppendProperties, EmptySeq
<1>6. Faithful(e)
  BY <1>2, <1>3, <1>5 DEF Faithful, Chained
<1> QED
  BY <1>1, <1>3, <1>4, <1>6 DEF BundleInv

(* A node goes on to one that follows it in the plan, or ends.             *)
LEMMA MoveIsFaithful ==
    ASSUME BundlesAreKnown, BundleInv, NEW x \in Executions, B!Live(x), B!Moved(x) PROVE BundleInv'
<1> DEFINE e == execution[x]
           graph == B!Graph(e.plan)
           ran == Append(e.ran, e.at)
<1>1. e \in Begun /\ e.status = "live" /\ Faithful(e) /\ e.plan.service = service
  BY DEF BundleInv, B!Live
<1>2. e.plan \in Plans /\ e.at \in PlanNodes /\ e.ran \in Seq(PlanNodes)
  BY <1>1 DEF Begun
<1>3. ran \in Seq(PlanNodes) /\ ran # <<>> /\ B!Last(ran) = e.at /\ Chained(ran, graph)
  BY <1>1, <1>2, AppendedLast DEF Faithful
<1>4. UNCHANGED <<service, release, limit>>
  BY DEF B!Moved
<1>5. ASSUME NEW y \in Begun, Faithful(y), y.plan = e.plan, execution' = [execution EXCEPT ![x] = y]
      PROVE  BundleInv'
  BY <1>1, <1>4, <1>5 DEF BundleInv
<1>6. CASE graph[e.at] = {}
  <2> DEFINE y == [e EXCEPT !.ran = ran, !.status = "completed"]
  <2>1. execution' = [execution EXCEPT ![x] = y]
    BY <1>6 DEF B!Moved, B!BundleFor
  <2> HIDE DEF ran
  <2>2. y \in Begun /\ y.plan = e.plan /\ y.at = e.at /\ y.ran = ran /\ y.status = "completed"
    BY <1>1, <1>3 DEF Begun
  <2> HIDE DEF y
  <2>3. Faithful(y)
    BY <1>1, <1>3, <1>6, <2>2 DEF Faithful
  <2> QED
    BY <1>5, <2>1, <2>2, <2>3
<1>7. CASE graph[e.at] # {}
  <2>1. PICK n \in graph[e.at] : execution' = [execution EXCEPT ![x] = [e EXCEPT !.ran = ran, !.at = n]]
    BY <1>7 DEF B!Moved, B!BundleFor
  <2> DEFINE y == [e EXCEPT !.ran = ran, !.at = n]
  <2>2. n \in DOMAIN graph /\ n \in PlanNodes
    BY <1>1, <1>2, <2>1, GraphIsClosed DEF Faithful
  <2>3. Chained(Append(ran, n), graph)
    BY <1>3, <2>1, <2>2, ChainGrows
  <2>4. execution' = [execution EXCEPT ![x] = y]
    BY <2>1
  <2> HIDE DEF ran
  <2>5. y \in Begun /\ y.plan = e.plan /\ y.at = n /\ y.ran = ran /\ y.status = "live"
    BY <1>1, <1>3, <2>2 DEF Begun
  <2> HIDE DEF y
  <2>6. Faithful(y)
    BY <1>3, <2>2, <2>3, <2>5 DEF Faithful
  <2> QED
    BY <1>5, <2>4, <2>5, <2>6
<1> QED
  BY <1>6, <1>7

(* A siren may be stopped anywhere.                                        *)
LEMMA StopIsFaithful ==
    ASSUME BundlesAreKnown, BundleInv, NEW x \in Executions, B!Stop(x) PROVE BundleInv'
<1> DEFINE e == execution[x]
           y == [e EXCEPT !.status = "canceled"]
<1>1. e \in Begun /\ Faithful(e) /\ e.plan.service = service
  BY DEF BundleInv, B!Live, B!Stop, B!Serves
<1>2. y \in Begun /\ y.plan = e.plan /\ y.at = e.at /\ y.ran = e.ran /\ y.status = "canceled"
  BY <1>1 DEF Begun
<1>3. execution' = [execution EXCEPT ![x] = y] /\ UNCHANGED <<service, release, limit>>
  BY DEF B!Stop
<1> HIDE DEF y
<1>4. Faithful(y)
  BY <1>1, <1>2 DEF Faithful
<1> QED
  BY <1>1, <1>2, <1>3, <1>4 DEF BundleInv

(* All steps; what is deployed or opened touches no execution.             *)
LEMMA BundleStep == BundlesAreKnown /\ BundleInv /\ [B!Next]_(B!vars) => BundleInv'
<1> SUFFICES ASSUME BundlesAreKnown, BundleInv, [B!Next]_(B!vars) PROVE BundleInv'
  OBVIOUS
<1>1. CASE UNCHANGED B!vars
  BY <1>1 DEF BundleInv, B!vars
<1>2. CASE B!Deploy \/ B!Open
  BY <1>2 DEF BundleInv, B!Deploy, B!Open
<1>3. ASSUME NEW x \in Executions, B!Drive(x) \/ B!Answered(x) PROVE BundleInv'
  BY <1>3, MoveIsFaithful DEF B!Drive, B!Answered, B!Resolve, B!Serves
<1> QED
  BY <1>1, <1>2, <1>3, StartIsFaithful, StopIsFaithful DEF B!Next

(* Whatever is deployed meanwhile, an execution runs a path of the plan it   *)
(* was started with.                                                         *)
THEOREM ExecutionsFollowTheirPlans == ASSUME BundlesAreKnown PROVE B!Spec => []FollowsItsPlan
<1>1. B!Init => BundleInv
  BY UnstartedIsNone DEF B!Init, BundleInv
<1>2. BundleInv => B!FollowsItsPlan
  <2> SUFFICES ASSUME BundleInv, NEW x \in Executions, execution[x] # B!Unstarted
               PROVE  LET e == execution[x]
                          graph == B!Graph(e.plan)
                          path == IF e.status = "live" THEN Append(e.ran, e.at) ELSE e.ran
                      IN  /\ \A i \in 1 .. Len(path) - 1 : path[i + 1] \in graph[path[i]]
                          /\ e.status = "completed" => graph[B!Last(path)] = {}
    BY DEF B!FollowsItsPlan
  <2>1. Faithful(execution[x])
    BY DEF BundleInv
  <2>2. CASE execution[x].status = "live"
    BY <2>1, <2>2 DEF Faithful, Chained
  <2>3. CASE execution[x].status # "live"
    BY <2>1, <2>3 DEF Faithful, Chained
  <2> QED
    BY <2>2, <2>3
<1> QED
  BY <1>1, <1>2, BundleStep, PTL DEF B!Spec, FollowsItsPlan
=============================================================================
