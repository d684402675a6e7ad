----------------------------- MODULE RiskPolicy -----------------------------
(***************************************************************************)
(* internal/policy/risk/risk.go: the risk of a trigger, a weighted sum of  *)
(* what is known of it, under DefaultPolicy.                               *)
(*                                                                         *)
(* A score of 1 is 6000 here, in which every weight is whole: confidence   *)
(* comes in hundredths and dwell in seconds.  The order of the sum, which  *)
(* the code fixes for the sake of its rounding, does not matter.           *)
(***************************************************************************)
EXTENDS Naturals

Least(a, b) == IF a < b THEN a ELSE b
When(condition, weight) == IF condition THEN weight ELSE 0

Weight(identity) == When(identity = "unknown", 900) + When(identity = "uncertain", 480)
Away(mode) == mode \in {"away", "armed_away"}

\* Assess; f is what FeaturesFromTrigger makes of a trigger.
Score(f) ==
  Least(6000, 18 * f.confidence
              + When(f.person, 900)
              + Weight(f.identity)
              + When(Away(f.alarm), 600)
              + When(f.entry, 900)
              + 5 * Least(60, f.dwell)
              + 150 * Least(2, f.cross)
              + 100 * Least(3, f.evidence))
=============================================================================
