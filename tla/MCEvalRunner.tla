----------------------------- MODULE MCEvalRunner -----------------------------
(* Instances of EvalRunner for TLC. *)
EXTENDS EvalRunner

(* Two families interleaved round-robin, as build_plan orders them. *)
TwoFamilies == [i \in Item |-> IF i % 2 = 1 THEN "math" ELSE "tools"]
TwoPriors   == [f \in Family |-> IF f = "math" THEN 2 ELSE 1]

(* One family, so that its p90 moves with three and more observations. *)
OneFamily == [i \in Item |-> "math"]
OnePrior  == [f \in Family |-> 2]

=============================================================================
