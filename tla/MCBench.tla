------------------------------- MODULE MCBench -------------------------------
(* Instances of Sweep, and of Cell below it, for TLC: a cell with a server *)
(* on either GPU, and a load test on the first one.                        *)
EXTENDS Sweep

TwoLayouts  == [c \in Cell |-> IF c = "pair" THEN <<"g0", "g1">> ELSE <<"g0">>]
TwoReplicas == [c \in Cell |-> IF c = "pair" THEN 2 ELSE 1]
OwnAlias    == [c \in Cell |-> c]
ThreePoints == <<14, 7, 1>>

=============================================================================
