------------------------------ MODULE MCItemData ------------------------------
(* Instances of ItemData for TLC.  The first version of every source is    *)
(* large enough, the second one short of items for the full profile, and   *)
(* of SimpleQA's for either.                                               *)
EXTENDS ItemData

TwoProfiles == [p \in Profile |-> [s \in Source |->
    IF s \in {"essays", "mmlu_val", "multiple_answers"} THEN 0
    ELSE IF p = "full" THEN 3 ELSE IF s = "lcb" THEN 1 ELSE 2]]
ShortSecond == [s \in Source |-> [v \in Versions |-> 
    IF v # 2 THEN 3 ELSE IF s \in {"lcb", "simpleqa"} THEN 1 ELSE 2]]
OneOrTwo    == {<<"code">>, <<"ifeval", "knowledge">>}
Opts(p, r, s, f) == [profile |-> p, refresh |-> r, short |-> s, fixtures |-> f]
SomeOptions == {Opts("default", FALSE, FALSE, FALSE), Opts("full", TRUE, FALSE, FALSE),
                Opts("default", FALSE, TRUE, TRUE)}
SmallLimits == {NoLimit, 2}

=============================================================================
