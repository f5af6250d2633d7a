------------------------------- MODULE MCGates -------------------------------
(* An instance of Gates for TLC: words "x" and "y", a table bar, an odd     *)
(* character and a run of '!'; limits scaled down so that texts of four     *)
(* words reach them.                                                        *)
EXTENDS Gates

FixedAndOwn == {{"p1", "p2"}, {"own"}}

FewTexts ==
    [p \in {"p1", "p2", "own"} |->
        CASE p = "p1"  -> {<<"x", "y">>, <<"x", "y", "x", "y">>, <<"bar", "bar", "bar">>}
          [] p = "p2"  -> {<<"x">>}
          [] p = "own" -> {<<"y">>, <<"x", "x", "x">>, <<"odd", "bang", "odd">>}]

=============================================================================
