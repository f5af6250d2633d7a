------------------------------- MODULE MCScoring -------------------------------
(* Texts: tags up to three deep before one statement, and answers of three marks after one tag. *)
EXTENDS Scoring

SeqUpto(S, n) == UNION {[1..k -> S] : k \in 0..n}

Hints  == Tags \cup {<<"bare", Gold>>}
Statements == ({"boxed", "phrase", "bare"} \X {Gold, Other}) \cup {Or, Prose}
Starts(b) == b = <<>> \/ b[1] # Or
Short  == {b \in SeqUpto(Statements, 1) : Starts(b)}
Long   == {b \in SeqUpto(Statements, 3) : Starts(b)}
Deep   == SeqUpto(Hints, 3)
Flat   == SeqUpto(Hints, 1)
Plain  == {h \o b : h \in Deep, b \in Short} \cup {h \o b : h \in Flat, b \in Long}

Attributed == {b \in SeqUpto(Statements \cup ({"keyed"} \X {Gold, Other}), 3) : Starts(b)}

TextsOf == [f \in Texts |-> IF f = "numeric" THEN Plain \cup Attributed ELSE Plain]
ReasoningFields == {<<>>, <<<<"bare", Gold>>>>}

Calls(n, g) == {[n |-> n, ok |-> m] : m \in [1..n -> [1..g -> BOOLEAN]]}
FewCalls    == UNION {Calls(n, 1) : n \in 0..2}

CallItems ==
    {[family |-> "tools", mode |-> mode, sub |-> sub, text |-> t, field |-> <<>>, finish |-> e,
      written |-> w, native |-> c, nGold |-> 1] :
         mode \in {"native", "prompt"}, sub \in {"ast", "irrelevance"}, e \in {"stop", "length"},
         t \in {<<>>, <<Prose>>, <<Call>>, <<Mark("<think>"), Call>>},
         w \in FewCalls, c \in FewCalls}
    \cup UNION {{[family |-> "tools", mode |-> "native", sub |-> "ast", text |-> <<>>, field |-> <<>>,
                  finish |-> "stop", written |-> NoCalls, native |-> c, nGold |-> g] :
                     c \in UNION {Calls(n, g) : n \in 1..3}} : g \in 2..3}

PartItems ==
    {[family |-> "parts", text |-> <<Prose>>, field |-> <<>>, finish |-> "stop",
      cand |-> c, gold |-> g, ordered |-> o] :
         c \in SeqUpto(1..3, 3), g \in SeqUpto(1..3, 3), o \in BOOLEAN}
=============================================================================
