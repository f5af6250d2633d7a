-------------------------------- MODULE Scorers --------------------------------
(***************************************************************************)
(* The scorers of the families that read a text: knowledge, math, longctx; *)
(* and of tools, which reads calls.  A scorer sees the visible text only.  *)
(***************************************************************************)
EXTENDS Replies

Verdict(ok)  == [correct |-> ok, status |-> IF ok THEN "correct" ELSE "wrong"]
Unparsed     == [correct |-> FALSE, status |-> "unparsed"]

-----------------------------------------------------------------------------
(* knowledge, multiple choice: the last box, else the last answer phrase,  *)
(* else a letter alone on one of the last three lines.                     *)
ExtractMcqLetter(t) ==
    LET starts == {i \in 1..Len(t) : LineStart(t, i) = i}
        alone  == {i \in Form(t, "bare") :
                      /\ Line(t, i) = <<t[i]>>
                      /\ Cardinality({j \in starts : j > i}) < 3}
    IN  IF Form(t, "boxed") # {} THEN t[Max(Form(t, "boxed"))][2]
        ELSE IF Form(t, "phrase") # {} THEN t[Max(Form(t, "phrase"))][2]
        ELSE IF alone # {} THEN t[Max(alone)][2]
        ELSE "none"

(* Mutant of IsHedged: a box is not read as its letter.                    *)
IsHedgedBareOnly(t, letter) ==
    \E i \in 1..(Len(t) - 2) :
        /\ t[i] \in Said /\ t[i + 1] = Or /\ t[i + 2][1] = "bare"
        /\ t[i][2] # t[i + 2][2] /\ letter \in {t[i][2], t[i + 2][2]}

(* "C or D", "\boxed{C} or \boxed{D}": two letters, joined by the word.    *)
IsHedged(t, letter) ==
    \E i \in 1..(Len(t) - 2) :
        /\ t[i] \in Said /\ t[i + 1] = Or /\ t[i + 2][1] \in {"bare", "boxed"}
        /\ t[i][2] # t[i + 2][2] /\ letter \in {t[i][2], t[i + 2][2]}

ScoreMcq(t) ==
    LET letter == ExtractMcqLetter(t) IN
    IF letter = "none" THEN Unparsed
    ELSE Verdict(letter = Gold /\ ~IsHedged(t, letter))

(* knowledge, simpleqa: the span, or the last line, must name the answer   *)
(* and no other entity (_contains), and have no "or" (_HEDGE_WORD).        *)
ScoreSimpleqa(t) ==
    LET a == ExtractFinalAnswer(t)
        span == IF a.method = "none" THEN Line(t, Len(t)) ELSE a.span
    IN  IF Values(span) = {Gold} THEN Verdict(Places(span, {Or}) = {})
        ELSE IF a.method = "none" THEN Unparsed ELSE Verdict(FALSE)

-----------------------------------------------------------------------------
(* math: two different boxes with nothing but "or" between them are no     *)
(* answer; otherwise the last box, or the phrase if it says one value.     *)
HedgedBoxes(t) ==
    LET boxes == Form(t, "boxed") IN
    /\ Cardinality(boxes) > 1
    /\ LET b2 == Max(boxes)  b1 == Max(boxes \ {b2}) IN
       /\ t[b1][2] # t[b2][2]
       /\ b2 > b1 + 1 /\ \A k \in (b1 + 1)..(b2 - 1) : t[k] = Or

ScoreMath(t) ==
    LET a == ExtractFinalAnswer(t) IN
    IF HedgedBoxes(t) \/ a.method = "none" THEN Unparsed
    ELSE Verdict(Len(a.span) = 1 /\ a.span[1][2] = Gold)

(* equivalent() on parts: in their order when the answer is a tuple, else  *)
(* one by one, each taking the first part that is left and equal.          *)
LeftOver(cand, gold) ==
    LET left[n \in 0..Len(gold)] ==
            IF n = 0 THEN DOMAIN cand
            ELSE LET hits == {i \in left[n - 1] : cand[i] = gold[n]}
                 IN  IF hits = {} THEN left[n - 1] ELSE left[n - 1] \ {Min(hits)}
    IN  left

SetEqual(cand, gold) ==
    \A n \in 1..Len(gold) : \E i \in LeftOver(cand, gold)[n - 1] : cand[i] = gold[n]

Equivalent(cand, gold, ordered) ==
    /\ Len(cand) = Len(gold)
    /\ IF ordered THEN cand = gold ELSE SetEqual(cand, gold)

-----------------------------------------------------------------------------
(* longctx, tags dropped: the box, else the answer phrase - one that       *)
(* begins a line wins over one in a line's middle -, else the last line.   *)
ExtractCandidate(visible) ==
    LET t == Keep(visible, {i \in 1..Len(visible) : visible[i] \notin Tags})
        initial == {i \in Form(t, "phrase") : LineStart(t, i) = i}
        inLine(i) == [method |-> "phrase", span |-> SubSeq(t, i, LineEnd(t, i))]
    IN  IF t = <<>> THEN [method |-> "empty", span |-> t]
        ELSE IF Form(t, "boxed") # {} THEN ExtractFinalAnswer(t)
        ELSE IF initial # {} THEN inLine(Max(initial))
        ELSE IF Form(t, "phrase") # {} THEN inLine(Max(Form(t, "phrase")))
        ELSE [method |-> "last_line", span |-> Line(t, Len(t))]

(* A number.  A last line without any gives way to the end of the text.    *)
(* One value attributed to the key that was asked for is the answer; two   *)
(* are none.  With none attributed there must be one, and no "or".         *)
ScoreNumeric(visible) ==
    LET c == ExtractCandidate(visible)
        cand == IF c.method = "last_line" /\ Values(c.span) = {} THEN visible ELSE c.span
        attributed == {cand[i][2] : i \in Form(cand, "keyed")}
    IN  IF Values(cand) = {} THEN Unparsed
        ELSE IF attributed # {} THEN Verdict(attributed = {Gold})
        ELSE Verdict(Values(cand) = {Gold} /\ Places(cand, {Or}) = {})

(* A text: nothing but the gold answer in the candidate.                   *)
ScoreText(visible) ==
    LET c == ExtractCandidate(visible)
    IN  IF c.method = "empty" THEN Unparsed
        ELSE Verdict(Values(c.span) = {Gold} /\ Places(c.span, {Or}) = {})

-----------------------------------------------------------------------------
(* tools.  ok[i][j]: call i agrees with the expected call j (match_call).  *)
(* _max_matching finds augmenting paths; the state of the search is the    *)
(* call it is for, who each expected call is given to, and which of them   *)
(* were looked at.                                                         *)
Free == 0

Searches(nCalls, nGold) ==
    [call : 1..nCalls, given : [1..nGold -> 0..nCalls], seen : SUBSET (1..nGold)]

(* Mutant of TryCall: what is taken stays taken.                           *)
TryCallGreedy(ok, nCalls, nGold) ==
    [s \in Searches(nCalls, nGold) |->
        LET frees == {j \in 1..nGold : ok[s.call][j] /\ s.given[j] = Free} IN
        IF frees = {} THEN [found |-> FALSE, given |-> s.given, seen |-> s.seen]
        ELSE [found |-> TRUE, given |-> [s.given EXCEPT ![Min(frees)] = s.call], seen |-> s.seen]]

TryCall(ok, nCalls, nGold) ==
    LET try[s \in Searches(nCalls, nGold)] ==
            LET js == {j \in (1..nGold) \ s.seen : ok[s.call][j]}
                j  == Min(js)
                looked == s.seen \cup {j}
                r == IF s.given[j] = Free
                     THEN [found |-> TRUE, given |-> s.given, seen |-> looked]
                     ELSE try[[call |-> s.given[j], given |-> s.given, seen |-> looked]]
            IN  IF js = {} THEN [found |-> FALSE, given |-> s.given, seen |-> s.seen]
                ELSE IF r.found THEN [r EXCEPT !.given[j] = s.call]
                ELSE try[[call |-> s.call, given |-> r.given, seen |-> r.seen]]
    IN  try

MaxMatching(ok, nCalls, nGold) ==
    LET after[i \in 0..nCalls] ==
            IF i = 0 THEN [n |-> 0, given |-> [j \in 1..nGold |-> Free]]
            ELSE LET m == after[i - 1]
                     r == TryCall(ok, nCalls, nGold)[[call |-> i, given |-> m.given, seen |-> {}]]
                 IN  [n |-> IF r.found THEN m.n + 1 ELSE m.n, given |-> r.given]
    IN  after[nCalls].n

ScoreCalls(sub, calls, nGold) ==
    IF sub = "irrelevance" THEN Verdict(calls.n = 0)
    ELSE IF calls.n = 0 THEN Verdict(FALSE)
    ELSE Verdict(calls.n = nGold /\ MaxMatching(calls.ok, calls.n, nGold) = nGold)

(* The None of extract_calls, and of score: no call at all was read.       *)
NoCalls == [n |-> -1, ok |-> <<>>]

(* score: native mode reads tool_calls, and the text only to find that an  *)
(* irrelevant request was called upon; prompt mode reads the text, and     *)
(* tool_calls when the text encodes no calls.                              *)
ScoreTools(mode, sub, text, native, nGold) ==
    LET calls == IF mode = "native" THEN (IF native.n > 0 THEN native ELSE NoCalls)
                 ELSE IF text = NoCalls /\ native.n > 0 THEN native ELSE text
    IN  IF calls # NoCalls THEN ScoreCalls(sub, calls, nGold)
        ELSE IF sub # "irrelevance" THEN Unparsed
        ELSE IF text.n > 0 THEN ScoreCalls(sub, text, nGold)
        ELSE Verdict(TRUE)
=============================================================================
