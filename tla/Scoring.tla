------------------------------- MODULE Scoring --------------------------------
(***************************************************************************)
(* From a reply to its record: run_eval.run_one (and tools.run_item) split *)
(* the reply, leave the scoring to a thread, during which the item may be  *)
(* cancelled and the scorer may raise, and write down what came of it.     *)
(***************************************************************************)
EXTENDS Scorers

CONSTANTS
    Written,    \* family -> the texts it is answered with
    Fields,     \* what comes in the field for reasoning
    Called,     \* items of tools: calls in the text and in tool_calls
    Listed      \* items of math whose answers have several parts

VARIABLES item, stage, norm, degenerate, rec

vars == <<item, stage, norm, degenerate, rec>>

NoNorm == [visible |-> <<>>, status |-> "none", answer_from_reasoning |-> FALSE]
NoRec  == [status |-> "error", correct |-> FALSE]

Texts    == {"mcq", "simpleqa", "math", "numeric", "text"}
Families == Texts \cup {"parts", "tools"}

(* What an item brings: a reply, and for the two families that are not     *)
(* scored by a text alone, the calls or the parts read from it.            *)
IsReply(x) == {x.text, x.field} \subseteq Seq(Marks) /\ x.finish \in {"stop", "length"}

IsCalls(c, nGold) == c = NoCalls \/ (c.n \in Nat /\ c.ok \in [1..c.n -> [1..nGold -> BOOLEAN]])

IsCallItem(x) ==
    /\ x.family = "tools" /\ IsReply(x)
    /\ x.mode \in {"native", "prompt"} /\ x.sub \in {"ast", "irrelevance"}
    /\ x.nGold \in Nat /\ IsCalls(x.written, x.nGold) /\ IsCalls(x.native, x.nGold)

IsPartsItem(x) ==
    /\ x.family = "parts" /\ IsReply(x) /\ x.ordered \in BOOLEAN
    /\ {x.cand, x.gold} \subseteq Seq(Range(x.cand) \cup Range(x.gold))

ASSUME ScoringAssumption ==
    /\ \A f \in Texts : Written[f] \subseteq Seq(Marks)
    /\ Fields \subseteq Seq(Marks)
    /\ \A x \in Called : IsCallItem(x)
    /\ \A x \in Listed : IsPartsItem(x)

Init ==
    /\ \/ \E f \in Texts : \E t \in Written[f], r \in Fields, e \in {"stop", "length"} :
              item = [family |-> f, text |-> t, field |-> r, finish |-> e]
       \/ item \in Called
       \/ item \in Listed
    /\ stage = "answered"
    /\ norm = NoNorm
    /\ degenerate = FALSE
    /\ rec = NoRec

Record(r) == stage' = "recorded" /\ rec' = r /\ UNCHANGED item

(* The scorer of the item's family.                                        *)
Score ==
    CASE item.family = "mcq"      -> ScoreMcq(norm.visible)
      [] item.family = "simpleqa" -> ScoreSimpleqa(norm.visible)
      [] item.family = "math"     -> ScoreMath(norm.visible)
      [] item.family = "parts"    -> Verdict(Equivalent(item.cand, item.gold, item.ordered))
      [] item.family = "numeric"  -> ScoreNumeric(norm.visible)
      [] item.family = "text"     -> ScoreText(norm.visible)
      [] item.family = "tools"    ->
            ScoreTools(item.mode, item.sub,
                       IF Places(norm.visible, {Call}) # {} THEN item.written ELSE NoCalls,
                       item.native, item.nGold)

(* A loop at the cap is no answer, and a wrong answer at the cap is cut.   *)
Degenerate == [status  |-> IF item.finish = "length" THEN "truncated" ELSE "wrong",
               correct |-> FALSE]

(* Mutant of ApplyVerdict: only a loop is taken for a cut reply.           *)
ApplyVerdictAsScored(v) == IF degenerate THEN Degenerate ELSE v

ApplyVerdict(v) ==
    CASE degenerate -> Degenerate
      [] ~degenerate /\ item.finish = "length" /\ ~v.correct -> [v EXCEPT !.status = "truncated"]
      [] OTHER -> v

(* tools scores the calls of a reply that shows no text.                   *)
CallsInstead == item.family = "tools" /\ item.native.n > 0

(* The reply is split.  Nothing to read: the item is done.                 *)
Split ==
    /\ stage = "answered"
    /\ norm' = Normalize(item.text, item.field, item.finish)
    /\ degenerate' \in (IF item.finish = "length" THEN BOOLEAN ELSE {FALSE})
    /\ IF norm'.status # "ok" /\ ~CallsInstead
       THEN Record([status |-> norm'.status, correct |-> FALSE])
       ELSE stage' = "scoring" /\ UNCHANGED <<item, rec>>

Scored ==
    /\ stage = "scoring"
    /\ Record(ApplyVerdict(Score))
    /\ UNCHANGED <<norm, degenerate>>

(* The deadline and its grace pass while the thread scores, or it raises.  *)
Lost ==
    /\ stage = "scoring"
    /\ \E status \in {"cancelled", "error"} : Record([status |-> status, correct |-> FALSE])
    /\ UNCHANGED <<norm, degenerate>>

Next == Split \/ Scored \/ Lost

Spec == Init /\ [][Next]_vars

-----------------------------------------------------------------------------
(* Every field holds a value of its kind.                                  *)
TypeOK ==
    /\ item.family \in Families
    /\ stage \in {"answered", "scoring", "recorded"}
    /\ norm.status \in {"none", "ok", "truncated", "empty"}
    /\ degenerate \in BOOLEAN
    /\ rec.status \in {"correct", "wrong", "unparsed", "truncated", "empty", "cancelled", "error"}
    /\ rec.correct = (rec.status = "correct")

Credited == stage = "recorded" /\ rec.correct

(* An answer is shown if every closing tag after it has an opening tag     *)
(* after it too, and every <think> before it was closed before it.         *)
GoldShown(t) ==
    \E i \in 1..Len(t) :
        /\ t[i] \in Said /\ t[i][2] = Gold
        /\ \A c \in Places(t, Closers) : c > i => \E o \in Places(t, Openers) : i < o /\ o < c
        /\ \A o \in Places(t, {Mark("<think>")}) : o < i => \E c \in Places(t, Closers) : o < c /\ c < i

(* Nobody is credited for an answer that is only in the reasoning - a      *)
(* chain of thought that mentions the gold answer, behind a lone </think>  *)
(* or a <think> that nothing closes - unless the reply shows nothing else, *)
(* in which case the record says so.                                       *)
CreditFromVisible ==
    (Credited /\ item.family \in Texts) => (norm.answer_from_reasoning \/ GoldShown(item.text))

(* Two different answers joined by "or", in the forms the family asks for, *)
(* are no answer: the gold one is not picked out of them.                  *)
Alternatives(t, firsts, seconds) ==
    /\ Len(t) = 3 /\ t[2] = Or /\ {t[1], t[3]} \subseteq Said
    /\ t[1][2] # t[3][2]
    /\ t[1][1] \in firsts /\ t[3][1] \in seconds

AlternativesNotCredited ==
    Credited =>
        CASE item.family = "mcq" ->
                 /\ ~Alternatives(norm.visible, {"boxed", "phrase", "bare"}, {"boxed", "bare"})
          [] item.family = "math" ->
                 /\ ~Alternatives(norm.visible, {"boxed"}, {"boxed"})
                 /\ ~Alternatives(norm.visible, {"phrase"}, {"bare"})
          [] item.family \in {"simpleqa", "numeric", "text"} ->
                 ~Alternatives(norm.visible, {"phrase", "bare"}, {"bare"})
          [] OTHER -> TRUE

(* The rule the comment of _score_simpleqa states, for boxes: a model that *)
(* named alternatives must not be scored correct here either.  The code    *)
(* looks for the "or" in the last box alone.                               *)
BoxedAlternativesNotCredited ==
    (Credited /\ item.family = "simpleqa") => ~Alternatives(norm.visible, {"boxed"}, {"boxed"})

(* A reply that ends on the gold answer, boxed and on a line of its own,   *)
(* is credited, whatever was said, boxed or thought before - if nothing    *)
(* but the scorer has a say.  (Of mcq, a reply without any "or": there an  *)
(* earlier "C or D" counts against the C that is chosen in the end.)       *)
FinalBoxCredited ==
    LET v == norm.visible IN
    ( /\ stage = "recorded" /\ item.family \in Texts /\ v # <<>>
      /\ item.family = "mcq" => Places(v, {Or}) = {}
      /\ v[Len(v)] = <<"boxed", Gold>> /\ LineStart(v, Len(v)) = Len(v)
      /\ ~degenerate /\ rec.status \notin {"cancelled", "error"} ) => rec.correct

(* An answer is credited for what the reply commits itself to in the end.  *)
OnlyCommittedCredited == AlternativesNotCredited /\ FinalBoxCredited

(* A reply cut at the token cap is credited or counted as truncated; it    *)
(* never joins the wrong, the unparsed and the empty ones.                 *)
CutIsNotWrong ==
    (stage = "recorded" /\ item.finish = "length") =>
        rec.status \in {"correct", "truncated", "cancelled", "error"}

(* Calls are credited exactly if they can be assigned one to one to the    *)
(* expected calls, each agreeing with its own.                             *)
Assignable(calls, n) ==
    /\ calls.n = n
    /\ \E p \in [1..n -> 1..n] : /\ \A j, k \in 1..n : j # k => p[j] # p[k]
                                 /\ \A j \in 1..n : calls.ok[p[j]][j]

AssignableIsCredited ==
    ( /\ stage = "recorded" /\ item.family = "tools" /\ item.sub = "ast"
      /\ item.mode = "native" /\ item.native.n > 0
      /\ ~degenerate /\ rec.status \notin {"cancelled", "error"} ) =>
        (rec.correct <=> Assignable(item.native, item.nGold))

(* An irrelevant request is credited only if the reply calls nothing: not  *)
(* in its text, whichever the mode, nor in tool_calls where they count.    *)
IrrelevanceCallsNothing ==
    (Credited /\ item.family = "tools" /\ item.sub = "irrelevance") =>
        /\ Places(norm.visible, {Call}) # {} => item.written.n <= 0
        /\ item.native.n > 0 => item.mode = "prompt" /\ item.written.n = 0

(* A set is compared as a bag: the same parts, each as often, in any order.*)
SetsCompareAsBags ==
    ( /\ stage = "recorded" /\ item.family = "parts" /\ ~item.ordered /\ norm.visible # <<>>
      /\ ~degenerate /\ rec.status \notin {"cancelled", "error"} ) =>
        (rec.correct <=> \A x \in Range(item.cand) \cup Range(item.gold) :
                             Cardinality(Places(item.cand, {x})) = Cardinality(Places(item.gold, {x})))

(* Calls, and the parts of an answer, are matched one to one with what is  *)
(* expected, and with nothing if nothing is.                               *)
MatchedOneToOne == AssignableIsCredited /\ SetsCompareAsBags /\ IrrelevanceCallsNothing

=============================================================================
