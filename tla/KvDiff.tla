-------------------------------- MODULE KvDiff -------------------------------
(***************************************************************************)
(* gates/kv_diff.py: what a comparison of two captures says.               *)
(*                                                                         *)
(* A text is the sequence of its words; the words that have no letter or   *)
(* digit are Punct.  One of them is a run of six or more '!' (Bang), Odd   *)
(* are those that hold a replacement or a control character.  Distances    *)
(* are counted in 1/Unit; where every length in use divides Unit, as in    *)
(* the instance, the means are exact; the code rounds to four digits.      *)
(***************************************************************************)
EXTENDS Integers, FiniteSets, SequencesExt

CONSTANTS
    Words,              \* the words of the texts
    Punct, Bang, Odd,   \* those without a letter, see above
    MinTokenRepeat,     \* equal words in a row that are degenerate: 10
    MinNgramRepeat,     \* equal n-grams in a row that are: 6
    MaxNgram,           \* longest n-gram looked at: 6
    MinOdd,             \* odd characters of a kind that are too many: 3
    Unit,               \* distances are counted in 1/Unit
    MaxNed              \* MAX_NED, in 1/Unit

ASSUME KvDiffAssumption ==
    /\ Bang \in Punct /\ Odd \subseteq Punct /\ Punct \subseteq Words
    /\ MinTokenRepeat \in Nat \ {0, 1}
    /\ {MinNgramRepeat, MaxNgram, MinOdd, Unit} \subseteq Nat \ {0}
    /\ MaxNed \in 0..Unit

Count(w, t) == Cardinality({i \in DOMAIN t : t[i] = w})

(* The words i..i+n-1 come r times in a row. *)
RepeatsAt(t, n, i, r) ==
    \A k \in 1..(r - 1) : SubSeq(t, i + k * n, i + (k + 1) * n - 1) = SubSeq(t, i, i + n - 1)

(* How many equal words in a row end at each place. *)
RunLengths(t) ==
    LET run[i \in DOMAIN t] ==
            IF i > 1 /\ t[i] = t[i - 1] THEN run[i - 1] + 1 ELSE 1
    IN  run

RepeatedToken(t) ==
    \E i \in 2..Len(t) : RunLengths(t)[i] >= MinTokenRepeat /\ t[i] \notin Punct

(* Mutant of RepeatedGrams: the last place is not looked at. *)
RepeatedGramsShort(t) ==
    {n \in 2..MaxNgram :
        \E i \in 1..(Len(t) - n * MinNgramRepeat) :
            /\ \E j \in i..(i + n - 1) : t[j] \notin Punct
            /\ RepeatsAt(t, n, i, MinNgramRepeat)}

RepeatedGrams(t) ==
    {n \in 2..MaxNgram :
        \E i \in 1..(Len(t) - n * MinNgramRepeat + 1) :
            /\ \E j \in i..(i + n - 1) : t[j] \notin Punct
            /\ RepeatsAt(t, n, i, MinNgramRepeat)}

(* The shortest n-gram is named, and none beside a repeated token. *)
CorruptionFlags(t) ==
    IF t = <<>> THEN {"empty_output"} ELSE
       {f \in {"bang_run"} : Bang \in ToSet(t)}
       \cup {f \in {"odd_chars"} : \E w \in Odd : Count(w, t) >= MinOdd}
       \cup {f \in {"repeated_token"} : RepeatedToken(t)}
       \cup {f \in {"repeated_ngram"} : ~RepeatedToken(t) /\ RepeatedGrams(t) # {}}

(* The table of distances, the shorter text across: row i belongs to the    *)
(* first i words of the longer one, place j of it to the first j words of  *)
(* the shorter.                                                            *)
NextRow(long, short, prev, i) ==
    LET cur[j \in 0..Len(short)] ==
            IF j = 0 THEN i
            ELSE Min({prev[j] + 1, cur[j - 1] + 1,
                      prev[j - 1] + (IF long[i] = short[j] THEN 0 ELSE 1)})
    IN  cur

Rows(long, short) ==
    LET row[i \in 0..Len(long)] ==
            IF i = 0 THEN [j \in 0..Len(short) |-> j]
            ELSE NextRow(long, short, row[i - 1], i)
    IN  row

Levenshtein(a, b) ==
    IF a = b THEN 0
    ELSE IF Len(a) < Len(b) THEN Rows(b, a)[Len(b)][Len(a)]
    ELSE Rows(a, b)[Len(a)][Len(b)]

(* Distances relative to the longer of two texts. *)
Relative(d, a, b) == (d * Unit) \div Max({1, Len(a), Len(b)})

NormEditDistance(a, b) == Relative(Levenshtein(a, b), a, b)

(* An output is [text, error]; a capture's outputs a function of prompts.   *)
(* Prompts that one side lacks are not looked at.                           *)
Common(oa, ob) == DOMAIN oa \cap DOMAIN ob

Corrupt(outs, ids) == \E p \in ids : CorruptionFlags(outs[p].text) # {}

FailReasons(oa, ob) ==
    LET ids   == Common(oa, ob)
        total == SumFunction([p \in ids |-> NormEditDistance(oa[p].text, ob[p].text)])
    IN  {r \in {"corrupt_a"} : Corrupt(oa, ids)}
        \cup {r \in {"corrupt_b"} : Corrupt(ob, ids)}
        \cup {r \in {"distance"} : total > MaxNed * Cardinality(ids)}
        \cup {r \in {"errors"} : \E p \in ids : oa[p].error \/ ob[p].error}
        \cup {r \in {"no_prompts"} : ids = {}}

-----------------------------------------------------------------------------
(* What the comparison is meant to find out, by definition and not by      *)
(* computation.                                                            *)

(* Some stretch of the text, not of punctuation alone, comes too often in  *)
(* a row; a single word has a limit of its own.                            *)
Degenerate(t) ==
    \E i, e \in DOMAIN t : \E n \in 1..MaxNgram :
        LET s == SubSeq(t, i, e)
            r == IF n = 1 THEN MinTokenRepeat ELSE MinNgramRepeat
        IN  /\ Len(s) = n * r
            /\ \A j \in (n + 1)..Len(s) : s[j] = s[j - n]
            /\ \E j \in 1..n : s[j] \notin Punct

Unsound(t) == t = <<>> \/ Bang \in ToSet(t) \/ Degenerate(t)
              \/ \E w \in Odd : Count(w, t) >= MinOdd

(* An alignment pairs words of one text with words of the other, in their   *)
(* order; what has no partner is deleted or inserted, and what is paired    *)
(* with another word is replaced.                                          *)
Ordered(m) == \A i, j \in DOMAIN m : i < j => m[i] < m[j]

Alignments(p, q) == {m \in UNION {[D -> 1..q] : D \in SUBSET (1..p)} : Ordered(m)}

Replaced(a, b, m) == {i \in DOMAIN m : a[i] # b[m[i]]}

Edits(a, b, p, q, m) ==
    p + q - 2 * Cardinality(DOMAIN m) + Cardinality(Replaced(a, b, m))

LeastEdits(a, b) ==
    Min({Edits(a, b, Len(a), Len(b), m) : m \in Alignments(Len(a), Len(b))})

=============================================================================
