-------------------------------- MODULE Replies --------------------------------
(***************************************************************************)
(* evalsuite/common.py: what a reply shows and what it hides.  A text is a *)
(* sequence of marks <<form, value>>: tags that open and close reasoning,  *)
(* statements of an answer, the word "or", and prose.  A line ends after   *)
(* every mark that no "or" joins to the next one.                          *)
(***************************************************************************)
EXTENDS Integers, Sequences, FiniteSets, SequencesExt

Gold  == "gold"
Other == "other"

Mark(form) == <<form, "">>
Or    == Mark("or")
Prose == Mark("prose")

Openers == {Mark("<think>"), Mark("<reason>")}
CloserOf(o) == IF o = Mark("<think>") THEN Mark("</think>") ELSE Mark("</reason>")
Closers == {CloserOf(o) : o \in Openers}

Tags    == Openers \cup Closers

(* A value in a box, after "the answer is", attributed to the key that was *)
(* asked for, or bare.                                                     *)
Said == {"boxed", "phrase", "keyed", "bare"} \X {Gold, Other}

(* A written call of a tool.                                               *)
Call == Mark("calls")

Marks == Tags \cup Said \cup {Or, Prose, Call}

Places(t, marks) == {i \in 1..Len(t) : t[i] \in marks}
From(t, i) == SubSeq(t, i, Len(t))
Upto(t, i) == SubSeq(t, 1, i)

(* What stands at some places of a text, in its order.                     *)
Keep(t, places) ==
    LET kept[i \in 0..Len(t)] ==
            IF i = 0 THEN <<>>
            ELSE IF i \in places THEN Append(kept[i - 1], t[i]) ELSE kept[i - 1]
    IN  kept[Len(t)]

(* _THINK_BLOCK: from left to right, the shortest block whose closing tag  *)
(* is the opening one's own.  Where the block of each place begins and     *)
(* ends.                                                                   *)
NoBlock == <<0, 0>>

Closes(t, i) == {j \in Places(t, {CloserOf(t[i])}) : t[i] \in Openers /\ i < j}

BlockAt(t) ==
    LET block[i \in 0..Len(t)] ==
            IF i = 0 THEN NoBlock
            ELSE IF i <= block[i - 1][2] THEN block[i - 1]
            ELSE IF Closes(t, i) = {} THEN NoBlock ELSE <<i, Min(Closes(t, i))>>
    IN  block

(* What is left without the blocks, and what they hold.                    *)
Blocks(t) ==
    LET block == BlockAt(t)
    IN  [left  |-> Keep(t, {i \in 1..Len(t) : block[i] = NoBlock}),
         taken |-> Keep(t, {i \in 1..Len(t) : block[i][1] < i /\ i < block[i][2]})]

(* An opening <think> that nothing closes takes the rest of the text.      *)
Unclosed(n) ==
    LET opens == Places(n.left, {Mark("<think>")}) IN
    IF opens = {} THEN n
    ELSE [left |-> Upto(n.left, Min(opens) - 1),
          taken |-> n.taken \o From(n.left, Min(opens) + 1)]

(* Mutant of Orphan: a lone closing tag is left where it is.               *)
OrphanKept(n) == n

(* A closing tag that nothing opened takes everything before it.           *)
Orphan(n) ==
    LET closes == Places(n.left, Closers) IN
    IF closes = {} THEN n
    ELSE [left |-> From(n.left, Max(closes) + 1),
          taken |-> n.taken \o Upto(n.left, Max(closes) - 1)]

(* normalize_response, without the channels of harmony.  `field` is the    *)
(* reasoning that came in a field of its own.                              *)
Normalize(text, field, finish) ==
    LET n == Orphan(Unclosed(Blocks(text)))
        hidden == field \o n.taken
        seen(visible, status, afr) ==
            [visible |-> visible, status |-> status, answer_from_reasoning |-> afr]
    IN  IF n.left # <<>> THEN seen(n.left, "ok", FALSE)
        ELSE IF finish = "length" THEN seen(<<>>, "truncated", FALSE)
        ELSE IF hidden # <<>> THEN seen(hidden, "ok", TRUE)
        ELSE seen(<<>>, "empty", FALSE)

-----------------------------------------------------------------------------
(* Lines. *)
Joined(t, i) == i \in 1..(Len(t) - 1) /\ (t[i] = Or \/ t[i + 1] = Or)

LineEnd(t, i)   == Min({j \in i..Len(t) : ~Joined(t, j)})
LineStart(t, i) == Max({j \in 1..i : j = 1 \/ ~Joined(t, j - 1)})
Line(t, i)      == SubSeq(t, LineStart(t, i), LineEnd(t, i))

Values(t) == {t[i][2] : i \in Places(t, Said)}

Form(t, form) == {i \in 1..Len(t) : t[i][1] = form}

(* extract_final_answer: the last box, else what follows the last "answer  *)
(* is" on its line, else nothing.                                          *)
ExtractFinalAnswer(t) ==
    IF Form(t, "boxed") # {}
    THEN [method |-> "boxed", span |-> << t[Max(Form(t, "boxed"))] >>]
    ELSE IF Form(t, "phrase") # {}
    THEN LET i == Max(Form(t, "phrase"))
         IN  [method |-> "phrase", span |-> SubSeq(t, i, LineEnd(t, i))]
    ELSE [method |-> "none", span |-> <<>>]
=============================================================================
