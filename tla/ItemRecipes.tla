----------------------------- MODULE ItemRecipes -----------------------------
(***************************************************************************)
(* What the prepare() of every family of the evaluation suite does, as     *)
(* data: the files it fetches, in their order, what a failed fetch of one  *)
(* means, and when it compares a pool with what was asked for.             *)
(*                                                                         *)
(* kind     "plain": a failed fetch ends the prepare;                      *)
(*          "pinned": and the file must have the digest of the source;     *)
(*          "optional": the file is left out if --allow-short was given;   *)
(*          "gated": it is left out if the hub answers 401 or 403, or says *)
(*          that it is gated or too large.                                 *)
(* choose   the files whose items are chosen when this one has been read.  *)
(*                                                                         *)
(* A crawl of many pages is two files here; the repository's API answers,  *)
(* which are informational, are none.                                      *)
(***************************************************************************)
EXTENDS Integers, Sequences

File(name, kind, choose) == [name |-> name, kind |-> kind, choose |-> choose]

(* The three essays of the filler are one file.                            *)
LongctxFiles == <<File("essays", "plain", {}), File("squad", "plain", {"squad"})>>

IfevalFiles == <<File("prompts", "pinned", {"prompts"})>>

(* Rows and their possible answers, for every sub-family in turn; the      *)
(* calls that are irrelevant need no answers.                              *)
ToolsFiles == <<File("multiple", "plain", {}),
                File("multiple_answers", "plain", {"multiple"}),
                File("irrelevance", "plain", {"irrelevance"})>>

MathFiles == <<File("aime", "plain", {"aime"}),
               File("hmmt", "optional", {"hmmt"}),
               File("math500", "plain", {"math500"})>>

KnowledgeFiles == <<File("mmlu_p0", "plain", {}),
                    File("mmlu_p1", "plain", {}),
                    File("mmlu_val", "plain", {"mmlu_p0", "mmlu_p1"}),
                    File("simpleqa", "optional", {"simpleqa"})>>

CodeFiles == <<File("humaneval", "plain", {"humaneval"}),
               File("mbpp_p0", "plain", {}),
               File("mbpp_p1", "plain", {"mbpp_p0", "mbpp_p1"}),
               File("lcb", "gated", {"lcb"})>>

Recipe == [longctx |-> LongctxFiles, ifeval |-> IfevalFiles, tools |-> ToolsFiles,
           math |-> MathFiles, knowledge |-> KnowledgeFiles, code |-> CodeFiles]

Names == [f \in DOMAIN Recipe |->
             {Recipe[f][i].name : i \in 1..Len(Recipe[f])}]
KindOf(f, s) == (CHOOSE r \in {Recipe[f][i] : i \in 1..Len(Recipe[f])} :
                     r.name = s).kind

(* The pages of one crawl.                                                 *)
Pages == {{"mmlu_p0", "mmlu_p1"}, {"mbpp_p0", "mbpp_p1"}}

(* The families that look for duplicate ids before they write.             *)
ChecksIds == {"code"}

(* The families whose requests need the header of their item file.         *)
Headed == {"longctx", "knowledge"}

(* How many sub-families a family has, in the order they take their turns. *)
SubFamilies == [longctx |-> 3, ifeval |-> 3, tools |-> 5, math |-> 3,
                knowledge |-> 2, code |-> 3]

(* The sub-families that the items chosen from a file go to in turn.  The  *)
(* needles and variables laid in the essays count as the essays' items; of *)
(* the validation pages and the answers there are none.                    *)
SubsOf == [essays |-> <<1, 2>>, squad |-> <<3>>, prompts |-> <<1, 2, 3>>,
           multiple |-> <<3>>, multiple_answers |-> <<3>>, irrelevance |-> <<5>>,
           aime |-> <<1>>, hmmt |-> <<2>>, math500 |-> <<3>>,
           mmlu_p0 |-> <<1>>, mmlu_p1 |-> <<1>>, mmlu_val |-> <<1>>,
           simpleqa |-> <<2>>, humaneval |-> <<2>>, mbpp_p0 |-> <<3>>,
           mbpp_p1 |-> <<3>>, lcb |-> <<1>>]
SubOf(s, i) == SubsOf[s][((i - 1) % Len(SubsOf[s])) + 1]

=============================================================================
