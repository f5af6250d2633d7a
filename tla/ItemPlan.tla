------------------------------- MODULE ItemPlan -------------------------------
(***************************************************************************)
(* The order in which items are asked: evalsuite/families/_base.py         *)
(* interleaves the sub-families of a family and cuts at --limit, and       *)
(* run_eval.py interleaves the families.  An item is a member of a         *)
(* sequence; what it asks is not looked at.                                *)
(***************************************************************************)
EXTENDS Integers, Sequences, FiniteSets

(* Where the items of the groups are: the n-th one of group k.             *)
Places(groups) == UNION {{k} \X (1..Len(groups[k])) : k \in 1..Len(groups)}

(* The groups that have items left, by their number, stand in their order: *)
(* the p-th of them.                                                       *)
Rank(left, k) == Cardinality({j \in left : j <= k})
AtRank(left, p) == CHOOSE k \in left : Rank(left, k) = p

(* Mutant of Turn: the index stays, so that one group comes after another. *)
TurnStays(groups, st) ==
    LET k == AtRank(st.left, (st.idx % Cardinality(st.left)) + 1)
        n == st.had[k] + 1
    IN  [out  |-> Append(st.out, <<k, n>>),
         had  |-> [st.had EXCEPT ![k] = n],
         left |-> IF n = Len(groups[k]) THEN st.left \ {k} ELSE st.left,
         idx  |-> st.idx]

(* One turn of the loop: take the next item of the group the index points  *)
(* at; a group that this empties is dropped and the index stays.           *)
Turn(groups, st) ==
    LET k == AtRank(st.left, (st.idx % Cardinality(st.left)) + 1)
        n == st.had[k] + 1
    IN  [out  |-> Append(st.out, <<k, n>>),
         had  |-> [st.had EXCEPT ![k] = n],
         left |-> IF n = Len(groups[k]) THEN st.left \ {k} ELSE st.left,
         idx  |-> IF n = Len(groups[k]) THEN st.idx ELSE st.idx + 1]

(* The turns, as many as there are items, from the groups that are not     *)
(* empty.                                                                  *)
Turns(groups) ==
    LET st[n \in 0..Cardinality(Places(groups))] ==
            IF n = 0 THEN [out  |-> <<>>,
                           had  |-> [k \in 1..Len(groups) |-> 0],
                           left |-> {k \in 1..Len(groups) : groups[k] # <<>>},
                           idx  |-> 0]
            ELSE Turn(groups, st[n - 1])
    IN  st

Interleave(groups) ==
    LET out == Turns(groups)[Cardinality(Places(groups))].out
    IN  [i \in 1..Len(out) |-> groups[out[i][1]][out[i][2]]]

(* No --limit.                                                             *)
NoLimit == -1

(* What --limit leaves of a family.                                        *)
Cut(items, limit) ==
    IF limit = NoLimit THEN items ELSE SubSeq(items, 1, IF limit < Len(items)
                                                        THEN limit ELSE Len(items))

=============================================================================
