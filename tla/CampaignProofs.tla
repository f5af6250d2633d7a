---------------------------- MODULE CampaignProofs ----------------------------
(***************************************************************************)
(* What the chains of a box keep whatever their lists, their number and    *)
(* the stops of the instance: proofs about Campaign.                       *)
(***************************************************************************)
EXTENDS Campaign, TLAPS

-----------------------------------------------------------------------------
(* The place a well-placed chain stands at has a row, and the row an arm.  *)
LEMMA PlaceHasArm ==
    ASSUME NEW c \in Chain, Position(c)
    PROVE  /\ Program[c] \in Seq(Invocation) /\ InvAt(c) \in Invocation
           /\ RowAt(c) \in Seq(Arm) /\ Len(RowAt(c)) >= 1
           /\ ArmAt(c) \in Arm
<1>1. Program[c] \in Seq(Invocation)
  BY CampaignAssumption
<1>2. InvAt(c) \in Invocation
  BY <1>1 DEF Position, InvAt
<1>3. InvAt(c).rows \in Seq(Seq(Arm) \ {<<>>})
  BY <1>2 DEF Invocation
<1>4. RowAt(c) \in Seq(Arm) \ {<<>>}
  BY <1>3 DEF Position, RowAt
<1>5. Len(RowAt(c)) \in Nat /\ Len(RowAt(c)) >= 1
  BY <1>4
<1>6. ArmAt(c) \in Arm
  BY <1>4 DEF Position, ArmAt
<1> QED
  BY <1>1, <1>2, <1>4, <1>5, <1>6

(* Every chain begins at a place that exists. *)
LEMMA StartIsPlace ==
    ASSUME NEW c \in Chain, NEW i \in 1..Len(Program[c])
    PROVE  /\ Program[c][i].rows \in Seq(Seq(Arm) \ {<<>>})
           /\ 1 \in 1..Len(Program[c][i].rows)
           /\ 1 \in 1..Len(Program[c][i].rows[1])
<1>1. Program[c][i] \in Invocation
  BY CampaignAssumption
<1>2. Program[c][i].rows \in Seq(Seq(Arm) \ {<<>>}) \ {<<>>}
  BY <1>1 DEF Invocation
<1>3. Len(Program[c][i].rows) >= 1 /\ Len(Program[c][i].rows) \in Nat
  BY <1>2
<1>4. Program[c][i].rows[1] \in Seq(Arm) \ {<<>>}
  BY <1>2, <1>3
<1>5. Len(Program[c][i].rows[1]) >= 1 /\ Len(Program[c][i].rows[1]) \in Nat
  BY <1>4
<1> QED
  BY <1>2, <1>3, <1>5

(* The part of the types that a chain's own movement changes. *)
Placed == /\ pc \in [Chain -> Places]
          /\ pos \in [Chain -> [inv : Nat, row : Nat, combo : Nat]]
          /\ \A c \in Chain : Position(c)

LEMMA GotoPlaced ==
    ASSUME Placed, NEW c \in Chain, NEW l \in Places, Goto(c, l), UNCHANGED pos
    PROVE  Placed'
BY DEF Placed, Goto, Position, InvAt, RowAt

LEMMA MovePlaced ==
    ASSUME Placed, NEW c \in Chain, NextCombo(c) \/ NextRow(c) \/ ArmDone(c)
    PROVE  Placed' /\ \A d \in Chain \ {c} : pc'[d] = pc[d] /\ pos'[d] = pos[d]
<1>1. Position(c) /\ pos[c] \in [inv : Nat, row : Nat, combo : Nat]
  BY DEF Placed
<1>2. ASSUME NextCombo(c) PROVE Placed'
  <2>1. CASE pos[c].combo < Len(RowAt(c))
    <3>1. pos' = [pos EXCEPT ![c].combo = @ + 1] /\ Goto(c, "try")
      BY <1>2, <2>1 DEF NextCombo
    <3>2. pos' \in [Chain -> [inv : Nat, row : Nat, combo : Nat]]
      BY <3>1 DEF Placed
    <3>3. pos'[c].inv = pos[c].inv /\ pos'[c].row = pos[c].row
          /\ pos'[c].combo = pos[c].combo + 1
      BY <3>1 DEF Placed
    <3>4. RowAt(c)' = RowAt(c) /\ InvAt(c)' = InvAt(c)
      BY <3>3 DEF RowAt, InvAt
    <3>5. Len(RowAt(c)) \in Nat
      BY <1>1, PlaceHasArm
    <3>6. Position(c)'
      BY <1>1, <2>1, <3>3, <3>4, <3>5 DEF Position
    <3>7. \A d \in Chain \ {c} : Position(d)'
      BY <3>1 DEF Placed, Position, InvAt, RowAt
    <3>8. pc' \in [Chain -> Places]
      BY <3>1 DEF Placed, Goto, Places
    <3> QED
      BY <3>2, <3>6, <3>7, <3>8 DEF Placed
  <2>2. CASE ~(pos[c].combo < Len(RowAt(c)))
    BY <1>2, <2>2, GotoPlaced DEF NextCombo, Places
  <2> QED
    BY <2>1, <2>2
<1>3. ASSUME NextRow(c) PROVE Placed'
  <2>1. CASE pos[c].row < Len(InvAt(c).rows)
    <3>1. pos' = [pos EXCEPT ![c].row = @ + 1, ![c].combo = 1] /\ Goto(c, "row")
      BY <1>3, <2>1 DEF NextRow
    <3> DEFINE p == [inv |-> pos[c].inv, row |-> pos[c].row + 1, combo |-> 1]
    <3>a. p \in [inv : Nat, row : Nat, combo : Nat]
      BY <1>1
    <3>b. pos'[c] = p
      BY <1>1, <3>1 DEF Placed
    <3>c. \A d \in Chain \ {c} : pos'[d] = pos[d]
      BY <3>1 DEF Placed
    <3>d. pos' = [d \in Chain |-> pos'[d]]
      BY <3>1 DEF Placed
    <3>2. pos' \in [Chain -> [inv : Nat, row : Nat, combo : Nat]]
      BY <3>a, <3>b, <3>c, <3>d DEF Placed
    <3>3. pos'[c].inv = pos[c].inv /\ pos'[c].row = pos[c].row + 1
          /\ pos'[c].combo = 1
      BY <3>1 DEF Placed
    <3>4. InvAt(c)' = InvAt(c)
      BY <3>3 DEF InvAt
    <3>5. InvAt(c).rows \in Seq(Seq(Arm) \ {<<>>})
      BY <1>1, PlaceHasArm DEF Invocation
    <3>6. pos[c].row + 1 \in 1..Len(InvAt(c).rows)
      BY <1>1, <2>1, <3>5 DEF Position
    <3>7. InvAt(c).rows[pos[c].row + 1] \in Seq(Arm) \ {<<>>}
      BY <3>5, <3>6
    <3>8. 1 \in 1..Len(InvAt(c).rows[pos[c].row + 1])
      BY <3>7
    <3>9. Position(c)'
      BY <1>1, <3>3, <3>4, <3>6, <3>8 DEF Position, RowAt
    <3>10. \A d \in Chain \ {c} : Position(d)'
      BY <3>1 DEF Placed, Position, InvAt, RowAt
    <3>11. pc' \in [Chain -> Places]
      BY <3>1 DEF Placed, Goto, Places
    <3> QED
      BY <3>2, <3>9, <3>10, <3>11 DEF Placed
  <2>2. CASE ~(pos[c].row < Len(InvAt(c).rows))
    BY <1>3, <2>2, GotoPlaced DEF NextRow, Places
  <2> QED
    BY <2>1, <2>2
<1>4. ASSUME ArmDone(c) PROVE Placed'
  BY <1>2, <1>4, GotoPlaced DEF ArmDone, Places
<1>5. \A d \in Chain \ {c} : pc'[d] = pc[d] /\ pos'[d] = pos[d]
  BY DEF Placed, NextCombo, NextRow, ArmDone, Goto
<1> QED
  BY <1>2, <1>3, <1>4, <1>5

-----------------------------------------------------------------------------
(* Types, and the order of the shapes.  No chain disturbs another one's    *)
(* place, and what was run stays run.                                      *)
JInv == TypeOK /\ JudgeBehindShapes /\ JudgeIsLast

LEMMA TypeOfPlaced == TypeOK => Placed
BY DEF TypeOK, Placed

LEMMA InitJInv == Init => JInv
<1> SUFFICES ASSUME Init PROVE JInv
  OBVIOUS
<1> USE DEF Init
<1>1. \A c \in Chain : Position(c)
  <2> TAKE c \in Chain
  <2>1. Program[c] \in Seq(Invocation) \ {<<>>}
    BY CampaignAssumption
  <2>2. 1 \in 1..Len(Program[c])
    BY <2>1
  <2> QED
    BY <2>2, StartIsPlace DEF Position, InvAt, RowAt, Start
<1>2. pc \in [Chain -> Places] /\ pos \in [Chain -> [inv : Nat, row : Nat, combo : Nat]]
  BY DEF Places, Resting, Start
<1>3. port \in [Port -> Server \union {Down}] /\ arms \in 0..MaxArms
  BY CampaignAssumption DEF Server, Down
<1> QED
  BY <1>1, <1>2, <1>3 DEF JInv, TypeOK, JudgeBehindShapes, JudgeIsLast

(* A step of one chain that goes to a place other than judge and leaves    *)
(* the judge files and what they vouch for alone.                          *)
LEMMA QuietStep ==
    ASSUME JInv, NEW c \in Chain, Placed',
           \A d \in Chain \ {c} : pc'[d] = pc[d] /\ pos'[d] = pos[d],
           pc'[c] # "judge",
           client' \in [Chain -> SUBSET Port], port' \in [Port -> Server \union {Down}],
           alone' \in [Chain -> BOOLEAN], done' \subseteq Chain,
           evalJson' \in [Arm -> {"none", "partial", "final"}],
           measuredOn' \in [Arm -> SUBSET Arm],
           UNCHANGED <<hostVars, judgeFiles, ranEarlier>>
    PROVE  JInv'
<1>1. TypeOK'
  BY DEF JInv, TypeOK, Placed, hostVars
<1>2. \A d \in Chain \ {c} : ArmAt(d)' = ArmAt(d)
  BY DEF ArmAt, RowAt, InvAt
<1>3. JudgeBehindShapes' /\ JudgeIsLast'
  BY <1>2 DEF JInv, JudgeBehindShapes, JudgeIsLast
<1> QED
  BY <1>1, <1>3 DEF JInv

(* Where the moves of the list loop lead. *)
LEMMA MoveTarget ==
    ASSUME Placed, NEW c \in Chain, NextCombo(c) \/ NextRow(c) \/ ArmDone(c)
    PROVE  pc'[c] \in {"try", "row", "rowend", "listend"}
BY DEF Placed, NextCombo, NextRow, ArmDone, Goto

LEMMA GotoOthers ==
    ASSUME Placed, NEW c \in Chain, NEW l, Goto(c, l)
    PROVE  pc'[c] = l /\ \A d \in Chain \ {c} : pc'[d] = pc[d]
BY DEF Placed, Goto

LEMMA PortsTyped ==
    ASSUME JInv, NEW c \in Chain
    PROVE  /\ KillAll => port' \in [Port -> Server \union {Down}]
           /\ Launch(c) => port' \in [Port -> Server \union {Down}]
<1>1. ArmAt(c) \in Arm
  BY TypeOfPlaced, PlaceHasArm DEF JInv, Placed
<1>2. [arm |-> ArmAt(c), state |-> "starting"] \in Server
  BY <1>1 DEF Server
<1>3. KillAll => port' \in [Port -> Server \union {Down}]
  BY DEF KillAll
<1>4. Launch(c) => port' \in [Port -> Server \union {Down}]
  BY <1>2 DEF Launch, JInv, TypeOK
<1> QED
  BY <1>3, <1>4

LEMMA SignJInv == ASSUME JInv, NEW c \in Chain, ChainDone(c) PROVE JInv'
<1>1. Placed' /\ pc'[c] = "done" /\ \A d \in Chain \ {c} : pc'[d] = pc[d]
  BY TypeOfPlaced, GotoPlaced, GotoOthers DEF JInv, ChainDone, Places, Resting
<1>2. done' \subseteq Chain
  BY DEF JInv, TypeOK, ChainDone
<1> QED
  BY <1>1, <1>2, QuietStep DEF JInv, TypeOK, ChainDone, hostVars

LEMMA GotoJInv ==
    ASSUME JInv, NEW c \in Chain, WaitOver(c) \/ RowBegins(c) \/ Teardown(c) \/ Launch(c)
    PROVE  JInv'
<1>1. PICK l \in Places \ {"judge"} : Goto(c, l)
  BY DEF WaitOver, RowBegins, Teardown, Launch, Places
<1>2. UNCHANGED pos
  BY DEF WaitOver, RowBegins, Teardown, Launch
<1>3. Placed' /\ pc'[c] = l /\ \A d \in Chain \ {c} : pc'[d] = pc[d]
  BY <1>1, <1>2, TypeOfPlaced, GotoPlaced, GotoOthers DEF JInv
<1>4. port' \in [Port -> Server \union {Down}]
  BY PortsTyped DEF JInv, TypeOK, WaitOver, RowBegins, Teardown, Launch
<1>5. UNCHANGED <<client, hostVars, fileVars>>
  BY DEF WaitOver, RowBegins, Teardown, Launch
<1>6. alone' \in [Chain -> BOOLEAN]
  BY DEF JInv, TypeOK, WaitOver, RowBegins, Teardown, AloneNow, Launch
<1> QED
  BY <1>1, <1>2, <1>3, <1>4, <1>5, <1>6, QuietStep DEF JInv, TypeOK, fileVars

LEMMA MoveJInv ==
    ASSUME JInv, NEW c \in Chain,
           RowRefused(c) \/ SkipArm(c) \/ RowEnd(c) \/ ServeFails(c) \/ JudgeDone(c)
    PROVE  JInv'
<1>1. NextCombo(c) \/ NextRow(c) \/ ArmDone(c)
  BY DEF RowRefused, SkipArm, RowEnd, ServeFails, JudgeDone
<1>2. Placed' /\ \A d \in Chain \ {c} : pc'[d] = pc[d] /\ pos'[d] = pos[d]
  BY <1>1, TypeOfPlaced, MovePlaced DEF JInv
<1>3. pc'[c] # "judge"
  BY <1>1, TypeOfPlaced, MoveTarget DEF JInv
<1>4. port' \in [Port -> Server \union {Down}]
  BY PortsTyped DEF JInv, TypeOK, RowRefused, SkipArm, RowEnd, ServeFails, JudgeDone
<1>5. UNCHANGED <<client, alone, hostVars, fileVars>>
  BY DEF RowRefused, SkipArm, RowEnd, ServeFails, JudgeDone
<1> QED
  BY <1>2, <1>3, <1>4, <1>5, QuietStep DEF JInv, TypeOK, fileVars

LEMMA ListEndJInv == ASSUME JInv, NEW c \in Chain, ListEnd(c) PROVE JInv'
<1>1. Placed' /\ (\A d \in Chain \ {c} : pc'[d] = pc[d] /\ pos'[d] = pos[d])
              /\ pc'[c] # "judge"
  <2>1. CASE pos[c].inv < Len(Program[c])
    <3> DEFINE p == [Start EXCEPT !.inv = pos[c].inv + 1]
    <3>1. pos' = [pos EXCEPT ![c] = p] /\ Goto(c, "row")
      BY <2>1 DEF ListEnd
    <3>2. Position(c) /\ pos[c].inv \in Nat /\ Program[c] \in Seq(Invocation)
      BY CampaignAssumption DEF JInv, TypeOK
    <3>3. pos[c].inv + 1 \in 1..Len(Program[c])
      BY <2>1, <3>2 DEF Position
    <3>4. p = [inv |-> pos[c].inv + 1, row |-> 1, combo |-> 1]
      BY DEF Start
    <3>5. pos'[c] = p /\ pos' \in [Chain -> [inv : Nat, row : Nat, combo : Nat]]
      BY <3>1, <3>2, <3>4 DEF JInv, TypeOK
    <3>6. Position(c)'
      BY <3>3, <3>4, <3>5, StartIsPlace DEF Position, InvAt, RowAt
    <3>7. \A d \in Chain \ {c} : Position(d)' /\ pos'[d] = pos[d]
      BY <3>1 DEF JInv, TypeOK, Position, InvAt, RowAt
    <3>8. pc' \in [Chain -> Places] /\ pc'[c] = "row" /\ \A d \in Chain \ {c} : pc'[d] = pc[d]
      BY <3>1 DEF JInv, TypeOK, Goto, Places
    <3> QED
      BY <3>5, <3>6, <3>7, <3>8 DEF Placed
  <2>2. CASE ~(pos[c].inv < Len(Program[c]))
    <3>1. Goto(c, "sign") /\ UNCHANGED pos
      BY <2>2 DEF ListEnd
    <3> QED
      BY <3>1, TypeOfPlaced, GotoPlaced, GotoOthers DEF JInv, Places
  <2> QED
    BY <2>1, <2>2
<1>2. port' \in [Port -> Server \union {Down}]
  BY PortsTyped DEF ListEnd
<1> QED
  BY <1>1, <1>2, QuietStep DEF JInv, TypeOK, ListEnd, fileVars

LEMMA HealthyJInv == ASSUME JInv, NEW c \in Chain, Healthy(c) PROVE JInv'
<1>1. PICK l \in {"shapes", "eval"} : Goto(c, l)
  BY DEF Healthy
<1>2. Placed' /\ pc'[c] = l /\ \A d \in Chain \ {c} : pc'[d] = pc[d]
  BY <1>1, TypeOfPlaced, GotoPlaced, GotoOthers DEF JInv, Healthy, Places
<1>3. client' \in [Chain -> SUBSET Port]
  BY DEF JInv, TypeOK, Healthy
<1> QED
  BY <1>2, <1>3, QuietStep DEF JInv, TypeOK, Healthy, fileVars

(* Whoever answers on a port, the history names arms. *)
LEMMA CreditTyped ==
    ASSUME JInv, NEW c \in Chain, Credit(c)
    PROVE  measuredOn' \in [Arm -> SUBSET Arm]
<1>1. Serving \subseteq Arm
  BY DEF JInv, TypeOK, Serving, Server, Down
<1> QED
  BY <1>1 DEF JInv, TypeOK, Credit

LEMMA AfterEvalPlaced ==
    ASSUME JInv, NEW c \in Chain, AfterEval(c)
    PROVE  /\ Placed' /\ pc'[c] # "judge"
           /\ \A d \in Chain \ {c} : pc'[d] = pc[d] /\ pos'[d] = pos[d]
           /\ client' \in [Chain -> SUBSET Port]
<1>1. CASE InvAt(c).mode = "both"
  BY <1>1, TypeOfPlaced, GotoPlaced, GotoOthers DEF JInv, TypeOK, AfterEval, Places
<1>2. CASE InvAt(c).mode # "both"
  BY <1>2, TypeOfPlaced, MovePlaced, MoveTarget DEF JInv, TypeOK, AfterEval
<1> QED
  BY <1>1, <1>2

LEMMA EvalJInv ==
    ASSUME JInv, NEW c \in Chain,
           EvalCheckpoint(c) \/ EvalPublishes(c) \/ EvalExits(c)
    PROVE  JInv'
<1>1. CASE EvalCheckpoint(c)
  <2>1. evalJson' \in [Arm -> {"none", "partial", "final"}]
    BY <1>1 DEF JInv, TypeOK, EvalCheckpoint
  <2>2. measuredOn' \in [Arm -> SUBSET Arm]
    BY <1>1, CreditTyped DEF EvalCheckpoint
  <2>3. Placed' /\ pc'[c] # "judge" /\ UNCHANGED chainVars
    BY <1>1, TypeOfPlaced DEF JInv, EvalCheckpoint, chainVars, Placed, Position, InvAt, RowAt
  <2> QED
    BY <1>1, <2>1, <2>2, <2>3, QuietStep DEF JInv, TypeOK, EvalCheckpoint, chainVars
<1>2. CASE EvalPublishes(c)
  <2>1. evalJson' \in [Arm -> {"none", "partial", "final"}]
    BY <1>2 DEF JInv, TypeOK, EvalPublishes
  <2>2. measuredOn' \in [Arm -> SUBSET Arm]
    BY <1>2, CreditTyped DEF EvalPublishes
  <2>3. AfterEval(c)
    BY <1>2 DEF EvalPublishes
  <2> QED
    BY <1>2, <2>1, <2>2, <2>3, AfterEvalPlaced, QuietStep DEF JInv, TypeOK, EvalPublishes
<1>3. CASE EvalExits(c)
  BY <1>3, AfterEvalPlaced, QuietStep DEF JInv, TypeOK, EvalExits, fileVars
<1> QED
  BY <1>1, <1>2, <1>3

(* A client ends; what it leaves at the judge shape has the earlier shapes *)
(* behind it.                                                              *)
LEMMA ClientJInv ==
    ASSUME JInv, NEW c \in Chain, NEW p \in Port, ClientEnds(c, p)
    PROVE  JInv'
<1> USE DEF ClientEnds
<1>1. UNCHANGED <<pc, pos, alone, port, hostVars, done, evalJson, ranEarlier>>
  OBVIOUS
<1>2. ArmAt(c) \in Arm
  BY TypeOfPlaced, PlaceHasArm DEF JInv, Placed
<1>3. client' \in [Chain -> SUBSET Port]
  BY DEF JInv, TypeOK
<1>4. judgeFiles' \in [Arm -> SUBSET Port]
  BY DEF JInv, TypeOK
<1>5. port[p].state = "up" => port[p].arm \in Arm
  BY DEF JInv, TypeOK, Server, Down
<1>6. measuredOn' \in [Arm -> SUBSET Arm]
  BY <1>5 DEF JInv, TypeOK
<1>7. TypeOK'
  BY <1>1, <1>3, <1>4, <1>6 DEF JInv, TypeOK, hostVars, Position, InvAt, RowAt
<1>8. JudgeBehindShapes'
  BY <1>1 DEF JInv, JudgeBehindShapes, ArmAt, RowAt, InvAt
<1>9. JudgeIsLast'
  <2> SUFFICES ASSUME NEW a \in Arm, judgeFiles'[a] # {} PROVE ranEarlier[a]
    BY <1>1 DEF JudgeIsLast
  <2>1. CASE judgeFiles[a] # {}
    BY <2>1 DEF JInv, JudgeIsLast
  <2>2. CASE judgeFiles[a] = {}
    <3>1. pc[c] = "judge" /\ a = ArmAt(c)
      BY <2>2 DEF JInv, TypeOK
    <3> QED
      BY <3>1 DEF JInv, JudgeBehindShapes
  <2> QED
    BY <2>1, <2>2
<1> QED
  BY <1>7, <1>8, <1>9 DEF JInv

LEMMA ShapesJInv == ASSUME JInv, NEW c \in Chain, ShapesDone(c) PROVE JInv'
<1> USE DEF ShapesDone
<1>1. ArmAt(c) \in Arm
  BY TypeOfPlaced, PlaceHasArm DEF JInv, Placed
<1>2. ranEarlier' \in [Arm -> BOOLEAN] /\ ranEarlier'[ArmAt(c)]
      /\ \A a \in Arm : ranEarlier[a] => ranEarlier'[a]
  BY <1>1 DEF JInv, TypeOK
<1>3. Placed' /\ (\A d \in Chain \ {c} : pc'[d] = pc[d] /\ pos'[d] = pos[d])
              /\ client' \in [Chain -> SUBSET Port]
              /\ (pc'[c] = "judge" => UNCHANGED pos)
  <2>1. CASE InvAt(c).judged
    <3>1. Goto(c, "judge") /\ UNCHANGED pos /\ client' = [client EXCEPT ![c] = Port]
      BY <2>1
    <3>2. client' \in [Chain -> SUBSET Port]
      BY <3>1 DEF JInv, TypeOK
    <3>3. Placed' /\ \A d \in Chain \ {c} : pc'[d] = pc[d]
      BY <3>1, TypeOfPlaced, GotoPlaced, GotoOthers DEF JInv, Places
    <3> QED
      BY <3>1, <3>2, <3>3
  <2>2. CASE ~InvAt(c).judged
    BY <2>2, TypeOfPlaced, MovePlaced, MoveTarget DEF JInv, TypeOK
  <2> QED
    BY <2>1, <2>2
<1>4. TypeOK'
  BY <1>2, <1>3 DEF JInv, TypeOK, Placed, hostVars
<1>5. JudgeBehindShapes'
  <2> SUFFICES ASSUME NEW d \in Chain, pc'[d] = "judge" PROVE ranEarlier'[ArmAt(d)']
    BY DEF JudgeBehindShapes
  <2>1. ArmAt(d)' = ArmAt(d)
    BY <1>3 DEF ArmAt, RowAt, InvAt
  <2>2. CASE d = c
    BY <1>2, <2>1, <2>2
  <2>3. CASE d # c
    <3>1. pc[d] = "judge" /\ ArmAt(d) \in Arm
      BY <1>3, <2>3, TypeOfPlaced, PlaceHasArm DEF JInv, Placed
    <3> QED
      BY <1>2, <2>1, <3>1 DEF JInv, JudgeBehindShapes
  <2> QED
    BY <2>2, <2>3
<1>6. JudgeIsLast'
  BY <1>2 DEF JInv, JudgeIsLast
<1> QED
  BY <1>4, <1>5, <1>6 DEF JInv

(* Servers, and the host's stop and start. *)
LEMMA ServersJInv ==
    ASSUME JInv, NEW p \in Port, ServerUp(p) \/ ServerDies(p)
    PROVE  JInv'
<1>1. port' \in [Port -> Server \union {Down}]
  <2>1. CASE ServerUp(p)
    <3>1. port[p] \in Server
      BY <2>1 DEF JInv, TypeOK, ServerUp, Down
    <3>2. [port[p] EXCEPT !.state = "up"] \in Server
      BY <3>1 DEF Server
    <3>3. port' = [port EXCEPT ![p] = [port[p] EXCEPT !.state = "up"]]
      BY <2>1 DEF ServerUp
    <3> QED
      BY <3>2, <3>3 DEF JInv, TypeOK
  <2>2. CASE ServerDies(p)
    BY <2>2 DEF JInv, TypeOK, ServerDies
  <2> QED
    BY <2>1, <2>2
<1>2. UNCHANGED <<chainVars, hostVars, fileVars>>
  BY DEF ServerUp, ServerDies
<1> QED
  BY <1>1, <1>2 DEF JInv, TypeOK, ServerUp, ServerDies, JudgeBehindShapes, JudgeIsLast, chainVars,
       hostVars, fileVars, Position, ArmAt, RowAt, InvAt

LEMMA HostJInv == ASSUME JInv, Stop \/ Rearm PROVE JInv'
<1>1. port' \in [Port -> Server \union {Down}]
  BY DEF Stop, Rearm, KillAll
<1>2. CASE Stop
  <2>1. pc' \in [Chain -> Places] /\ \A c \in Chain : pc'[c] = "off"
    BY <1>2 DEF Stop, Places, Resting
  <2>2. power' \in BOOLEAN /\ client' \in [Chain -> SUBSET Port]
    BY <1>2 DEF Stop
  <2> QED
    BY <1>1, <1>2, <2>1, <2>2 DEF Stop, JInv, TypeOK, JudgeBehindShapes, JudgeIsLast,
         fileVars, Position, RowAt, InvAt
<1>3. CASE Rearm
  <2>1. pc' \in [Chain -> Places] /\ \A c \in Chain : pc'[c] = "judge" => pc[c] = "judge"
    BY <1>3 DEF Rearm, JInv, TypeOK, Places, Resting
  <2>2. pos' \in [Chain -> [inv : Nat, row : Nat, combo : Nat]]
    BY <1>3 DEF Rearm, Start, JInv, TypeOK
  <2>3. \A c \in Chain : Position(c)'
    <3> TAKE c \in Chain
    <3>1. CASE pc[c] \in {"off", "done"}
      <4>1. Program[c] \in Seq(Invocation) \ {<<>>}
        BY CampaignAssumption
      <4>2. 1 \in 1..Len(Program[c])
        BY <4>1
      <4>3. pos'[c] = [inv |-> 1, row |-> 1, combo |-> 1]
        BY <1>3, <3>1 DEF Rearm, Start
      <4>4. InvAt(c)' = Program[c][1] /\ RowAt(c)' = Program[c][1].rows[1]
        BY <4>3 DEF InvAt, RowAt
      <4> QED
        BY <4>2, <4>3, <4>4, StartIsPlace DEF Position
    <3>2. CASE pc[c] \notin {"off", "done"}
      <4>1. pos'[c] = pos[c]
        BY <1>3, <3>2 DEF Rearm
      <4> QED
        BY <4>1 DEF JInv, TypeOK, Position, RowAt, InvAt
    <3> QED
      BY <3>1, <3>2
  <2>4. arms' \in 0..MaxArms
    BY <1>3, CampaignAssumption DEF Rearm, JInv, TypeOK
  <2>5. TypeOK'
    BY <1>1, <1>3, <2>1, <2>2, <2>3, <2>4 DEF Rearm, JInv, TypeOK, fileVars
  <2>6. ASSUME NEW c \in Chain, pc'[c] = "judge"
        PROVE  pc[c] = "judge" /\ ArmAt(c)' = ArmAt(c)
    BY <1>3, <2>1, <2>6 DEF Rearm, ArmAt, RowAt, InvAt
  <2>7. JudgeBehindShapes' /\ JudgeIsLast'
    BY <1>3, <2>6 DEF Rearm, fileVars, JInv, JudgeBehindShapes, JudgeIsLast
  <2> QED
    BY <2>5, <2>7 DEF JInv
<1> QED
  BY <1>2, <1>3

LEMMA StutterJInv == ASSUME JInv, UNCHANGED vars PROVE JInv'
BY DEF JInv, TypeOK, JudgeBehindShapes, JudgeIsLast, vars, chainVars, hostVars,
       fileVars, Position, ArmAt, RowAt, InvAt

LEMMA StepJInv == JInv /\ [Next]_vars => JInv'
<1> SUFFICES ASSUME JInv, [Next]_vars PROVE JInv'
  OBVIOUS
<1>1. ASSUME NEW c \in Chain, Step(c) PROVE JInv'
  <2>1. CASE Script(c)
    BY <2>1, GotoJInv, SignJInv, MoveJInv, ListEndJInv, ShapesJInv DEF Script
  <2>2. CASE RowRefused(c) \/ ServeEnds(c)
    BY <2>2, MoveJInv, HealthyJInv DEF ServeEnds
  <2>3. CASE EvalCheckpoint(c) \/ EvalEnds(c)
    BY <2>3, EvalJInv DEF EvalEnds
  <2>4. CASE \E p \in Port : ClientEnds(c, p)
    BY <2>4, ClientJInv
  <2> QED
    BY <1>1, <2>1, <2>2, <2>3, <2>4 DEF Step, Advance
<1>2. CASE \E p \in Port : ServerUp(p) \/ ServerDies(p)
  BY <1>2, ServersJInv
<1>3. CASE Stop \/ Rearm
  BY <1>3, HostJInv
<1>4. CASE UNCHANGED vars
  BY <1>4, StutterJInv
<1> QED
  BY <1>1, <1>2, <1>3, <1>4 DEF Next

THEOREM CampaignInvariant == Spec => []JInv
<1> QED
  BY InitJInv, StepJInv, PTL DEF Spec

(* Whatever a box's chains do and whenever it is stopped, every chain      *)
(* stands at a combination of its own list, and the state keeps its types. *)
THEOREM CampaignTypeCorrect == Spec => []TypeOK
<1>1. JInv => TypeOK
  BY DEF JInv
<1> QED
  BY <1>1, CampaignInvariant, PTL

(* ksweep.sh skips an arm that has its judge files: they appear only when  *)
(* the other shapes of the arm have been run, for every number of chains   *)
(* at work and of stops.                                                   *)
THEOREM JudgeFilesVouch == Spec => []JudgeIsLast
<1>1. JInv => JudgeIsLast
  BY DEF JInv
<1> QED
  BY <1>1, CampaignInvariant, PTL

-----------------------------------------------------------------------------
(* How the steps of one chain concern the others.                          *)

(* A chain that takes a step is at work, or its wait is over; the others   *)
(* stay where they are.                                                    *)
LEMMA StepShape ==
    ASSUME Placed, NEW c \in Chain, Step(c)
    PROVE  /\ pc[c] \notin {"off", "done"} /\ pc'[c] \notin {"off", "wait"}
           /\ pc[c] = "wait" => WaitOver(c)
           /\ pc'[c] = "done" => ChainDone(c)
           /\ pc'[c] = "sign" => ListEnd(c)
           /\ \A d \in Chain \ {c} : pc'[d] = pc[d] /\ pos'[d] = pos[d]
<1>1. CASE Script(c)
  <2>1. CASE WaitOver(c) \/ RowBegins(c) \/ Teardown(c) \/ Launch(c) \/ ChainDone(c)
    BY <2>1, GotoOthers DEF WaitOver, RowBegins, Teardown, Launch, ChainDone
  <2>2. CASE SkipArm(c) \/ RowEnd(c) \/ JudgeDone(c)
    BY <2>2, MovePlaced, MoveTarget DEF SkipArm, RowEnd, JudgeDone
  <2>3. CASE ListEnd(c)
    <3>1. \A d \in Chain \ {c} : pos'[d] = pos[d]
      <4>1. pos' = [pos EXCEPT ![c] = [Start EXCEPT !.inv = pos[c].inv + 1]]
            \/ pos' = pos
        BY <2>3 DEF ListEnd
      <4> QED
        BY <4>1 DEF Placed
    <3>2. Goto(c, "row") \/ Goto(c, "sign")
      BY <2>3 DEF ListEnd
    <3>3. pc'[c] \in {"row", "sign"} /\ \A d \in Chain \ {c} : pc'[d] = pc[d]
      BY <3>2, GotoOthers
    <3> QED
      BY <2>3, <3>1, <3>3 DEF ListEnd
  <2>4. CASE ShapesDone(c)
    BY <2>4, GotoOthers, MovePlaced, MoveTarget DEF ShapesDone
  <2> QED
    BY <1>1, <2>1, <2>2, <2>3, <2>4 DEF Script
<1>2. CASE RowRefused(c) \/ ServeEnds(c)
  BY <1>2, GotoOthers, MovePlaced, MoveTarget DEF RowRefused, ServeEnds, ServeFails, Healthy
<1>3. CASE EvalCheckpoint(c) \/ \E p \in Port : ClientEnds(c, p)
  BY <1>3 DEF EvalCheckpoint, ClientEnds, chainVars
<1>4. CASE EvalEnds(c)
  BY <1>4, GotoOthers, MovePlaced, MoveTarget DEF EvalEnds, EvalPublishes, EvalExits, AfterEval
<1> QED
  BY <1>1, <1>2, <1>3, <1>4 DEF Step, Advance

(* What a step of a chain can do to the ports, and to who is alone. *)
LEMMA StepEffects ==
    ASSUME NEW c \in Chain, Step(c)
    PROVE  /\ KillAll \/ Launch(c) \/ UNCHANGED port
           /\ WaitOver(c) \/ Teardown(c) \/ UNCHANGED alone
           /\ UNCHANGED measuredOn \/ Credit(c) \/ \E p \in Port : ClientEnds(c, p)
<1> USE DEF fileVars
<1>1. CASE Script(c)
  BY <1>1 DEF Script, WaitOver, ChainDone, RowBegins, SkipArm, RowEnd, ListEnd,
       Teardown, Launch, ShapesDone, JudgeDone
<1>2. CASE RowRefused(c) \/ ServeEnds(c) \/ EvalEnds(c)
  BY <1>2 DEF RowRefused, ServeEnds, Healthy, ServeFails, EvalEnds, EvalPublishes, EvalExits
<1>3. CASE EvalCheckpoint(c) \/ \E p \in Port : ClientEnds(c, p)
  BY <1>3 DEF EvalCheckpoint, ClientEnds
<1> QED
  BY <1>1, <1>2, <1>3 DEF Step, Advance

-----------------------------------------------------------------------------
(* What is measured, and what is left behind. *)

SInv == AloneOnBox /\ OwnServers /\ MeasuredOnOwn /\ SessionHasChain

(* kill_all leaves no session. *)
LEMMA KillAllClean == KillAll => ~Session'
BY DEF KillAll, Session

LEMMA InitSInv == Init => SInv
BY DEF Init, SInv, AloneOnBox, OwnServers, MeasuredOnOwn, SessionHasChain, Session

(* While one chain takes a step, every other one that is still said to be  *)
(* alone rests.                                                            *)
LEMMA OthersRest ==
    ASSUME JInv, AloneOnBox, NEW c \in Chain, Step(c), NEW d \in Chain \ {c}, alone'[d]
    PROVE  pc'[d] \in Resting
<1>1. pc'[d] = pc[d] /\ pc[c] \notin {"off", "done"} /\ (pc[c] = "wait" => WaitOver(c))
  BY StepShape, TypeOfPlaced DEF JInv
<1>2. alone[d] /\ ~WaitOver(c)
  BY StepEffects DEF WaitOver, Teardown, AloneNow, JInv, TypeOK
<1> QED
  BY <1>1, <1>2 DEF AloneOnBox, Resting

LEMMA StepAlone ==
    ASSUME JInv, AloneOnBox, NEW c \in Chain, Step(c)
    PROVE  AloneOnBox'
<1> SUFFICES ASSUME NEW e \in Chain, NEW d \in Chain, alone'[e],
                    pc'[e] \notin Resting, pc'[d] \notin Resting
             PROVE  e = d
  BY DEF AloneOnBox
<1>1. e = c
  BY OthersRest
<1>2. \A f \in Chain \ {c} : pc'[f] = pc[f]
  BY StepShape, TypeOfPlaced DEF JInv
<1>3. CASE Teardown(c)
  <2>1. alone'[c] = \A f \in Chain \ {c} : pc[f] \in Resting
    BY <1>3 DEF Teardown, AloneNow, JInv, TypeOK
  <2> QED
    BY <1>1, <1>2, <2>1
<1>4. CASE ~Teardown(c)
  <2>1. alone[c] /\ ~WaitOver(c)
    BY <1>1, <1>4, StepEffects DEF WaitOver
  <2>2. pc[c] \notin Resting
    BY <2>1, StepShape, TypeOfPlaced DEF JInv, Resting
  <2> QED
    BY <1>1, <1>2, <2>1, <2>2 DEF AloneOnBox
<1> QED
  BY <1>3, <1>4

LEMMA StepSession ==
    ASSUME JInv, SessionHasChain, NEW c \in Chain, Step(c)
    PROVE  SessionHasChain'
<1> SUFFICES ASSUME Session' PROVE \E e \in Chain : pc'[e] \notin Resting \union {"sign"}
  BY DEF SessionHasChain
<1>1. ~KillAll
  BY KillAllClean
<1>2. CASE Launch(c)
  BY <1>2, GotoOthers, TypeOfPlaced DEF Launch, JInv, Resting
<1>3. CASE UNCHANGED port
  <2>1. PICK e \in Chain : pc[e] \notin Resting \union {"sign"}
    BY <1>3 DEF Session, SessionHasChain
  <2>2. CASE e # c
    BY <2>1, <2>2, StepShape, TypeOfPlaced DEF JInv
  <2>3. CASE e = c
    <3>1. pc'[c] # "sign"
      BY <1>1, StepShape, TypeOfPlaced DEF JInv, ListEnd
    <3>2. pc'[c] # "done"
      BY <2>1, <2>3, StepShape, TypeOfPlaced DEF JInv, ChainDone
    <3>3. pc'[c] \notin {"off", "wait"}
      BY StepShape, TypeOfPlaced DEF JInv
    <3> QED
      BY <3>1, <3>2, <3>3 DEF Resting
  <2> QED
    BY <2>2, <2>3
<1> QED
  BY <1>1, <1>2, <1>3, StepEffects

(* Servers concern a step only by the chain that takes it.                 *)
LEMMA OwnStep ==
    ASSUME JInv, AloneOnBox, NEW c \in Chain, Step(c),
           alone'[c] /\ pc'[c] = "launch" => ~Session',
           alone'[c] /\ pc'[c] \in Measuring =>
                \A p \in Port : port'[p] # Down => port'[p].arm = ArmAt(c)'
    PROVE  OwnServers'
<1> SUFFICES ASSUME NEW d \in Chain, d # c, alone'[d]
             PROVE  pc'[d] # "launch" /\ pc'[d] \notin Measuring
  BY DEF OwnServers
<1> QED
  BY OthersRest DEF Resting, Measuring

(* A step from one place of a measurement to another, or out of it.        *)
LEMMA MeasuringStep ==
    ASSUME JInv, SInv, NEW c \in Chain, Step(c), pc[c] \in Measuring,
           \/ pc'[c] \in Measuring /\ UNCHANGED pos
           \/ pc'[c] \in {"row", "try", "rowend", "listend"},
           UNCHANGED <<port, alone>>
    PROVE  OwnServers'
<1>1. UNCHANGED pos => ArmAt(c)' = ArmAt(c)
  BY DEF ArmAt, RowAt, InvAt
<1>2. pc'[c] # "launch"
  BY DEF Measuring
<1>3. alone'[c] /\ pc'[c] \in Measuring =>
                \A p \in Port : port'[p] # Down => port'[p].arm = ArmAt(c)'
  BY <1>1 DEF SInv, OwnServers, Measuring
<1> QED
  BY <1>2, <1>3, OwnStep DEF SInv

LEMMA StepOwn ==
    ASSUME JInv, SInv, NEW c \in Chain, Step(c)
    PROVE  OwnServers'
<1> USE DEF fileVars
<1>1. CASE WaitOver(c) \/ ChainDone(c) \/ RowBegins(c)
  <2>1. pc'[c] \in {"row", "done", "try"}
    BY <1>1, GotoOthers, TypeOfPlaced DEF WaitOver, ChainDone, RowBegins, JInv
  <2> QED
    BY <2>1, OwnStep DEF SInv, Measuring
<1>2. CASE RowRefused(c) \/ SkipArm(c) \/ ServeFails(c) \/ RowEnd(c) \/ JudgeDone(c)
  <2>1. pc'[c] \in {"try", "row", "rowend", "listend"}
    BY <1>2, MoveTarget, TypeOfPlaced DEF RowRefused, SkipArm, ServeFails, RowEnd,
         JudgeDone, JInv
  <2> QED
    BY <2>1, OwnStep DEF SInv, Measuring
<1>3. CASE ListEnd(c)
  <2>1. pc'[c] \in {"row", "sign"}
    BY <1>3, GotoOthers, TypeOfPlaced DEF ListEnd, JInv
  <2> QED
    BY <2>1, OwnStep DEF SInv, Measuring
<1>4. CASE Teardown(c)
  <2>1. pc'[c] = "launch" /\ ~Session'
    BY <1>4, GotoOthers, TypeOfPlaced, KillAllClean DEF Teardown, JInv
  <2> QED
    BY <2>1, OwnStep DEF SInv, Measuring
<1>5. CASE Launch(c)
  <2>1. pc[c] = "launch" /\ pc'[c] = "health" /\ UNCHANGED <<pos, alone>>
    BY <1>5, GotoOthers, TypeOfPlaced DEF Launch, JInv
  <2>2. ArmAt(c)' = ArmAt(c)
    BY <2>1 DEF ArmAt, RowAt, InvAt
  <2>3. ASSUME alone[c] PROVE \A p \in Port : port'[p].arm = ArmAt(c)'
    <3>1. ~Session
      BY <2>1, <2>3 DEF SInv, OwnServers
    <3>2. port' = [p \in Port |-> [arm |-> ArmAt(c), state |-> "starting"]]
      BY <1>5, <3>1 DEF Launch
    <3> QED
      BY <2>2, <3>2
  <2> QED
    BY <2>1, <2>3, OwnStep DEF SInv, Measuring
<1>6. CASE Healthy(c)
  <2>1. pc[c] = "health" /\ pc'[c] \in {"shapes", "eval"} /\ UNCHANGED <<pos, alone, port>>
    BY <1>6, GotoOthers, TypeOfPlaced DEF Healthy, JInv
  <2> QED
    BY <2>1, MeasuringStep DEF Measuring
<1>7. CASE ShapesDone(c)
  <2>1. pc[c] = "shapes" /\ UNCHANGED <<port, alone>>
    BY <1>7 DEF ShapesDone
  <2>2. (pc'[c] = "judge" /\ UNCHANGED pos) \/ pc'[c] \in {"row", "try", "rowend", "listend"}
    BY <1>7, GotoOthers, MoveTarget, TypeOfPlaced DEF ShapesDone, JInv
  <2> QED
    BY <2>1, <2>2, MeasuringStep DEF Measuring
<1>8. CASE EvalEnds(c)
  <2>1. pc[c] = "eval" /\ AfterEval(c) /\ UNCHANGED <<port, alone>>
    BY <1>8 DEF EvalEnds, EvalPublishes, EvalExits
  <2>2. (pc'[c] = "shapes" /\ UNCHANGED pos) \/ pc'[c] \in {"row", "try", "rowend", "listend"}
    BY <2>1, GotoOthers, MoveTarget, TypeOfPlaced DEF AfterEval, JInv
  <2> QED
    BY <2>1, <2>2, MeasuringStep DEF Measuring
<1>9. CASE EvalCheckpoint(c) \/ \E p \in Port : ClientEnds(c, p)
  <2>1. pc[c] \in Measuring /\ UNCHANGED <<pc, pos, port, alone>>
    BY <1>9 DEF EvalCheckpoint, ClientEnds, chainVars, Measuring
  <2> QED
    BY <2>1, MeasuringStep
<1> QED
  BY <1>1, <1>2, <1>3, <1>4, <1>5, <1>6, <1>7, <1>8, <1>9 DEF Step, Advance, Script, ServeEnds

(* What a chain that is alone credits is the arm itself, because its       *)
(* servers are.                                                            *)
LEMMA StepMeasured ==
    ASSUME JInv, SInv, NEW c \in Chain, Step(c)
    PROVE  MeasuredOnOwn'
<1>1. CASE UNCHANGED measuredOn
  BY <1>1 DEF SInv, MeasuredOnOwn
<1>2. CASE Credit(c) /\ pc[c] = "eval"
  <2>1. alone[c] => Serving \subseteq {ArmAt(c)}
    BY <1>2 DEF SInv, OwnServers, Measuring, Serving, Down
  <2> QED
    BY <1>2, <2>1 DEF SInv, JInv, TypeOK, MeasuredOnOwn, Credit
<1>3. ASSUME NEW p \in Port, ClientEnds(c, p) PROVE MeasuredOnOwn'
  <2>1. pc[c] \in Measuring
    BY <1>3 DEF ClientEnds, Measuring
  <2>2. alone[c] /\ port[p].state = "up" => port[p].arm = ArmAt(c)
    BY <2>1 DEF SInv, OwnServers, Down
  <2> QED
    BY <1>3, <2>2 DEF ClientEnds, SInv, JInv, TypeOK, MeasuredOnOwn
<1>4. Credit(c) /\ ~UNCHANGED measuredOn => pc[c] = "eval" \/ \E p \in Port : ClientEnds(c, p)
  <2>1. CASE Script(c) \/ RowRefused(c) \/ ServeEnds(c)
    BY <2>1 DEF fileVars, Script, WaitOver, ChainDone, RowBegins, SkipArm, RowEnd, ListEnd,
         Teardown, Launch, ShapesDone, JudgeDone, RowRefused, ServeEnds, Healthy, ServeFails
  <2>2. CASE EvalEnds(c) \/ EvalCheckpoint(c)
    BY <2>2 DEF EvalEnds, EvalPublishes, EvalExits, EvalCheckpoint
  <2> QED
    BY <2>1, <2>2 DEF Step, Advance
<1> QED
  BY <1>1, <1>2, <1>3, <1>4, StepEffects

LEMMA ServersSInv ==
    ASSUME JInv, SInv, NEW p \in Port, ServerUp(p) \/ ServerDies(p)
    PROVE  SInv'
<1>1. UNCHANGED <<chainVars, alone, fileVars>> /\ port[p] # Down
  BY DEF ServerUp, ServerDies, Down
<1>2. Session
  BY <1>1 DEF Session
<1>3. \A q \in Port : port'[q] # Down => port[q] # Down /\ port'[q].arm = port[q].arm
  <2>1. CASE ServerUp(p)
    <3>1. port[p] \in Server /\ port' = [port EXCEPT ![p] = [port[p] EXCEPT !.state = "up"]]
      BY <2>1 DEF ServerUp, JInv, TypeOK, Down
    <3>2. [port[p] EXCEPT !.state = "up"].arm = port[p].arm
      BY <3>1 DEF Server
    <3> QED
      BY <1>1, <3>1, <3>2 DEF JInv, TypeOK
  <2>2. CASE ServerDies(p)
    BY <2>2 DEF ServerDies, JInv, TypeOK
  <2> QED
    BY <2>1, <2>2
<1>4. \A d \in Chain : ArmAt(d)' = ArmAt(d)
  BY <1>1 DEF chainVars, ArmAt, RowAt, InvAt
<1>5. OwnServers'
  BY <1>1, <1>2, <1>3, <1>4 DEF chainVars, SInv, OwnServers
<1>6. SessionHasChain' /\ AloneOnBox'
  BY <1>1, <1>2 DEF chainVars, SInv, SessionHasChain, AloneOnBox
<1> QED
  BY <1>1, <1>5, <1>6 DEF fileVars, SInv, MeasuredOnOwn

(* A stop takes every chain off; an arming puts some in front of their     *)
(* wait, and leaves the others where they are, without servers.            *)
LEMMA HostSInv == ASSUME SInv, Stop \/ Rearm PROVE SInv'
<1>1. ~Session' /\ UNCHANGED <<alone, measuredOn>>
  BY KillAllClean DEF Stop, Rearm, fileVars
<1>2. \A p \in Port : port'[p] = Down
  BY DEF Stop, Rearm, KillAll
<1>3. \A c \in Chain : pc'[c] \in Resting \/ pc'[c] = pc[c]
  BY DEF Stop, Rearm, Resting
<1>4. OwnServers'
  BY <1>1, <1>2 DEF OwnServers
<1>5. AloneOnBox'
  BY <1>1, <1>3 DEF SInv, AloneOnBox
<1> QED
  BY <1>1, <1>4, <1>5 DEF SInv, MeasuredOnOwn, SessionHasChain

LEMMA StepSInv ==
    ASSUME JInv, SInv, [Next]_vars
    PROVE  SInv'
<1>1. ASSUME NEW c \in Chain, Step(c) PROVE SInv'
  BY <1>1, StepAlone, StepOwn, StepMeasured, StepSession DEF SInv
<1>2. CASE UNCHANGED vars
  BY <1>2 DEF SInv, AloneOnBox, OwnServers, MeasuredOnOwn, SessionHasChain, Session,
       ArmAt, RowAt, InvAt, vars, chainVars, fileVars
<1> QED
  BY <1>1, <1>2, ServersSInv, HostSInv DEF Next

THEOREM ChainsInvariant == Spec => []SInv
<1> QED
  BY InitSInv, StepSInv, CampaignInvariant, PTL DEF Spec

(* What a chain files while it has the box for itself was measured on      *)
(* servers of that arm: for all lists, all numbers of chains, with chains  *)
(* that were at work together before, and with servers that die, stops of  *)
(* the instance and armings at any time.                                   *)
THEOREM AloneMeansOwnServers == Spec => []MeasuredOnOwn
<1>1. SInv => MeasuredOnOwn
  BY DEF SInv
<1> QED
  BY <1>1, ChainsInvariant, PTL

(* However many chains fight for a box, the last one to rest leaves no     *)
(* server behind.                                                          *)
THEOREM LastChainCleansUp == Spec => []RestingIsClean
<1>1. SInv => RestingIsClean
  BY DEF SInv, SessionHasChain, RestingIsClean
<1> QED
  BY <1>1, ChainsInvariant, PTL

=============================================================================
