------------------------------- MODULE Campaign -------------------------------
(***************************************************************************)
(* What runs on a rented box: chains of ksweep invocations in tmux         *)
(* sessions (box/chain*.sh), the kernel sweep itself (box/ksweep.sh), its  *)
(* teardown (box/hardkill.sh), the stop of the instance by its host, and   *)
(* the arming of the chains again, at any time (ops/rearm_all.sh).         *)
(*                                                                         *)
(* The chains share the ports, the GPUs and the results directory.  A      *)
(* server answers under the name "m" whatever it serves, so a client       *)
(* cannot tell whose server it talks to.  Every row of a list uses the     *)
(* same number of replicas; the throughput shapes in front of the judge    *)
(* shape are one shape; what a result says beside whose it is, is left out.*)
(***************************************************************************)
EXTENDS Integers, Sequences, FiniteSets

CONSTANTS
    Chain,        \* the chains of a box
    Arm,          \* tag and kernel combination: what a result is filed under
    Port,         \* the replicas' ports
    Program,      \* chain -> its ksweep invocations
    Waits,        \* chain -> the chain whose DONE line it waits for, or itself
    WaitExpires,  \* the predecessor may outlast the waiting loop
    MaxArms       \* bound: how often the chains are armed again

Invocation == [mode  : {"bench", "eval", "both"},
               first : BOOLEAN,    \* FIRST_ONLY=1
               resume: BOOLEAN,    \* EVAL_RESUME=1
               judged: BOOLEAN,    \* not SHAPES=fast or deep
               rows  : Seq(Seq(Arm) \ {<<>>}) \ {<<>>}]

ASSUME CampaignAssumption ==
    /\ Program \in [Chain -> Seq(Invocation) \ {<<>>}]
    /\ Waits \in [Chain -> Chain]
    /\ IsFiniteSet(Port) /\ Port # {}
    /\ WaitExpires \in BOOLEAN
    /\ MaxArms \in Nat

VARIABLES
    pc,         \* where each chain stands
    pos,        \* its invocation, row and combination
    client,     \* its bench clients that still run
    port,       \* the server of each port
    power,      \* the instance runs
    arms,       \* how often the chains were armed again
    done,       \* chains with a DONE line in the log
    evalJson,   \* results/eval/<arm>.json
    judgeFiles, \* ports with a judge file of the arm
    ranEarlier, \* history: the shapes before judge were run for the arm
    alone,      \* history: nobody else at work since the chain's last teardown
    measuredOn  \* history: arms whose servers answered for a result of the arm
                \* that a chain alone on the box has filed

chainVars == <<pc, pos, client>>
fileVars  == <<done, evalJson, judgeFiles, ranEarlier, measuredOn>>
hostVars  == <<power, arms>>
vars      == <<chainVars, alone, port, hostVars, fileVars>>

Server == [arm : Arm, state : {"starting", "up"}]
Down   == [state |-> "down"]

Start == [inv |-> 1, row |-> 1, combo |-> 1]

Init ==
    /\ pc = [c \in Chain |-> "wait"]
    /\ pos = [c \in Chain |-> Start]
    /\ client = [c \in Chain |-> {}]
    /\ alone = [c \in Chain |-> FALSE]
    /\ port = [p \in Port |-> Down]
    /\ power = TRUE
    /\ arms = 0
    /\ done = {}
    /\ evalJson = [a \in Arm |-> "none"]
    /\ judgeFiles = [a \in Arm |-> {}]
    /\ ranEarlier = [a \in Arm |-> FALSE]
    /\ measuredOn = [a \in Arm |-> {}]

-----------------------------------------------------------------------------
(* Where a chain stands. *)
InvAt(c) == Program[c][pos[c].inv]
RowAt(c) == InvAt(c).rows[pos[c].row]
ArmAt(c) == RowAt(c)[pos[c].combo]

Resting == {"off", "wait", "done"}
Places  == Resting \union {"row", "try", "launch", "health", "eval", "shapes",
                           "judge", "rowend", "listend", "sign"}

(* The session srv ends with the last server. *)
Session  == \E p \in Port : port[p] # Down
AllUp    == \A p \in Port : port[p].state = "up"
Serving  == {port[p].arm : p \in {q \in Port : port[q].state = "up"}}

(* Mutant of KillAll: only the processes that hold GPU memory by now.      *)
KillAllListed ==
    port' = [p \in Port |-> IF port[p].state = "up" THEN Down ELSE port[p]]

(* kill_all: every server of the box, whoever started it. *)
KillAll == port' = [p \in Port |-> Down]

Goto(c, l) == pc' = [pc EXCEPT ![c] = l]

NextCombo(c) ==
    IF pos[c].combo < Len(RowAt(c))
    THEN Goto(c, "try") /\ pos' = [pos EXCEPT ![c].combo = @ + 1]
    ELSE Goto(c, "rowend") /\ UNCHANGED pos

NextRow(c) ==
    IF pos[c].row < Len(InvAt(c).rows)
    THEN /\ Goto(c, "row")
         /\ pos' = [pos EXCEPT ![c].row = @ + 1, ![c].combo = 1]
    ELSE Goto(c, "listend") /\ UNCHANGED pos

(* A served arm is through: FIRST_ONLY leaves the row. *)
ArmDone(c) == IF InvAt(c).first
              THEN Goto(c, "rowend") /\ UNCHANGED pos
              ELSE NextCombo(c)

-----------------------------------------------------------------------------
(* The chain's own lines. *)

(* Any DONE line in the log will do, of this round or an older one. *)
MarkerSeen(c) == Waits[c] \in done

(* Behind the wait every chain at work has company. *)
WaitOver(c) ==
    /\ pc[c] = "wait"
    /\ \/ Waits[c] = c
       \/ MarkerSeen(c)
       \/ WaitExpires
    /\ Goto(c, "row")
    /\ alone' = [d \in Chain |-> FALSE]
    /\ UNCHANGED <<pos, client, port, hostVars, fileVars>>

ChainDone(c) ==
    /\ pc[c] = "sign"
    /\ done' = done \union {c}
    /\ Goto(c, "done")
    /\ UNCHANGED <<pos, client, alone, port, hostVars,
                   evalJson, judgeFiles, ranEarlier, measuredOn>>

-----------------------------------------------------------------------------
(* sweep, one row of the list. *)

(* Weights absent or incomplete, or the disk full. *)
RowRefused(c) ==
    /\ pc[c] = "row"
    /\ NextRow(c)
    /\ UNCHANGED <<client, alone, port, hostVars, fileVars>>

RowBegins(c) ==
    /\ pc[c] = "row"
    /\ Goto(c, "try")
    /\ UNCHANGED <<pos, client, alone, port, hostVars, fileVars>>

(* The skip guards: a result under the arm's name, a judge file per port. *)
Finished(c) ==
    IF InvAt(c).mode = "eval"
    THEN ~InvAt(c).resume /\ evalJson[ArmAt(c)] # "none"
    ELSE judgeFiles[ArmAt(c)] = Port

SkipArm(c) ==
    /\ pc[c] = "try" /\ Finished(c)
    /\ IF InvAt(c).mode = "eval" THEN ArmDone(c) ELSE NextCombo(c)
    /\ UNCHANGED <<client, alone, port, hostVars, fileVars>>

RowEnd(c) ==
    /\ pc[c] = "rowend"
    /\ KillAll
    /\ NextRow(c)
    /\ UNCHANGED <<client, alone, hostVars, fileVars>>

(* KSWEEP DONE. *)
ListEnd(c) ==
    /\ pc[c] = "listend"
    /\ KillAll
    /\ IF pos[c].inv < Len(Program[c])
       THEN /\ Goto(c, "row")
            /\ pos' = [pos EXCEPT ![c] = [Start EXCEPT !.inv = pos[c].inv + 1]]
       ELSE Goto(c, "sign") /\ UNCHANGED pos
    /\ UNCHANGED <<client, alone, hostVars, fileVars>>

-----------------------------------------------------------------------------
(* serve. *)

AloneNow(c) == alone' = [alone EXCEPT ![c] =
                             \A d \in Chain \ {c} : pc[d] \in Resting]

(* Mutant of Teardown: the ports are taken as they are.                    *)
TeardownNothing(c) ==
    /\ pc[c] = "try" /\ ~Finished(c)
    /\ AloneNow(c)
    /\ Goto(c, "launch")
    /\ UNCHANGED <<pos, client, port, hostVars, fileVars>>

Teardown(c) ==
    /\ pc[c] = "try" /\ ~Finished(c)
    /\ KillAll /\ AloneNow(c)
    /\ Goto(c, "launch")
    /\ UNCHANGED <<pos, client, hostVars, fileVars>>

(* tmux makes no second session of that name; nobody looks at its status. *)
Launch(c) ==
    /\ pc[c] = "launch"
    /\ port' = IF Session THEN port
               ELSE [p \in Port |-> [arm |-> ArmAt(c), state |-> "starting"]]
    /\ Goto(c, "health")
    /\ UNCHANGED <<pos, client, alone, hostVars, fileVars>>

ServerUp(p) ==
    /\ port[p].state = "starting"
    /\ port' = [port EXCEPT ![p].state = "up"]
    /\ UNCHANGED <<chainVars, alone, hostVars, fileVars>>

ServerDies(p) ==
    /\ port[p] # Down
    /\ port' = [port EXCEPT ![p] = Down]
    /\ UNCHANGED <<chainVars, alone, hostVars, fileVars>>

(* Every port is healthy, whoever answers there. *)
Healthy(c) ==
    /\ pc[c] = "health" /\ AllUp
    /\ IF InvAt(c).mode = "bench"
       THEN Goto(c, "shapes") /\ client' = [client EXCEPT ![c] = Port]
       ELSE Goto(c, "eval") /\ UNCHANGED client
    /\ UNCHANGED <<pos, alone, port, hostVars, fileVars>>

(* Mutant of ServeFails: only a launcher that is gone is noticed.          *)
ServeFailsIfGone(c) ==
    /\ pc[c] = "health" /\ ~Session
    /\ NextCombo(c)
    /\ UNCHANGED <<client, alone, port, hostVars, fileVars>>

(* The first server's log names an error, the launcher is gone, or 2100 s  *)
(* are over.                                                               *)
ServeFails(c) ==
    /\ pc[c] = "health" /\ ~AllUp
    /\ NextCombo(c)
    /\ UNCHANGED <<client, alone, port, hostVars, fileVars>>

-----------------------------------------------------------------------------
(* shapes: the quality suite and the throughput points. *)
Credit(c) == measuredOn' = IF alone[c]
                            THEN [measuredOn EXCEPT ![ArmAt(c)] = @ \union Serving]
                            ELSE measuredOn

(* The runner's partial results stand under the final name. *)
EvalCheckpoint(c) ==
    /\ pc[c] = "eval"
    /\ evalJson' = [evalJson EXCEPT ![ArmAt(c)] = "partial"]
    /\ Credit(c)
    /\ UNCHANGED <<chainVars, alone, port, hostVars, done, judgeFiles, ranEarlier>>

AfterEval(c) ==
    IF InvAt(c).mode = "both"
    THEN /\ Goto(c, "shapes") /\ client' = [client EXCEPT ![c] = Port]
         /\ UNCHANGED pos
    ELSE ArmDone(c) /\ UNCHANGED client

EvalPublishes(c) ==
    /\ pc[c] = "eval"
    /\ evalJson' = [evalJson EXCEPT ![ArmAt(c)] = "final"]
    /\ Credit(c)
    /\ AfterEval(c)
    /\ UNCHANGED <<alone, port, hostVars, done, judgeFiles, ranEarlier>>

(* The runner's exit status is lost in the pipe. *)
EvalExits(c) ==
    /\ pc[c] = "eval"
    /\ AfterEval(c)
    /\ UNCHANGED <<alone, port, hostVars, fileVars>>

(* pt: one client per port, each leaves its file or does not. *)
ClientEnds(c, p) ==
    /\ pc[c] \in {"shapes", "judge"} /\ p \in client[c]
    /\ client' = [client EXCEPT ![c] = @ \ {p}]
    /\ \/ UNCHANGED <<judgeFiles, measuredOn>>
       \/ /\ judgeFiles' = IF pc[c] = "judge"
                           THEN [judgeFiles EXCEPT ![ArmAt(c)] = @ \union {p}]
                           ELSE judgeFiles
          /\ measuredOn' = IF alone[c] /\ port[p].state = "up"
                           THEN [measuredOn EXCEPT ![ArmAt(c)] =
                                    @ \union {port[p].arm}]
                           ELSE measuredOn
    /\ UNCHANGED <<pc, pos, alone, port, hostVars, done, evalJson, ranEarlier>>

(* Mutant of ShapesDone: judge is started while a client still runs.       *)
ShapesDoneEarly(c) ==
    /\ pc[c] = "shapes"
    /\ ranEarlier' = [ranEarlier EXCEPT ![ArmAt(c)] = client[c] = {}]
    /\ IF InvAt(c).judged
       THEN /\ Goto(c, "judge") /\ client' = [client EXCEPT ![c] = Port]
            /\ UNCHANGED pos
       ELSE ArmDone(c) /\ UNCHANGED client
    /\ UNCHANGED <<alone, port, hostVars, done, evalJson, judgeFiles, measuredOn>>

ShapesDone(c) ==
    /\ pc[c] = "shapes" /\ client[c] = {}
    /\ ranEarlier' = [ranEarlier EXCEPT ![ArmAt(c)] = TRUE]
    /\ IF InvAt(c).judged
       THEN /\ Goto(c, "judge") /\ client' = [client EXCEPT ![c] = Port]
            /\ UNCHANGED pos
       ELSE ArmDone(c) /\ UNCHANGED client
    /\ UNCHANGED <<alone, port, hostVars, done, evalJson, judgeFiles, measuredOn>>

JudgeDone(c) ==
    /\ pc[c] = "judge" /\ client[c] = {}
    /\ ArmDone(c)
    /\ UNCHANGED <<client, alone, port, hostVars, fileVars>>

-----------------------------------------------------------------------------
(* The host stops the instance: sessions and processes go, files stay.  A  *)
(* stop nobody arms the chains after is the end of them, and left out.     *)
Stop ==
    /\ power /\ arms < MaxArms
    /\ power' = FALSE
    /\ pc' = [c \in Chain |-> "off"]
    /\ client' = [c \in Chain |-> {}]
    /\ KillAll
    /\ UNCHANGED <<pos, alone, arms, fileVars>>

(* rearm_all.sh arm, after its start or while the instance runs.  tmux     *)
(* makes no second session of a name: a chain that waits or is at work     *)
(* goes on, without its servers; one that is off or done starts at the top.*)
Rearm ==
    /\ arms < MaxArms
    /\ power' = TRUE
    /\ arms' = arms + 1
    /\ KillAll
    /\ pc' = [c \in Chain |-> IF pc[c] \in {"off", "done"} THEN "wait" ELSE pc[c]]
    /\ pos' = [c \in Chain |-> IF pc[c] \in {"off", "done"} THEN Start ELSE pos[c]]
    /\ UNCHANGED <<client, alone, fileVars>>

-----------------------------------------------------------------------------
(* The steps a chain takes by itself, and its wait for a server. *)
Script(c) ==
    \/ WaitOver(c) \/ ChainDone(c)
    \/ RowBegins(c) \/ SkipArm(c) \/ RowEnd(c) \/ ListEnd(c)
    \/ Teardown(c) \/ Launch(c)
    \/ ShapesDone(c) \/ JudgeDone(c)

ServeEnds(c) == Healthy(c) \/ ServeFails(c)

EvalEnds(c) == EvalPublishes(c) \/ EvalExits(c)

(* The shell goes on, the wait for a server is bounded, the quality suite  *)
(* and the bench clients come to an end.                                   *)
Advance(c) ==
    \/ Script(c) \/ ServeEnds(c) \/ EvalEnds(c)
    \/ \E p \in Port : ClientEnds(c, p)

Step(c) == Advance(c) \/ RowRefused(c) \/ EvalCheckpoint(c)

Next == \/ \E c \in Chain : Step(c)
        \/ \E p \in Port : ServerUp(p) \/ ServerDies(p)
        \/ Stop \/ Rearm

(* Every chain that is at work advances; a server owes nobody anything. *)
Fairness == \A c \in Chain : WF_chainVars(Advance(c))

Spec     == Init /\ [][Next]_vars
LiveSpec == Spec /\ Fairness

-----------------------------------------------------------------------------
(* Types, and that a chain stands at a combination its list has. *)
Position(c) ==
    /\ pos[c].inv \in 1..Len(Program[c])
    /\ pos[c].row \in 1..Len(InvAt(c).rows)
    /\ pos[c].combo \in 1..Len(RowAt(c))

TypeOK ==
    /\ pc \in [Chain -> Places]
    /\ pos \in [Chain -> [inv : Nat, row : Nat, combo : Nat]]
    /\ \A c \in Chain : Position(c)
    /\ client \in [Chain -> SUBSET Port]
    /\ alone \in [Chain -> BOOLEAN]
    /\ port \in [Port -> Server \union {Down}]
    /\ power \in BOOLEAN
    /\ arms \in 0..MaxArms
    /\ done \subseteq Chain
    /\ evalJson \in [Arm -> {"none", "partial", "final"}]
    /\ judgeFiles \in [Arm -> SUBSET Port]
    /\ ranEarlier \in [Arm -> BOOLEAN]
    /\ measuredOn \in [Arm -> SUBSET Arm]

(* What a chain files that has had the box for itself since its last       *)
(* teardown was measured on servers of the arm it is filed under, whatever *)
(* other chains, kill_all and stops left behind before.                    *)
MeasuredOnOwn == \A a \in Arm : measuredOn[a] \subseteq {a}

(* When no chain is at work no server holds the GPUs, also when chains     *)
(* were at work together and every one of them took the servers of all.    *)
RestingIsClean == (\A c \in Chain : pc[c] \in Resting) => ~Session

(* The judge files vouch for all shapes of an arm, so every other shape    *)
(* has been run before the first of them appears.                          *)
JudgeIsLast == \A a \in Arm : judgeFiles[a] # {} => ranEarlier[a]

(* What these rest on.  A chain that is alone and at work finds all others *)
(* resting,                                                                *)
AloneOnBox ==
    \A c, d \in Chain : alone[c] /\ pc[c] \notin Resting /\ pc[d] \notin Resting
                           => c = d

(* so the ports are empty when it launches, and what it measures           *)
(* afterwards are the servers it launched;                                 *)
Measuring == {"health", "eval", "shapes", "judge"}

OwnServers ==
    \A c \in Chain : alone[c] =>
        /\ pc[c] = "launch" => ~Session
        /\ pc[c] \in Measuring =>
                \A p \in Port : port[p] # Down => port[p].arm = ArmAt(c)

(* servers have a chain whose last kill_all is still to come,              *)
SessionHasChain == Session => \E c \in Chain : pc[c] \notin Resting \union {"sign"}

(* and a chain stands at the judge shape only behind the other shapes.     *)
JudgeBehindShapes ==
    \A c \in Chain : pc[c] = "judge" => ranEarlier[ArmAt(c)]

(* rearm_all.sh, lines 2-4: a chain that is started again resumes where    *)
(* the stop cut it, so an evaluation that was cut is not passed over.      *)
CutEvalsResume ==
    [][\A c \in Chain : SkipArm(c) /\ InvAt(c).mode = "eval"
                           => evalJson[ArmAt(c)] # "partial"]_vars

(* A chain that was armed comes to its end, unless the instance stops.     *)
ChainsEnd == \A c \in Chain : pc[c] = "wait" ~> pc[c] \in {"done", "off"}

=============================================================================
