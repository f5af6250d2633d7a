-------------------------------- MODULE Sweep -------------------------------
(***************************************************************************)
(* bench/sweep.sh on the servers of Cell, and what bench/summarise.py      *)
(* makes of the files it leaves.                                           *)
(*                                                                         *)
(* A sweep asks every port for its health, warms every server up, and      *)
(* takes its points in turn.  A point splits its concurrency and its       *)
(* prompts over the replicas, starts one bench client per replica, waits   *)
(* for all and writes one meta file.  The servers of Cell go on living and *)
(* dying under it.  The launches and stops of the box are behind it: they  *)
(* read nothing that a sweep writes.  It fans out per port (not VIA_PROXY) *)
(* and knows one shape.                                                    *)
(***************************************************************************)
EXTENDS Cell

CONSTANTS
    Points,     \* the concurrencies of the sweep, in their order
    TooLong,    \* those whose estimate exceeds MAX_RUN_MINUTES
    Mult, Min1, \* *_NP_MULT and *_NP_MIN of the shape
    Cap,        \* NUM_PROMPTS_CAP, 0 for none
    MaxSweeps,  \* bound: sweeps ever started
    MaxFleet    \* bound of the replicas SplitIsWhole looks at

ASSUME SweepAssumption ==
    /\ Points \in Seq(Nat \ {0}) /\ Mult \in Nat \ {0} /\ Min1 \in Nat \ {0}
    /\ Cap \in Nat /\ MaxSweeps \in Nat /\ MaxFleet \in Nat

VARIABLES
    spc,       \* where the sweep stands, "off" when none runs
    scell,     \* the cell it was called for
    stop,      \* its STOP_ON_ERROR
    point,     \* index of its present point
    attempted, \* RUNS_ATTEMPTED
    client,    \* the clients of the present warm-up or point
    sweeps,    \* sweeps started, part of every run id
    orphans,   \* clients whose sweep was interrupted
    fate,      \* how the last sweep ended
    benches,   \* bench files: run id and replica
    metas,     \* meta files
    skips      \* run ids with a .skipped.json

sweepVars == <<spc, scell, stop, point, attempted, client, sweeps, orphans,
               fate, benches, metas, skips>>
vars      == <<cellVars, sweepVars>>

MaxRep == Cardinality(UNION {Rep(c) : c \in Cell})
RunId  == (1..MaxSweeps) \X (1..Len(Points))
Id     == <<sweeps, point>>

TypeOK ==
    /\ CellTypeOK
    /\ spc \in {"off", "warmup", "next", "point"} /\ scell \in Cell
    /\ stop \in {"unset", "0", "1"}
    /\ point \in 1..(Len(Points) + 1) /\ attempted \in 0..Len(Points)
    /\ client \in [1..MaxRep -> {"none", "running", "ok", "failed"}]
    /\ sweeps \in 0..MaxSweeps /\ fate \in {"none", "finished", "died"}
    /\ orphans \subseteq RunId \X (1..MaxRep)
    /\ benches \subseteq RunId \X (1..MaxRep)
    /\ metas \subseteq [id : RunId, rc : {0, 1}, prompts : Nat, replicas : 1..MaxRep]
    /\ skips \subseteq RunId

Init ==
    /\ CellInit
    /\ spc = "off" /\ scell = cell /\ stop = "unset"
    /\ point = 1 /\ attempted = 0 /\ client = [i \in 1..MaxRep |-> "none"]
    /\ sweeps = 0 /\ orphans = {} /\ fate = "none"
    /\ benches = {} /\ metas = {} /\ skips = {}

-----------------------------------------------------------------------------
(* The arithmetic of run_one. *)

Active(C, r)   == IF C < r THEN C ELSE r

(* Mutant of Share: the rest of the division is dropped. *)
ShareNoRest(C, r, i) == C \div Active(C, r)

Share(C, r, i) == C \div Active(C, r) + (IF i <= C % Active(C, r) THEN 1 ELSE 0)

(* shape_num_prompts *)
Prompts(C) == LET n == IF Mult * C >= Min1 THEN Mult * C ELSE Min1
              IN  IF Cap > 0 /\ n > Cap THEN Cap ELSE n

PromptShare(C, r) == (Prompts(C) + Active(C, r) - 1) \div Active(C, r)

-----------------------------------------------------------------------------
C0      == Points[point]
Fleet   == 1..Active(C0, Replicas[scell])
Started(S) == [i \in 1..MaxRep |-> IF i \in S THEN "running" ELSE "none"]
Ended   == \A i \in 1..MaxRep : client[i] # "running"

Call(c, s) ==
    /\ spc = "off" /\ pc = "idle" /\ sweeps < MaxSweeps
    /\ \A i \in Rep(c) : Listens(i) # {}
    /\ spc' = "warmup" /\ scell' = c /\ stop' = s
    /\ point' = 1 /\ attempted' = 0 /\ sweeps' = sweeps + 1
    /\ client' = Started(Rep(c)) /\ fate' = "none"
    /\ UNCHANGED <<cellVars, orphans, benches, metas, skips>>

(* A client ends well when a server of the right name answers on its port, *)
(* and then leaves its result; it may fail for reasons of its own.         *)
Serves(i) == \E p \in Listens(i) : Alias[p.cell] = Alias[scell]

ClientEnds(i) ==
    /\ client[i] = "running"
    /\ \/ /\ Serves(i)
          /\ client' = [client EXCEPT ![i] = "ok"]
          /\ benches' = IF spc = "point" THEN benches \cup {<<Id, i>>} ELSE benches
       \/ /\ client' = [client EXCEPT ![i] = "failed"]
          /\ UNCHANGED benches
    /\ UNCHANGED <<cellVars, spc, scell, stop, point, attempted, sweeps,
                   orphans, fate, metas, skips>>

SweepEnds(f) == spc' = "off" /\ fate' = f

WarmedUp ==
    /\ spc = "warmup" /\ Ended
    /\ \E warmupFailOk \in BOOLEAN :
          IF (\E i \in Rep(scell) : client[i] = "failed") /\ ~warmupFailOk
          THEN SweepEnds("died") ELSE spc' = "next" /\ UNCHANGED fate
    /\ client' = Started({})
    /\ UNCHANGED <<cellVars, scell, stop, point, attempted, sweeps, orphans,
                   benches, metas, skips>>

(* A point over the budget leaves a note and does not count as attempted.  *)
SkipPoint ==
    /\ spc = "next" /\ point <= Len(Points) /\ C0 \in TooLong
    /\ skips' = skips \cup {Id} /\ point' = point + 1
    /\ UNCHANGED <<cellVars, spc, scell, stop, attempted, client, sweeps,
                   orphans, fate, benches, metas>>

StartPoint ==
    /\ spc = "next" /\ point <= Len(Points) /\ C0 \notin TooLong
    /\ spc' = "point" /\ attempted' = attempted + 1 /\ client' = Started(Fleet)
    /\ UNCHANGED <<cellVars, scell, stop, point, sweeps, orphans, fate,
                   benches, metas, skips>>

(* `wait "$p" || rc=$?` over all clients: one failure is enough. *)
(* Mutant of ExitCode: that of the last client. *)
ExitCodeOfLast == IF client[Active(C0, Replicas[scell])] = "failed" THEN 1 ELSE 0

ExitCode == IF \E i \in Fleet : client[i] = "failed" THEN 1 ELSE 0

Meta == [id |-> Id, rc |-> ExitCode, replicas |-> Active(C0, Replicas[scell]),
         prompts |-> Active(C0, Replicas[scell]) * PromptShare(C0, Replicas[scell])]

StopsSweep(rc) == /\ rc # 0
                  /\ \/ stop = "1"
                     \/ stop = "unset" /\ attempted = 1

(* All clients are waited for; the meta file may fail to be written, which *)
(* is logged and no more; then the policy for failures.                    *)
EndPoint ==
    /\ spc = "point" /\ Ended
    /\ metas' \in {metas, metas \cup {Meta}}
    /\ IF StopsSweep(ExitCode)
       THEN SweepEnds("died") /\ UNCHANGED point
       ELSE spc' = "next" /\ point' = point + 1 /\ UNCHANGED fate
    /\ client' = Started({})
    /\ UNCHANGED <<cellVars, scell, stop, attempted, sweeps, orphans, benches, skips>>

Finished ==
    /\ spc = "next" /\ point > Len(Points)
    /\ SweepEnds("finished")
    /\ UNCHANGED <<cellVars, scell, stop, point, attempted, client, sweeps,
                   orphans, benches, metas, skips>>

(* pkill -P reaches the children of the sweep: the clients of a warm-up,   *)
(* but of a point the subshells of run_bench, whose clients live on.       *)
InterruptSweep ==
    /\ spc # "off"
    /\ orphans' = orphans \cup (IF spc = "point"
                   THEN {<<Id, i>> : i \in {j \in Fleet : client[j] = "running"}}
                   ELSE {})
    /\ SweepEnds("died") /\ client' = Started({})
    /\ UNCHANGED <<cellVars, scell, stop, point, attempted, sweeps, benches,
                   metas, skips>>

OrphanEnds(x) ==
    /\ x \in orphans
    /\ orphans' = orphans \ {x}
    /\ benches' \in {benches, benches \cup {x}}
    /\ UNCHANGED <<cellVars, spc, scell, stop, point, attempted, client,
                   sweeps, fate, metas, skips>>

SweepStep == \/ \E i \in 1..MaxRep : ClientEnds(i)
             \/ WarmedUp \/ SkipPoint \/ StartPoint \/ EndPoint \/ Finished

Next == \/ sweeps = 0 /\ CellNext /\ UNCHANGED sweepVars
        \/ sweeps > 0 /\ (\E p \in procs : ServerStep(p)) /\ UNCHANGED <<scriptVars, sweepVars>>
        \/ \E c \in Cell, s \in {"unset", "0", "1"} : Call(c, s)
        \/ SweepStep
        \/ InterruptSweep
        \/ \E x \in orphans : OrphanEnds(x)

Spec == Init /\ [][Next]_vars

(* Fairness: the scripts run on, their clocks advance, and a client comes  *)
(* to an end (it has time-outs of its own).  The servers may hang forever. *)
LiveSpec == /\ Spec
            /\ WF_vars((ScriptStep /\ UNCHANGED sweepVars) \/ SweepStep)
            /\ WF_vars(Deadline /\ UNCHANGED sweepVars)

-----------------------------------------------------------------------------
(* discover and aggregate of summarise.py: a row for every run id with a   *)
(* bench file, its numbers summed over the files, its mark from the meta.  *)
Files(id)  == {b[2] : b \in {x \in benches : x[1] = id}}
MetaOf(id) == {m \in metas : m.id = id}
Rows       == {id \in RunId : Files(id) # {}}
Marked(id) == \E m \in MetaOf(id) : m.rc # 0

(* What the replicas have in flight together, one element per request. *)
Dealt(C, r) == UNION {{i} \X (1..Share(C, r, i)) : i \in 1..Active(C, r)}

(* The shares of the replicas add up to the concurrency of the point, none *)
(* is empty, and the prompts are rounded up by less than one per replica.  *)
SplitIsWhole ==
    spc = "point" =>
        \A C \in {Points[k] : k \in point..Len(Points)}, r \in 1..MaxFleet :
            LET a == Active(C, r) IN
            /\ Cardinality(Dealt(C, r)) = C
            /\ \A i \in 1..a : Share(C, r, i) >= 1
            /\ a * PromptShare(C, r) \in Prompts(C)..(Prompts(C) + a - 1)

(* A row with a meta file and without the mark "(client rc=...)" sums over *)
(* every replica the point was split over, whichever of its clients or     *)
(* servers failed and in which order they ended.                           *)
UnmarkedIsWhole ==
    \A id \in Rows : MetaOf(id) # {} /\ ~Marked(id)
                     => \A m \in MetaOf(id) : Files(id) = 1..m.replicas

(* Whatever the servers do, a script that nobody interrupts comes to its   *)
(* end: launch, stop and sweep hold no box for ever.                       *)
ScriptsEnd == (pc # "idle" \/ spc # "off") ~> (pc = "idle" /\ spc = "off")

=============================================================================
