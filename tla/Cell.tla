-------------------------------- MODULE Cell --------------------------------
(***************************************************************************)
(* The servers of a cell and the two scripts that start and stop them,     *)
(* bench/launch.sh and bench/stop.sh.                                      *)
(*                                                                         *)
(* A replica is three processes: _run_server.sh in a tmux window (the      *)
(* runner), the API server it starts, and the workers the API server       *)
(* starts later, which hold the GPUs and may outlive it.  The scripts are  *)
(* run one after the other, may be interrupted anywhere, and send signals  *)
(* to what they find while the processes go on starting, answering and     *)
(* dying.  The cells are launched with USE_PROXY=0.                        *)
(*                                                                         *)
(* The runner starts its server in its first commands: both appear in one  *)
(* step.  A server that was sent TERM starts no worker any more.           *)
(***************************************************************************)
EXTENDS Integers, Sequences, FiniteSets

CONSTANTS
    Cell,          \* the cells of the box, cells/*.env
    Gpu,           \* its GPUs
    GpusOf,        \* GPU_IDS of a cell
    Replicas,      \* REPLICAS of a cell
    Alias,         \* SERVED_MODEL_NAME of a cell
    LoadtestOnly,  \* the cells with LOADTEST_ONLY=1
    MaxLaunches,   \* bound: launches ever started
    MaxCrashes     \* bound: processes that end without being told to

ASSUME LayoutAssumption ==
    /\ IsFiniteSet(Cell) /\ Cell # {}
    /\ GpusOf \in [Cell -> Seq(Gpu)] /\ Replicas \in [Cell -> Nat \ {0}]
    /\ \A c \in Cell : Replicas[c] = 1 \/ Replicas[c] = Len(GpusOf[c])
    /\ LoadtestOnly \subseteq Cell /\ MaxLaunches \in Nat \ {0} /\ MaxCrashes \in Nat

Rep(c)     == 1..Replicas[c]
CellGpus(c) == {GpusOf[c][i] : i \in 1..Len(GpusOf[c])}

(* One server has all GPUs of its cell, of several each has one. *)
GpuList(c, i) == IF Replicas[c] = 1 THEN CellGpus(c) ELSE {GpusOf[c][i]}

(* Every cell counts its ports from 8000, replica i listens on the i-th.   *)
(* The shipped cells put replicas of one port on a common GPU.             *)
ASSUME PortAssumption ==
    \A c, d \in Cell : \A i \in Rep(c) \cap Rep(d) :
        GpuList(c, i) \cap GpuList(d, i) # {}

Kind == {"runner", "api", "worker"}
Proc == [cell : Cell, rep : UNION {Rep(c) : c \in Cell}, kind : Kind,
         run : 1..MaxLaunches]
P(c, i, k, r) == [cell |-> c, rep |-> i, kind |-> k, run |-> r]
Kin(p, k)     == [p EXCEPT !.kind = k]

VARIABLES
    procs,    \* the processes that are alive
    termed,   \* those of them that were sent TERM
    ready,    \* the API servers that answer /health on their port
    crashes,  \* how many have ended without being told to
    exits,    \* the .exit files: cell, replica, and the launch they are of
    launches, \* launches started, numbers the processes
    pc,       \* where the running script stands
    cell,     \* the cell it was called for
    caller,   \* who waits for the stop: "stop", "launch" or "loadtest"
    found,    \* the pids of its last scan
    at,       \* the replica it is starting or asking
    answered, \* the servers that answered in the present pass
    status,   \* STATUS of the last launch
    late      \* the deadline of the present loop has passed

serverVars == <<procs, termed, ready, exits, crashes>>
scriptVars == <<launches, pc, cell, caller, found, at, answered, status, late>>
cellVars   == <<serverVars, scriptVars>>

CellTypeOK ==
    /\ procs \subseteq Proc /\ termed \subseteq procs
    /\ ready \subseteq {p \in procs : p.kind = "api"}
    /\ exits \subseteq {p \in Proc : p.kind = "runner"}
    /\ crashes \in 0..MaxCrashes /\ launches \in 0..MaxLaunches /\ cell \in Cell
    /\ pc \in {"idle", "scan", "term", "grace", "rescan", "term2", "rescan2",
               "kill", "drain", "spawn", "health", "exits", "verdict"}
    /\ caller \in {"stop", "launch", "loadtest"}
    /\ found \subseteq Proc /\ answered \subseteq Proc
    /\ at \in Rep(cell)
    /\ status \in {"fail", "ok", "died", "timeout"} /\ late \in BOOLEAN

CellInit ==
    /\ procs = {} /\ termed = {} /\ ready = {} /\ exits = {} /\ crashes = 0
    /\ launches = 0 /\ pc = "idle" /\ cell = CHOOSE c \in Cell : TRUE
    /\ caller = "stop" /\ found = {} /\ at = 1 /\ answered = {}
    /\ status = "fail" /\ late = FALSE

(* A script that has ended leaves nothing of its own behind. *)
ScriptGone ==
    /\ pc' = "idle" /\ cell' = CHOOSE c \in Cell : TRUE
    /\ caller' = "stop" /\ found' = {} /\ at' = 1 /\ answered' = {}
    /\ status' = "fail" /\ late' = FALSE

-----------------------------------------------------------------------------
(* The processes. *)

Gpus(p) == IF p.kind \in {"api", "worker"} THEN GpuList(p.cell, p.rep) ELSE {}

Gone(S) == /\ procs' = procs \ S
           /\ termed' = termed \ S
           /\ ready' = ready \ S

(* An API server loads: it starts its workers, which take the GPUs.        *)
StartWorker(p) ==
    /\ p \in procs \ (termed \cup ready) /\ p.kind = "api"
    /\ Kin(p, "worker") \notin procs
    /\ procs' = procs \cup {Kin(p, "worker")}
    /\ UNCHANGED <<termed, ready, exits, crashes>>

(* It answers when the model is loaded and the port was free. *)
Listens(i) == {p \in ready : p.rep = i}
BecomeReady(p) ==
    /\ p \in procs \ ready /\ p.kind = "api" /\ Kin(p, "worker") \in procs
    /\ Listens(p.rep) = {}
    /\ ready' = ready \cup {p}
    /\ UNCHANGED <<procs, termed, exits, crashes>>

(* A process ends because it was told to, or by itself: out of memory, a   *)
(* port in use, a bug.                                                     *)
Ends(p) == /\ p \in procs
           /\ IF p \in termed THEN UNCHANGED crashes
              ELSE crashes < MaxCrashes /\ crashes' = crashes + 1
           /\ UNCHANGED exits

(* The workers of a server end with it or are left behind; a worker that   *)
(* ends takes its server with it.                                          *)
ServerEnds(p) == /\ p.kind = "api" /\ Ends(p)
                 /\ \E S \in {{p}, {p, Kin(p, "worker")}} : Gone(S)

WorkerEnds(p) == p.kind = "worker" /\ Ends(p) /\ Gone({p, Kin(p, "api")})

(* The runner waits for the server, whatever signals it gets meanwhile,    *)
(* and leaves its exit file.                                               *)
RunnerEnds(p) ==
    /\ p \in procs /\ p.kind = "runner" /\ Kin(p, "api") \notin procs
    /\ Gone({p})
    /\ exits' = {e \in exits : <<e.cell, e.rep>> # <<p.cell, p.rep>>} \cup {p}
    /\ UNCHANGED crashes

ServerStep(p) == \/ StartWorker(p) \/ BecomeReady(p) \/ ServerEnds(p)
                 \/ WorkerEnds(p) \/ RunnerEnds(p)

-----------------------------------------------------------------------------
(* stop.sh, for one cell. *)

(* find_pids: by the marker BENCH_CELL, by the served model name, and by   *)
(* the GPUs of anything that looks like a server.                          *)
FindPids ==
    {p \in procs : \/ p.cell = cell
                   \/ p.kind = "api" /\ Alias[p.cell] = Alias[cell]
                   \/ Gpus(p) \cap CellGpus(cell) # {}}

(* A runner outlives TERM and HUP and hands them on to its server. *)
SendTerm(S) ==
    LET handed == {Kin(p, "api") : p \in {q \in S \cap procs : q.kind = "runner"}}
    IN  termed' = termed \cup {p \in procs \cap (S \cup handed) : p.kind # "runner"}

Goto(l) == pc' = l /\ UNCHANGED <<launches, cell, caller, at, answered, status>>

StopCalled(c, who) ==
    /\ pc' = "scan" /\ cell' = c /\ caller' = who
    /\ found' = {} /\ at' = 1 /\ answered' = {} /\ late' = FALSE

Stop(c) ==
    /\ pc = "idle"
    /\ StopCalled(c, "stop")
    /\ UNCHANGED <<serverVars, launches, status>>

(* Mutant of Scan: what outlives the second TERM is not killed. *)
ScanTwice ==
    /\ \/ pc = "scan" /\ Goto("term")
       \/ pc = "rescan" /\ Goto(IF FindPids = {} THEN "drain" ELSE "term2")
       \/ pc = "rescan2" /\ Goto("drain")
    /\ found' = FindPids
    /\ UNCHANGED <<serverVars, late>>

Scan ==
    /\ \/ pc = "scan" /\ Goto("term")
       \/ pc = "rescan" /\ Goto(IF FindPids = {} THEN "drain" ELSE "term2")
       \/ pc = "rescan2" /\ Goto(IF FindPids = {} THEN "drain" ELSE "kill")
    /\ found' = FindPids
    /\ UNCHANGED <<serverVars, late>>

(* TERM to the servers found, and the end of the session hangs up on every *)
(* window of the cell.                                                     *)
TermServers ==
    /\ pc = "term"
    /\ SendTerm({p \in found : p.kind = "api"}
                \cup {p \in procs : p.cell = cell /\ p.kind = "runner"})
    /\ Goto("grace")
    /\ late' = FALSE
    /\ UNCHANGED <<procs, ready, exits, crashes, found>>

(* The grace period ends early when all that was found is gone and the     *)
(* GPUs are free.                                                          *)
Drained == \A p \in procs : p.kind = "worker" => Gpus(p) \cap CellGpus(cell) = {}

GraceOver ==
    /\ pc = "grace"
    /\ late \/ (found \cap procs = {} /\ Drained)
    /\ Goto("rescan")
    /\ late' = FALSE
    /\ UNCHANGED <<serverVars, found>>

TermLeft ==
    /\ pc = "term2"
    /\ SendTerm(found)
    /\ Goto("rescan2")
    /\ UNCHANGED <<procs, ready, exits, crashes, found, late>>

KillLeft ==
    /\ pc = "kill"
    /\ Gone(found)
    /\ Goto("drain")
    /\ late' = FALSE
    /\ UNCHANGED <<exits, crashes, found>>

(* The wait for the GPUs is bounded; then the caller goes on.              *)
StopDone ==
    /\ pc = "drain"
    /\ Drained \/ late
    /\ \/ /\ caller = "launch"
          /\ pc' = "spawn" /\ found' = {} /\ late' = FALSE
          /\ exits' = {e \in exits : e.cell # cell}
          /\ UNCHANGED <<cell, caller, at, answered, status>>
       \/ caller # "launch" /\ ScriptGone /\ UNCHANGED exits
    /\ UNCHANGED <<procs, termed, ready, crashes, launches>>

-----------------------------------------------------------------------------
(* launch.sh *)

Launch(c) ==
    /\ pc = "idle" /\ launches < MaxLaunches
    /\ StopCalled(c, "launch")
    /\ launches' = launches + 1
    /\ status' = "fail"
    /\ UNCHANGED serverVars

(* One window after the other. *)
Spawn ==
    /\ pc = "spawn"
    /\ procs' = procs \cup {P(cell, at, k, launches) : k \in {"runner", "api"}}
    /\ exits' = {e \in exits : <<e.cell, e.rep>> # <<cell, at>>}
    /\ IF at < Replicas[cell] THEN at' = at + 1 /\ pc' = "spawn"
                              ELSE at' = 1 /\ pc' = "health"
    /\ late' = FALSE
    /\ UNCHANGED <<termed, ready, crashes, launches, cell, caller, found, answered, status>>

(* Mutant of AskPort: one port is enough. *)
AskPortOnce ==
    /\ pc = "health"
    /\ \/ /\ Listens(at) # {}
          /\ answered' = answered \cup Listens(at)
          /\ status' = "ok" /\ pc' = "verdict" /\ UNCHANGED at
       \/ /\ Listens(at) = {}
          /\ answered' = {} /\ at' = 1 /\ pc' = "exits" /\ UNCHANGED status
    /\ UNCHANGED <<serverVars, launches, cell, caller, found, late>>

(* A pass asks the ports in turn up to the first that does not answer,     *)
(* looks for exit files, and only then at the clock.                       *)
AskPort ==
    /\ pc = "health"
    /\ \/ /\ Listens(at) # {}
          /\ answered' = answered \cup Listens(at)
          /\ IF at = Replicas[cell]
             THEN status' = "ok" /\ pc' = "verdict" /\ UNCHANGED at
             ELSE at' = at + 1 /\ UNCHANGED <<pc, status>>
       \/ /\ Listens(at) = {}
          /\ answered' = {} /\ at' = 1 /\ pc' = "exits" /\ UNCHANGED status
    /\ UNCHANGED <<serverVars, launches, cell, caller, found, late>>

ExitFiles == {e \in exits : e.cell = cell}

(* Mutant of LookAtExits: the clock is not looked at. *)
LookAtExitsForever ==
    /\ pc = "exits"
    /\ \/ ExitFiles # {} /\ status' = "died" /\ pc' = "verdict"
       \/ ExitFiles = {} /\ pc' = "health" /\ UNCHANGED status
    /\ UNCHANGED <<serverVars, launches, cell, caller, found, at, answered, late>>

LookAtExits ==
    /\ pc = "exits"
    /\ \/ ExitFiles # {} /\ status' = "died" /\ pc' = "verdict"
       \/ ExitFiles = {} /\ late /\ status' = "timeout" /\ pc' = "verdict"
       \/ ExitFiles = {} /\ ~late /\ pc' = "health" /\ UNCHANGED status
    /\ UNCHANGED <<serverVars, launches, cell, caller, found, at, answered, late>>

(* A load test tears its cell down; any other launch leaves what it        *)
(* started, also when it failed.                                           *)
LaunchEnds ==
    /\ pc = "verdict"
    /\ IF cell \in LoadtestOnly THEN StopCalled(cell, "loadtest") /\ UNCHANGED status
                               ELSE ScriptGone
    /\ UNCHANGED <<serverVars, launches>>

(* The deadline of a loop passes. *)
Deadline ==
    /\ pc \in {"grace", "drain", "health", "exits"} /\ ~late
    /\ late' = TRUE
    /\ UNCHANGED <<serverVars, launches, pc, cell, caller, found, at, answered, status>>

(* The script is interrupted: what it started or signalled lives on. *)
Interrupt ==
    /\ pc # "idle" /\ ScriptGone
    /\ UNCHANGED <<serverVars, launches>>

ScriptStep == \/ Scan \/ TermServers \/ GraceOver \/ TermLeft \/ KillLeft \/ StopDone
              \/ Spawn \/ AskPort \/ LookAtExits \/ LaunchEnds \/ Deadline

CellNext == \/ \E p \in procs : ServerStep(p) /\ UNCHANGED scriptVars
            \/ \E c \in Cell : Stop(c) \/ Launch(c)
            \/ ScriptStep
            \/ Interrupt

-----------------------------------------------------------------------------
(* A stop that ran to its end leaves nothing of its cell and nothing on    *)
(* its GPUs, orphaned workers included, and a launch starts from there:    *)
(* stop.sh takes three scans for it (steps 1 and 2).                       *)
Clear(c) == \A p \in procs : p.cell # c /\ Gpus(p) \cap CellGpus(c) = {}

StopEmpties == pc = "drain" \/ (pc = "spawn" /\ at = 1) => Clear(cell)

(* What launch.sh decides is decided by its own servers, although it asks  *)
(* ports and looks for files: every port that answered was answered by a   *)
(* server of this launch, ok needs all of them in one pass, and the exit   *)
(* file that ends the wait was left by one.                                *)
VerdictIsOwn ==
    pc \in {"health", "exits", "verdict"} =>
        /\ \A p \in answered : p.cell = cell /\ p.run = launches
        /\ status = "ok" => {p.rep : p \in answered} = Rep(cell)
        /\ \A e \in ExitFiles : e.run = launches

=============================================================================
