----------------------------- MODULE BenchProofs -----------------------------
(***************************************************************************)
(* Theorems about Cell and Sweep, for any cells, GPUs, replicas, points    *)
(* and bounds: a stop empties its cell, the verdict of a launch is its     *)
(* own, an unmarked row is whole, and the shares of a point make it up.    *)
(***************************************************************************)
EXTENDS Sweep, FiniteSetTheorems, TLAPS

(* Every process belongs to a replica of its cell and to a launch.         *)
Placed == \A p \in procs \cup exits :
    /\ p \in Proc /\ p.rep \in Rep(p.cell) /\ p.run <= launches

Sets == /\ termed \subseteq procs
        /\ ready \subseteq {p \in procs : p.kind = "api"}
        /\ launches \in 0..MaxLaunches /\ cell \in Cell /\ at \in Rep(cell)
        /\ caller = "launch" => launches # 0

(* From the first TERM on no server of the cell starts a worker any more,  *)
(* so that what a scan misses it can only miss by its end.                 *)
ApisOf(S) == {p \in S : p.kind = "api"}
Stopping ==
    /\ pc = "term" => ApisOf(FindPids) \subseteq found
    /\ pc \in {"grace", "rescan", "term2", "rescan2", "kill"} =>
          ApisOf(FindPids) \subseteq termed
    /\ pc = "kill" => FindPids \subseteq found
    /\ pc = "drain" => FindPids = {}
    /\ pc = "spawn" /\ at = 1 => FindPids = {}

(* While a launch goes on, what is alive is its own or has other GPUs.     *)
Launching == {"spawn", "health", "exits", "verdict"}
Own(p)    == p.cell = cell /\ p.run = launches
Alone ==
    pc \in Launching =>
        /\ \A p \in procs : Own(p) \/ (p.cell # cell /\ Gpus(p) \cap CellGpus(cell) = {})
        /\ \A e \in exits : e.cell = cell => e.run = launches

(* What a launch has asked, and that its status is set by nothing else.    *)
Asking ==
    /\ caller \in {"stop", "launch", "loadtest"}
    /\ pc \in Launching => caller = "launch"
    /\ status # "fail" => pc = "verdict" \/ (pc # "idle" /\ caller = "loadtest")
    /\ pc \notin {"spawn", "health", "verdict"} => at = 1
    /\ pc \notin {"health", "verdict"} => answered = {}
    /\ \A p \in answered : Own(p)
    /\ pc = "health" => {p.rep : p \in answered} = 1..(at - 1)
    /\ pc = "verdict" /\ status = "ok" => {p.rep : p \in answered} = Rep(cell)

CellInv == Placed /\ Sets /\ Stopping /\ Alone /\ Asking

-----------------------------------------------------------------------------
LEMMA RepInNat == ASSUME NEW c \in Cell PROVE
    Replicas[c] \in Nat \ {0} /\ 1 \in Rep(c) /\ Rep(c) \subseteq Nat
BY LayoutAssumption DEF Rep

LEMMA GpuListWithin == ASSUME NEW c \in Cell, NEW i \in Rep(c)
                       PROVE  GpuList(c, i) \subseteq CellGpus(c)
<1>1. GpusOf[c] \in Seq(Gpu) /\ (Replicas[c] = 1 \/ Replicas[c] = Len(GpusOf[c]))
  BY LayoutAssumption
<1>2. CASE Replicas[c] = 1
  BY <1>2 DEF GpuList
<1>3. CASE Replicas[c] # 1
  BY <1>1, <1>3 DEF GpuList, CellGpus, Rep
<1> QED
  BY <1>2, <1>3

LEMMA CellInitInv == CellInit => CellInv
<1> SUFFICES ASSUME CellInit PROVE CellInv
  OBVIOUS
<1>1. cell \in Cell
  BY LayoutAssumption DEF CellInit
<1>2. 1 \in Rep(cell) /\ 0 \in 0..MaxLaunches
  BY <1>1, RepInNat, LayoutAssumption
<1> QED
  BY <1>1, <1>2 DEF CellInit, CellInv, Placed, Sets, Stopping, Alone, Asking, FindPids,
                    ApisOf, Launching

-----------------------------------------------------------------------------
(* The processes.                                                          *)

LEMMA KinFacts ==
    ASSUME NEW p \in Proc, NEW k \in Kind
    PROVE  /\ Kin(p, k) \in Proc /\ Kin(p, k).kind = k /\ Kin(p, k).cell = p.cell
           /\ Kin(p, k).rep = p.rep /\ Kin(p, k).run = p.run
BY DEF Kin, Proc, Kind

(* Processes that end take nothing from what the scripts rely on.          *)
LEMMA EndInv ==
    ASSUME CellInv, NEW S, Gone(S), UNCHANGED scriptVars,
           \A e \in exits' : e \in exits \/ e \in procs
    PROVE  CellInv'
<1> USE DEF Gone, scriptVars
<1>1. Placed' /\ Sets' /\ Asking'
  BY DEF CellInv, Placed, Sets, Asking, Own
<1>2. FindPids' \subseteq FindPids /\ FindPids' \subseteq procs'
  BY DEF FindPids
<1>3. Stopping'
  BY <1>2 DEF CellInv, Stopping, ApisOf
<1>4. Alone'
  BY DEF CellInv, Alone, Own
<1> QED
  BY <1>1, <1>3, <1>4 DEF CellInv

LEMMA StartWorkerInv ==
    ASSUME CellInv, NEW p \in procs, StartWorker(p), UNCHANGED scriptVars
    PROVE  CellInv'
<1> DEFINE w == Kin(p, "worker")
<1> USE DEF scriptVars
<1>1. /\ w \in Proc /\ w.kind = "worker" /\ w.cell = p.cell /\ w.rep = p.rep
      /\ w.run = p.run /\ p \in Proc /\ p.kind = "api" /\ p \notin termed
  BY KinFacts DEF CellInv, Placed, StartWorker, Kind
<1>2. Gpus(w) = Gpus(p)
  BY <1>1 DEF Gpus
<1> HIDE DEF w
<1>3. procs' = procs \cup {w} /\ UNCHANGED <<termed, ready, exits>>
  BY DEF StartWorker, w
<1>4. Placed' /\ Sets' /\ Asking'
  BY <1>1, <1>3 DEF CellInv, Placed, Sets, Asking, Own
<1>5. /\ FindPids' \subseteq FindPids \cup {w}
      /\ w \in FindPids' => p \in ApisOf(FindPids)
  BY <1>1, <1>2, <1>3 DEF FindPids, ApisOf
<1>6. ApisOf(FindPids)' = ApisOf(FindPids)
  BY <1>1, <1>3, <1>5 DEF ApisOf, FindPids
<1>7. p \notin ApisOf(FindPids) => FindPids' \subseteq FindPids
  BY <1>5
<1>8. Stopping'
  <2>1. CASE p \in ApisOf(FindPids)
    <3>1. pc \notin {"grace", "rescan", "term2", "rescan2", "kill", "drain"}
          /\ ~(pc = "spawn" /\ at = 1)
      BY <1>1, <2>1 DEF CellInv, Stopping, ApisOf
    <3> QED
      BY <1>6, <3>1 DEF CellInv, Stopping
  <2>2. CASE p \notin ApisOf(FindPids)
    BY <1>3, <1>6, <1>7, <2>2 DEF CellInv, Stopping
  <2> QED
    BY <2>1, <2>2
<1>9. Alone'
  BY <1>1, <1>2, <1>3 DEF CellInv, Alone, Own
<1> QED
  BY <1>4, <1>8, <1>9 DEF CellInv

LEMMA ServerInv ==
    ASSUME CellInv, NEW p \in procs, ServerStep(p), UNCHANGED scriptVars
    PROVE  CellInv'
<1>1. CASE StartWorker(p)
  BY <1>1, StartWorkerInv
<1>2. CASE BecomeReady(p)
  BY <1>2 DEF BecomeReady, scriptVars, CellInv, Placed, Sets, Stopping, Alone, Asking,
              FindPids, ApisOf, Own
<1>3. CASE ServerEnds(p)
  <2>1. PICK S : Gone(S) /\ UNCHANGED exits
    BY <1>3 DEF ServerEnds, Ends
  <2> QED
    BY <2>1, EndInv
<1>4. CASE WorkerEnds(p)
  BY <1>4, EndInv DEF WorkerEnds, Ends
<1>5. CASE RunnerEnds(p)
  BY <1>5, EndInv DEF RunnerEnds
<1> QED
  BY <1>1, <1>2, <1>3, <1>4, <1>5 DEF ServerStep

-----------------------------------------------------------------------------
(* stop.sh                                                                 *)

(* A script that ends, or stop.sh that is called, takes nothing along.     *)
LEMMA GoneInv == ASSUME CellInv, ScriptGone, UNCHANGED <<serverVars, launches>>
                 PROVE  CellInv'
<1>1. cell' \in Cell /\ 1 \in Rep(cell')
  BY RepInNat, LayoutAssumption DEF ScriptGone
<1> QED
  BY <1>1 DEF CellInv, Placed, Sets, Stopping, Alone, Asking, ScriptGone, serverVars,
              Launching

LEMMA CalledInv ==
    ASSUME CellInv, NEW c \in Cell, NEW who \in {"stop", "launch", "loadtest"},
           StopCalled(c, who), UNCHANGED serverVars,
           launches' \in 0..MaxLaunches /\ launches <= launches',
           who = "launch" => launches' # 0,
           status' # "fail" => who = "loadtest"
    PROVE  CellInv'
<1>1. 1 \in Rep(c)
  BY RepInNat
<1>2. Placed'
  BY DEF CellInv, Placed, Sets, Proc, serverVars, Rep
<1> QED
  BY <1>1, <1>2 DEF CellInv, Sets, Stopping, Alone, Asking, StopCalled, serverVars,
              Launching

LEMMA CallInv == ASSUME CellInv, NEW c \in Cell, Stop(c) \/ Launch(c) PROVE CellInv'
<1>1. status = "fail" /\ launches \in 0..MaxLaunches /\ MaxLaunches \in Nat
  BY LayoutAssumption DEF CellInv, Sets, Asking, Stop, Launch
<1>2. CASE Stop(c)
  BY <1>1, <1>2, CalledInv DEF Stop
<1>3. CASE Launch(c)
  BY <1>1, <1>3, CalledInv DEF Launch
<1> QED
  BY <1>2, <1>3

LEMMA ScanInv == ASSUME CellInv, Scan PROVE CellInv'
<1> USE DEF Scan, Goto
<1>1. FindPids' = FindPids /\ found' = FindPids
  BY DEF FindPids, serverVars
<1>2. Placed' /\ Sets' /\ Alone' /\ Asking'
  BY DEF CellInv, Placed, Sets, Alone, Asking, serverVars, Launching, Own
<1>3. Stopping'
  BY <1>1 DEF CellInv, Stopping, ApisOf, serverVars
<1> QED
  BY <1>2, <1>3 DEF CellInv

(* The signal reaches every API server that was found.                     *)
LEMMA SendTermFacts ==
    ASSUME NEW S, SendTerm(S)
    PROVE  /\ termed \subseteq termed' /\ termed' \subseteq termed \cup procs
           /\ ApisOf(S \cap procs) \subseteq termed'
BY DEF SendTerm, ApisOf

LEMMA TermServersInv == ASSUME CellInv, TermServers PROVE CellInv'
<1> USE DEF TermServers, Goto
<1>1. FindPids' = FindPids
  BY DEF FindPids
<1>2. ApisOf(FindPids) \subseteq termed' /\ termed' \subseteq procs
  BY SendTermFacts DEF CellInv, Stopping, Sets, ApisOf, FindPids
<1>3. Placed' /\ Sets' /\ Alone' /\ Asking'
  BY <1>2 DEF CellInv, Placed, Sets, Alone, Asking, Launching, Own
<1>4. Stopping'
  BY <1>1, <1>2 DEF Stopping, ApisOf
<1> QED
  BY <1>3, <1>4 DEF CellInv

LEMMA TermLeftInv == ASSUME CellInv, TermLeft PROVE CellInv'
<1> USE DEF TermLeft, Goto
<1>1. FindPids' = FindPids
  BY DEF FindPids
<1>2. ApisOf(FindPids) \subseteq termed' /\ termed' \subseteq procs
  BY SendTermFacts DEF CellInv, Stopping, Sets
<1>3. Placed' /\ Sets' /\ Alone' /\ Asking'
  BY <1>2 DEF CellInv, Placed, Sets, Alone, Asking, Launching, Own
<1>4. Stopping'
  BY <1>1, <1>2 DEF Stopping, ApisOf
<1> QED
  BY <1>3, <1>4 DEF CellInv

LEMMA KillLeftInv == ASSUME CellInv, KillLeft PROVE CellInv'
<1> USE DEF KillLeft, Goto, Gone
<1>1. FindPids' = {}
  BY DEF FindPids, CellInv, Stopping
<1>2. Placed' /\ Sets' /\ Alone' /\ Asking'
  BY DEF CellInv, Placed, Sets, Alone, Asking, Launching, Own
<1>3. Stopping'
  BY <1>1 DEF Stopping
<1> QED
  BY <1>2, <1>3 DEF CellInv

LEMMA GraceOverInv == ASSUME CellInv, GraceOver PROVE CellInv'
<1>1. FindPids' = FindPids
  BY DEF GraceOver, Goto, FindPids, serverVars
<1> QED
  BY <1>1 DEF GraceOver, Goto, serverVars, CellInv, Placed, Sets, Stopping, Alone,
              Asking, Launching, Own, ApisOf

(* The launch behind a stop finds a box without servers of its cell.       *)
LEMMA StopDoneInv == ASSUME CellInv, StopDone PROVE CellInv'
<1> USE DEF StopDone
<1>1. FindPids = {}
  BY DEF CellInv, Stopping
<1>2. CASE /\ caller = "launch"
           /\ pc' = "spawn" /\ found' = {} /\ late' = FALSE
           /\ exits' = {e \in exits : e.cell # cell}
           /\ UNCHANGED <<cell, caller, at, answered, status>>
  <2>1. Placed' /\ Sets' /\ Asking'
    BY <1>2 DEF CellInv, Placed, Sets, Asking, Launching, Own
  <2>2. Alone'
    BY <1>1, <1>2 DEF Alone, FindPids, Own
  <2>3. Stopping'
    BY <1>1, <1>2 DEF Stopping, FindPids
  <2> QED
    BY <2>1, <2>2, <2>3 DEF CellInv
<1>3. CASE ScriptGone /\ UNCHANGED exits
  <2>1. cell' \in Cell /\ 1 \in Rep(cell')
    BY <1>3, RepInNat, LayoutAssumption DEF ScriptGone
  <2> QED
    BY <1>3, <2>1 DEF CellInv, Placed, Sets, Stopping, Alone, Asking, ScriptGone, Launching
<1> QED
  BY <1>2, <1>3

-----------------------------------------------------------------------------
(* launch.sh                                                               *)

LEMMA SpawnInv == ASSUME CellInv, Spawn PROVE CellInv'
<1> DEFINE new == {P(cell, at, k, launches) : k \in {"runner", "api"}}
<1> USE DEF Spawn
<1>1. launches \in 1..MaxLaunches /\ MaxLaunches \in Nat
  BY LayoutAssumption DEF CellInv, Sets, Asking, Launching
<1>2. \A p \in new : p \in Proc /\ p.rep \in Rep(p.cell) /\ p.run = launches /\ p.cell = cell
  BY <1>1 DEF CellInv, Sets, P, Proc, Kind
<1>3. procs' = procs \cup new /\ exits' \subseteq exits
      /\ UNCHANGED <<termed, ready, launches, cell, caller, answered, status>>
  OBVIOUS
<1> HIDE DEF new
<1>4. /\ at' \in Rep(cell)
      /\ at' # 1 <=> pc' = "spawn"
      /\ pc' \in {"spawn", "health"}
  BY LayoutAssumption DEF CellInv, Sets, Rep
<1>5. Placed'
  <2>1. \A p \in new : p.run <= launches'
    BY <1>1, <1>2, <1>3
  <2> QED
    BY <1>2, <1>3, <2>1 DEF CellInv, Placed
<1>6. Sets'
  BY <1>3, <1>4 DEF CellInv, Sets
<1>7. Alone'
  BY <1>2, <1>3 DEF CellInv, Alone, Own, Launching
<1>8. Stopping'
  BY <1>4 DEF Stopping
<1>9. Asking'
  BY <1>3, <1>4 DEF CellInv, Asking, Own, Launching, Sets
<1> QED
  BY <1>5, <1>6, <1>7, <1>8, <1>9 DEF CellInv

(* A port of the cell is answered by a server of the cell: one of another  *)
(* cell on that port would hold one of its GPUs.                           *)
LEMMA ListenersAreOwn ==
    ASSUME CellInv, pc \in Launching
    PROVE  \A p \in Listens(at) : Own(p) /\ p.rep = at
<1> SUFFICES ASSUME NEW p \in Listens(at), p.cell # cell,
                    Gpus(p) \cap CellGpus(cell) = {} PROVE FALSE
  BY DEF CellInv, Alone, Sets, Listens
<1>1. /\ p \in procs /\ p.kind = "api" /\ p.rep = at /\ p \in Proc
      /\ at \in Rep(p.cell) /\ at \in Rep(cell) /\ cell \in Cell
  BY DEF CellInv, Placed, Sets, Listens
<1>2. p.cell \in Cell
  BY <1>1 DEF Proc
<1>3. GpuList(p.cell, at) \cap GpuList(cell, at) # {}
  BY <1>1, <1>2, PortAssumption
<1>4. GpuList(cell, at) \subseteq CellGpus(cell)
  BY <1>1, GpuListWithin
<1> QED
  BY <1>1, <1>3, <1>4 DEF Gpus

LEMMA AskPortInv == ASSUME CellInv, AskPort PROVE CellInv'
<1> USE DEF AskPort
<1>1. UNCHANGED <<procs, termed, ready, exits, launches, cell, caller>>
  BY DEF serverVars
<1>2. \A p \in Listens(at) : Own(p) /\ p.rep = at
  BY ListenersAreOwn DEF Launching
<1>3. /\ cell \in Cell /\ Replicas[cell] \in Nat \ {0} /\ at \in 1..Replicas[cell]
  BY RepInNat DEF CellInv, Sets, Rep
<1>4. CASE Listens(at) = {}
  <2>1. answered' = {} /\ at' = 1 /\ pc' = "exits" /\ status' = status
    BY <1>4
  <2> QED
    BY <1>1, <1>3, <2>1 DEF CellInv, Placed, Sets, Stopping, Alone, Asking, Own, Launching, Rep
<1>5. CASE Listens(at) # {}
  <2>1. answered' = answered \cup Listens(at)
    BY <1>5
  <2>2. {p.rep : p \in answered'} = 1..at /\ \A p \in answered' : Own(p)
    <3>1. {p.rep : p \in answered'} = {p.rep : p \in answered} \cup {at}
      BY <1>2, <1>5, <2>1
    <3> QED
      BY <1>2, <1>3, <2>1, <3>1 DEF CellInv, Asking
  <2>3. CASE at = Replicas[cell]
    <3>1. status' = "ok" /\ pc' = "verdict" /\ at' = at
      BY <1>5, <2>3
    <3>2. Asking'
      BY <1>1, <2>2, <2>3, <3>1 DEF CellInv, Asking, Own, Launching, Rep
    <3> QED
      BY <1>1, <3>1, <3>2 DEF CellInv, Placed, Sets, Stopping, Alone, Own, Launching
  <2>4. CASE at # Replicas[cell]
    <3>1. at' = at + 1 /\ pc' = pc /\ status' = status /\ at' \in 1..Replicas[cell]
      BY <1>3, <1>5, <2>4
    <3>2. Asking'
      BY <1>1, <1>3, <2>2, <3>1 DEF CellInv, Asking, Own, Launching
    <3> QED
      BY <1>1, <3>1, <3>2 DEF CellInv, Placed, Sets, Stopping, Alone, Own, Launching, Rep
  <2> QED
    BY <2>3, <2>4
<1> QED
  BY <1>4, <1>5

LEMMA LookAtExitsInv == ASSUME CellInv, LookAtExits PROVE CellInv'
<1>1. /\ UNCHANGED <<procs, termed, ready, exits, launches, cell, caller, at, answered>>
      /\ pc = "exits" /\ pc' \in {"verdict", "health"}
      /\ \/ pc' = "verdict" /\ status' \in {"died", "timeout"}
         \/ pc' = "health" /\ status' = status
  BY DEF LookAtExits, serverVars
<1>2. 1..(1 - 1) = {}
  OBVIOUS
<1> QED
  BY <1>1, <1>2 DEF CellInv, Placed, Sets, Stopping, Alone, Asking, Own, Launching

LEMMA LaunchEndsInv == ASSUME CellInv, LaunchEnds PROVE CellInv'
<1>1. cell \in Cell /\ launches \in 0..MaxLaunches
  BY DEF CellInv, Sets
<1> QED
  BY <1>1, GoneInv, CalledInv DEF LaunchEnds

LEMMA DeadlineInv == ASSUME CellInv, Deadline PROVE CellInv'
BY DEF Deadline, serverVars, CellInv, Placed, Sets, Stopping, Alone, Asking, Own,
       FindPids, ApisOf, Launching

LEMMA InterruptInv == ASSUME CellInv, Interrupt PROVE CellInv'
BY GoneInv DEF Interrupt

-----------------------------------------------------------------------------
(* The sweep starts and stops no server.                                   *)
LEMMA CellStepInv == ASSUME CellInv, [Next]_vars PROVE CellInv'
<1>1. CASE UNCHANGED cellVars
  BY <1>1 DEF cellVars, serverVars, scriptVars, CellInv, Placed, Sets, Stopping, Alone,
              Asking, Own, FindPids, ApisOf, Launching
<1>2. CASE (\E p \in procs : ServerStep(p)) /\ UNCHANGED scriptVars
  BY <1>2, ServerInv
<1>3. CASE CellNext
  <2>1. CASE \E c \in Cell : Stop(c) \/ Launch(c)
    BY <2>1, CallInv
  <2>2. CASE ScriptStep
    BY <2>2, ScanInv, TermServersInv, GraceOverInv, TermLeftInv, KillLeftInv, StopDoneInv,
       SpawnInv, AskPortInv, LookAtExitsInv, LaunchEndsInv, DeadlineInv DEF ScriptStep
  <2> QED
    BY <1>2, <1>3, <2>1, <2>2, InterruptInv DEF CellNext
<1>4. SweepStep => UNCHANGED cellVars
  BY DEF SweepStep, ClientEnds, WarmedUp, SkipPoint, StartPoint, EndPoint, Finished
<1> QED
  BY <1>1, <1>2, <1>3, <1>4 DEF Next, vars, Call, InterruptSweep, OrphanEnds

THEOREM CellInvariant == Spec => []CellInv
<1>1. Init => CellInv
  BY CellInitInv DEF Init
<1> QED
  BY <1>1, CellStepInv, PTL DEF Spec

(* A stop that ran to its end has left nothing of its cell and nothing on  *)
(* its GPUs, whatever the servers did between its scans (stop.sh, steps 1  *)
(* and 2).                                                                 *)
THEOREM StopEmptiesTheCell == Spec => []StopEmpties
<1>1. CellInv => StopEmpties
  BY DEF CellInv, Stopping, StopEmpties, Clear, FindPids
<1> QED
  BY <1>1, CellInvariant, PTL

(* launch.sh decides on answers and exit files of its own servers only,    *)
(* and ok needs an answer of every replica.                                *)
THEOREM LaunchVerdictIsOwn == Spec => []VerdictIsOwn
<1>1. CellInv => VerdictIsOwn
  <2> SUFFICES ASSUME CellInv, pc \in {"health", "exits", "verdict"}
               PROVE  /\ \A p \in answered : Own(p)
                      /\ status = "ok" => {p.rep : p \in answered} = Rep(cell)
                      /\ \A e \in ExitFiles : e.run = launches
    BY DEF VerdictIsOwn, Own
  <2> QED
    BY DEF CellInv, Alone, Asking, Launching, ExitFiles
<1> QED
  BY <1>1, CellInvariant, PTL

-----------------------------------------------------------------------------
(* The sweep.                                                              *)

LEMMA RepWithin == ASSUME NEW c \in Cell
                   PROVE  /\ MaxRep \in Nat /\ Replicas[c] \in Nat \ {0}
                          /\ Replicas[c] <= MaxRep
<1> DEFINE Reps == {Rep(d) : d \in Cell}
           f    == [d \in Cell |-> Rep(d)]
<1>1. ASSUME NEW d \in Cell
      PROVE  IsFiniteSet(Rep(d)) /\ Cardinality(Rep(d)) = Replicas[d]
  <2>1. Replicas[d] \in Nat \ {0}
    BY RepInNat
  <2>2. IsFiniteSet(1..Replicas[d])
        /\ Cardinality(1..Replicas[d])
           = IF 1 > Replicas[d] THEN 0 ELSE Replicas[d] - 1 + 1
    BY <2>1, FS_Interval
  <2> QED
    BY <2>1, <2>2 DEF Rep
<1>2. IsFiniteSet(Reps)
  <2>1. f \in Surjection(Cell, Reps)
    BY DEF Surjection
  <2> QED
    BY <2>1, FS_Surjection, LayoutAssumption
<1>3. IsFiniteSet(UNION Reps)
  BY <1>1, <1>2, FS_UNION
<1>4. Cardinality(Rep(c)) <= Cardinality(UNION Reps)
  BY <1>3, FS_Subset
<1>5. Cardinality(UNION Reps) \in Nat
  BY <1>3, FS_CardinalityType
<1> QED
  BY <1>1, <1>4, <1>5, RepInNat DEF MaxRep

(* The sweep will not come to a point of this run id any more.             *)
Before(id) == /\ id \in Nat \X Nat
              /\ \/ id[1] < sweeps
                 \/ id[1] = sweeps /\ id[2] < point
                 \/ id = Id /\ spc = "off"

(* A meta file is written once, after the last client of its point; the    *)
(* clients that outlive their sweep are of points that have none.          *)
SweepShape ==
    /\ sweeps \in Nat /\ point \in Nat \ {0} /\ scell \in Cell
    /\ spc \in {"off", "warmup", "next", "point"}
    /\ DOMAIN client = 1..MaxRep
    /\ spc = "point" => point <= Len(Points)

Behind ==
    /\ \A m \in metas : Before(m.id)
    /\ \A x \in orphans : Before(x[1])
    /\ \A b \in benches : Before(b[1]) \/ (b[1] = Id /\ spc = "point" /\ b[2] \in Fleet)

AtPoint ==
    spc = "point" =>
        \A i \in 1..MaxRep : /\ client[i] = "none" <=> i \notin Fleet
                             /\ client[i] \in {"none", "running", "ok", "failed"}
                             /\ client[i] = "ok" => <<Id, i>> \in benches

Whole ==
    /\ \A m \in metas, x \in orphans : x[1] # m.id
    /\ \A m \in metas : m.rc = 0 => Files(m.id) = 1..m.replicas

SweepInv == SweepShape /\ Behind /\ AtPoint /\ Whole

LEMMA FleetWithin == ASSUME SweepInv, point \in 1..Len(Points)
                     PROVE  /\ Fleet \subseteq 1..MaxRep
                            /\ Active(C0, Replicas[scell]) \in Nat
<1>1. C0 \in Nat \ {0}
  BY SweepAssumption DEF C0
<1> QED
  BY <1>1, RepWithin DEF SweepInv, SweepShape, Fleet, Active

LEMMA BeforeIsPast == ASSUME SweepInv, spc # "off" PROVE ~Before(Id)
BY DEF SweepInv, SweepShape, Before, Id

LEMMA CallSweepInv ==
    ASSUME SweepInv, NEW c \in Cell, NEW s, Call(c, s) PROVE SweepInv'
<1> USE DEF Call
<1>1. SweepShape'
  BY DEF SweepInv, SweepShape, Started
<1>2. \A id : Before(id) => Before(id)'
  <2> SUFFICES ASSUME NEW id \in Nat \X Nat, Before(id) PROVE Before(id)'
    BY DEF Before
  <2>1. id[1] \in Nat /\ id[1] <= sweeps
    BY DEF SweepInv, SweepShape, Before, Id
  <2> QED
    BY <2>1 DEF SweepInv, SweepShape, Before
<1>3. Behind'
  BY <1>2 DEF SweepInv, Behind
<1>4. AtPoint' /\ Whole'
  BY DEF SweepInv, AtPoint, Whole, Files
<1> QED
  BY <1>1, <1>3, <1>4 DEF SweepInv

LEMMA ClientSweepInv ==
    ASSUME SweepInv, NEW i \in 1..MaxRep, ClientEnds(i) PROVE SweepInv'
<1> USE DEF ClientEnds
<1>1. SweepShape'
  BY DEF SweepInv, SweepShape
<1>2. Id' = Id /\ Fleet' = Fleet /\ \A id : Before(id)' = Before(id)
  BY DEF Id, Fleet, C0, Before
<1>3. benches' \subseteq benches \cup (IF spc = "point" THEN {<<Id, i>>} ELSE {})
      /\ benches \subseteq benches'
  OBVIOUS
<1>4. spc = "point" => i \in Fleet
  BY DEF SweepInv, AtPoint
<1>5. Behind'
  BY <1>2, <1>3, <1>4 DEF SweepInv, Behind
<1>6. AtPoint'
  BY <1>2, <1>3 DEF SweepInv, SweepShape, AtPoint
<1>7. Whole'
  <2> SUFFICES ASSUME NEW m \in metas PROVE Files(m.id)' = Files(m.id)
    BY DEF SweepInv, Whole
  <2>1. spc = "point" => m.id # Id
    BY BeforeIsPast DEF SweepInv, Behind
  <2> QED
    BY <1>3, <2>1 DEF Files
<1> QED
  BY <1>1, <1>5, <1>6, <1>7 DEF SweepInv

(* What moves the sweep on without touching its files.                     *)
LEMMA MovedOn ==
    ASSUME SweepInv, SweepShape', spc' # "point", UNCHANGED <<sweeps, benches, metas>>,
           point <= point', spc = "point" => point < point' \/ spc' = "off",
           spc = "off" => spc' = "off",
           \A x \in orphans' : x \in orphans \/ (x[1] = Id /\ spc' = "off" /\ spc = "point"),
           point' \in {point, point + 1}
    PROVE  SweepInv'
<1>1. \A id : Before(id) => Before(id)'
  <2> SUFFICES ASSUME NEW id \in Nat \X Nat, Before(id) PROVE Before(id)'
    BY DEF Before
  <2>1. id[1] \in Nat /\ id[2] \in Nat
    OBVIOUS
  <2> QED
    BY <2>1 DEF SweepInv, SweepShape, Before, Id
<1>2. spc = "point" => \A id : id = Id => Before(id)'
  BY DEF SweepInv, SweepShape, Before, Id
<1>3. Behind'
  BY <1>1, <1>2 DEF SweepInv, Behind
<1>4. spc = "point" => \A m \in metas : m.id # Id
  BY BeforeIsPast DEF SweepInv, Behind
<1>5. Whole'
  BY <1>4 DEF SweepInv, Whole, Files
<1> QED
  BY <1>3, <1>5 DEF SweepInv, AtPoint

LEMMA OtherSweepInv ==
    ASSUME SweepInv, WarmedUp \/ SkipPoint \/ Finished \/ InterruptSweep PROVE SweepInv'
<1> USE DEF SweepInv, SweepShape, SweepEnds, Started
<1>1. CASE WarmedUp
  BY <1>1, MovedOn DEF WarmedUp
<1>2. CASE SkipPoint
  BY <1>2, MovedOn DEF SkipPoint
<1>3. CASE Finished
  BY <1>3, MovedOn DEF Finished
<1>4. CASE InterruptSweep
  BY <1>4, MovedOn DEF InterruptSweep
<1> QED
  BY <1>1, <1>2, <1>3, <1>4

LEMMA StartPointInv == ASSUME SweepInv, StartPoint PROVE SweepInv'
<1> USE DEF StartPoint
<1>1. SweepShape'
  BY SweepAssumption DEF SweepInv, SweepShape, Started
<1>2. Id' = Id /\ Fleet' = Fleet
  BY DEF Id, Fleet, C0
<1>3. Behind'
  BY <1>2 DEF SweepInv, Behind, Before
<1>4. AtPoint'
  BY <1>2 DEF AtPoint, Started
<1> QED
  BY <1>1, <1>3, <1>4 DEF SweepInv, Whole, Files

(* All clients have ended: when none of them failed every one left its     *)
(* file, and no later client writes one of this run id.                    *)
LEMMA EndPointInv == ASSUME SweepInv, EndPoint PROVE SweepInv'
<1> USE DEF EndPoint
<1>1. SweepShape'
  BY DEF SweepInv, SweepShape, SweepEnds, Started
<1>2. /\ \A id : Before(id) => Before(id)'
      /\ ~Before(Id)
  <2>1. ASSUME NEW id \in Nat \X Nat, Before(id) PROVE Before(id)'
    <3>1. id[1] \in Nat /\ id[2] \in Nat
      OBVIOUS
    <3> QED
      BY <2>1, <3>1 DEF SweepInv, SweepShape, SweepEnds, Before, Id
  <2> QED
    BY <2>1, BeforeIsPast DEF Before
<1>3. /\ Meta.id = Id /\ metas' \subseteq metas \cup {Meta}
      /\ \A id : id = Id => Before(id)'
  BY DEF Meta, SweepInv, SweepShape, SweepEnds, Before, Id
<1>4. Behind'
  BY <1>2, <1>3 DEF SweepInv, Behind
<1>5. AtPoint'
  BY DEF AtPoint, SweepEnds
<1>6. Meta.rc = 0 => Files(Id) = 1..Meta.replicas
  <2> SUFFICES ASSUME Meta.rc = 0 PROVE Files(Id) = Fleet
    BY DEF Meta, Fleet
  <2>1. Fleet \subseteq 1..MaxRep
    BY FleetWithin DEF SweepInv, SweepShape
  <2>2. \A i \in Fleet : client[i] # "failed"
    BY DEF Meta, ExitCode
  <2>3. \A i \in Fleet : client[i] = "ok"
    BY <2>1, <2>2 DEF SweepInv, AtPoint, Ended
  <2>4. \A i \in Fleet : <<Id, i>> \in benches
    BY <2>1, <2>3 DEF SweepInv, AtPoint
  <2>5. \A b \in benches : b[1] = Id => b[2] \in Fleet
    BY <1>2 DEF SweepInv, Behind
  <2>6. Files(Id) \subseteq Fleet
    BY <2>5 DEF Files
  <2>7. Fleet \subseteq Files(Id)
    <3> SUFFICES ASSUME NEW i \in Fleet PROVE i \in Files(Id)
      OBVIOUS
    <3>1. <<Id, i>> \in {x \in benches : x[1] = Id} /\ <<Id, i>>[2] = i
      BY <2>4
    <3> QED
      BY <3>1 DEF Files
  <2> QED
    BY <2>6, <2>7
<1>7. Whole'
  <2>1. \A x \in orphans : x[1] # Id
    BY <1>2 DEF SweepInv, Behind
  <2> QED
    BY <1>3, <1>6, <2>1 DEF SweepInv, Whole, Files
<1> QED
  BY <1>1, <1>4, <1>5, <1>7 DEF SweepInv

LEMMA OrphanInv == ASSUME SweepInv, NEW x \in orphans, OrphanEnds(x) PROVE SweepInv'
<1> USE DEF OrphanEnds
<1>1. Id' = Id /\ Fleet' = Fleet /\ \A id : Before(id)' = Before(id)
  BY DEF Id, Fleet, C0, Before
<1>2. SweepShape' /\ Behind' /\ AtPoint'
  BY <1>1 DEF SweepInv, SweepShape, Behind, AtPoint
<1>3. Whole'
  BY DEF SweepInv, Whole, Files
<1> QED
  BY <1>2, <1>3 DEF SweepInv

LEMMA SweepStepInv == ASSUME SweepInv, [Next]_vars PROVE SweepInv'
<1>1. CASE UNCHANGED sweepVars
  BY <1>1 DEF sweepVars, SweepInv, SweepShape, Behind, AtPoint, Whole, Before, Id, Fleet,
              C0, Files
<1>2. CASE SweepStep
  BY <1>2, ClientSweepInv, OtherSweepInv, StartPointInv, EndPointInv DEF SweepStep
<1> QED
  BY <1>1, <1>2, CallSweepInv, OtherSweepInv, OrphanInv DEF Next, vars

LEMMA SweepInvariant == Spec => []SweepInv
<1>1. Init => SweepInv
  <2> SUFFICES ASSUME Init PROVE SweepInv
    OBVIOUS
  <2>1. scell \in Cell
    BY CellInitInv DEF Init, CellInv, Sets
  <2> QED
    BY <2>1 DEF Init, SweepInv, SweepShape, Behind, AtPoint, Whole
<1> QED
  BY <1>1, SweepStepInv, PTL DEF Spec

(* A row that is not marked sums over every replica its point was split    *)
(* over, whatever failed and in whichever order the clients ended          *)
(* (run_one of sweep.sh, aggregate of summarise.py).                       *)
THEOREM UnmarkedRowsAreWhole == Spec => []UnmarkedIsWhole
<1>1. SweepInv => UnmarkedIsWhole
  <2> SUFFICES ASSUME NEW m \in metas, SweepInv,
                      \A n \in metas : n.id = m.id => ~(n.rc # 0)
               PROVE  Files(m.id) = 1..m.replicas
    BY DEF UnmarkedIsWhole, Marked, MetaOf
  <2> QED
    BY DEF SweepInv, Whole
<1> QED
  BY <1>1, SweepInvariant, PTL

-----------------------------------------------------------------------------
(* How a point is split. *)

(* Division with remainder, and its converse. *)
LEMMA Division ==
    ASSUME NEW C \in Nat, NEW a \in Nat \ {0}
    PROVE  /\ C \div a \in Nat /\ C % a \in 0..(a - 1)
           /\ C = a * (C \div a) + (C % a)
<1> DEFINE q == C \div a  x == C % a
<1>1. q \in Nat /\ x \in 0..(a - 1) /\ C = a * q + x
  OBVIOUS
<1> QED BY <1>1

LEMMA Quotient ==
    ASSUME NEW a \in Nat \ {0}, NEW q \in Nat, NEW x \in 0..(a - 1)
    PROVE  (a * q + x) \div a = q /\ (a * q + x) % a = x
OBVIOUS

LEMMA More ==
    ASSUME NEW a \in Nat, NEW p \in Int, NEW q \in Int, p <= q
    PROVE  a * p <= a * q
OBVIOUS

(* The k-th request of replica i is number a * (k - 1) + i of the point. *)
LEMMA DealtWithin ==
    ASSUME NEW C \in Nat, NEW a \in Nat \ {0}, NEW i \in 1..a, NEW k \in Nat \ {0}
    PROVE  k <= C \div a + (IF i <= C % a THEN 1 ELSE 0) <=> a * (k - 1) + i <= C
<1> DEFINE q == C \div a  x == C % a
<1>1. q \in Nat /\ x \in 0..(a - 1) /\ C = a * q + x
  BY Division
<1> HIDE DEF q, x
<1>2. CASE k - 1 < q
  <2>1. a * (k - 1 + 1) <= a * q
    BY <1>1, <1>2, More
  <2>2. a * (k - 1 + 1) = a * (k - 1) + a
    OBVIOUS
  <2>3. k <= q + (IF i <= x THEN 1 ELSE 0)
    BY <1>1, <1>2
  <2>4. a * (k - 1) + i <= C
    <3> DEFINE y == a * (k - 1)  z == a * q
    <3>1. y \in Int /\ z \in Int /\ y + a <= z /\ C = z + x
      BY <1>1, <2>1, <2>2
    <3> HIDE DEF y, z
    <3>2. y + i <= C
      BY <1>1, <3>1
    <3> QED BY <3>2 DEF y
  <2> QED BY <2>3, <2>4 DEF q, x
<1>3. CASE k - 1 = q
  <2> QED BY <1>1, <1>3 DEF q, x
<1>4. CASE k - 1 > q
  <2>1. a * (q + 1) <= a * (k - 1)
    BY <1>1, <1>4, More
  <2>2. a * (q + 1) = a * q + a
    BY <1>1
  <2>3. ~(k <= q + (IF i <= x THEN 1 ELSE 0))
    BY <1>1, <1>4
  <2>4. ~(a * (k - 1) + i <= C)
    <3> DEFINE y == a * (k - 1)  z == a * q
    <3>1. y \in Int /\ z \in Int /\ z + a <= y /\ C = z + x
      BY <1>1, <2>1, <2>2
    <3> HIDE DEF y, z
    <3>2. ~(y + i <= C)
      BY <1>1, <3>1
    <3> QED BY <3>2 DEF y
  <2> QED BY <2>3, <2>4 DEF q, x
<1> QED BY <1>1, <1>2, <1>3, <1>4

(* Every number is dealt, and to one replica. *)
LEMMA DealtOnce ==
    ASSUME NEW a \in Nat \ {0}, NEW n \in Nat \ {0}
    PROVE  /\ ((n - 1) % a) + 1 \in 1..a /\ (n - 1) \div a + 1 \in Nat \ {0}
           /\ n = a * ((n - 1) \div a) + (((n - 1) % a) + 1)
           /\ \A i \in 1..a, k \in Nat \ {0} : n = a * (k - 1) + i =>
                 i = ((n - 1) % a) + 1 /\ k = (n - 1) \div a + 1
<1>1. n - 1 \in Nat
  OBVIOUS
<1>2. /\ (n - 1) \div a \in Nat /\ (n - 1) % a \in 0..(a - 1)
      /\ n - 1 = a * ((n - 1) \div a) + ((n - 1) % a)
  BY <1>1, Division
<1>3. ASSUME NEW i \in 1..a, NEW k \in Nat \ {0}, n = a * (k - 1) + i
      PROVE  i = ((n - 1) % a) + 1 /\ k = (n - 1) \div a + 1
  <2>1. k - 1 \in Nat /\ i - 1 \in 0..(a - 1)
    OBVIOUS
  <2>2. (a * (k - 1) + (i - 1)) \div a = k - 1 /\ (a * (k - 1) + (i - 1)) % a = i - 1
    BY <2>1, Quotient
  <2>3. n - 1 = a * (k - 1) + (i - 1)
    BY <1>3
  <2> QED BY <2>1, <2>2, <2>3
<1> DEFINE q == (n - 1) \div a  x == (n - 1) % a  y == a * q
<1>4. n = y + (x + 1) /\ x + 1 \in 1..a /\ q + 1 \in Nat \ {0}
  <2>1. y \in Int /\ q \in Nat /\ x \in 0..(a - 1) /\ n - 1 = y + x
    BY <1>2
  <2> HIDE DEF q, x, y
  <2> QED BY <2>1
<1> QED BY <1>3, <1>4

(* The requests of a point are dealt one by one: request n is the next of   *)
(* replica (n - 1) % a + 1, so that the shares are C together.             *)
LEMMA SharesAddUp ==
    ASSUME NEW C \in Nat \ {0}, NEW r \in Nat \ {0}
    PROVE  Cardinality(Dealt(C, r)) = C
<1> DEFINE a == Active(C, r)
           Number == [n \in 1..C |-> <<((n - 1) % a) + 1, (n - 1) \div a + 1>>]
<1>1. a \in Nat \ {0}
  BY DEF Active
<1>2. \A u : u \in Dealt(C, r) <=> \E i \in 1..a, k \in Nat \ {0} :
                 u = <<i, k>> /\ k <= C \div a + (IF i <= C % a THEN 1 ELSE 0)
  <2>1. \A i \in 1..a : Share(C, r, i) \in Int /\ Share(C, r, i) = C \div a + (IF i <= C % a THEN 1 ELSE 0)
    <3> DEFINE q == C \div a  x == C % a
    <3>1. \A i \in 1..a : Share(C, r, i) = q + (IF i <= x THEN 1 ELSE 0)
      BY Zenon DEF Share
    <3> HIDE DEF a
    <3>2. q \in Int
      <4>1. C \in Nat
        OBVIOUS
      <4> QED BY <1>1, <4>1, Division
    <3> HIDE DEF q, x
    <3>3. \A i \in 1..a : q + (IF i <= x THEN 1 ELSE 0) \in Int
      BY <3>2
    <3> QED BY <3>1, <3>3 DEF q, x
  <2> HIDE DEF a
  <2> QED BY <2>1 DEF Dealt, a
<1> HIDE DEF a
<1>3. \A n \in 1..C : Number[n] \in Dealt(C, r)
  <2> TAKE n \in 1..C
  <2> DEFINE i == ((n - 1) % a) + 1  k == (n - 1) \div a + 1
  <2>1. n \in Nat \ {0}
    OBVIOUS
  <2>2. i \in 1..a /\ k \in Nat \ {0} /\ n = a * (k - 1) + i
    <3>1. k - 1 = (n - 1) \div a
      BY <1>1, <2>1, DealtOnce
    <3> QED BY <1>1, <2>1, <3>1, DealtOnce
  <2>3. Number[n] = <<i, k>>
    OBVIOUS
  <2> HIDE DEF i, k, Number
  <2>0. a * (k - 1) + i <= C
    BY <2>2
  <2>4. k <= C \div a + (IF i <= C % a THEN 1 ELSE 0)
    BY <1>1, <2>0, <2>2, DealtWithin
  <2> QED BY <1>2, <2>2, <2>3, <2>4
<1>4. ASSUME NEW m \in 1..C, NEW n \in 1..C, Number[m] = Number[n] PROVE m = n
  <2>1. m \in Nat \ {0} /\ n \in Nat \ {0}
    OBVIOUS
  <2>2. (m - 1) % a = (n - 1) % a /\ (m - 1) \div a = (n - 1) \div a
    <3>1. /\ (m - 1) % a \in Int /\ (m - 1) \div a \in Int
          /\ (n - 1) % a \in Int /\ (n - 1) \div a \in Int
      BY <1>1, Division, <2>1
    <3> QED BY <1>4, <3>1
  <2>3. m = a * ((m - 1) \div a) + (((m - 1) % a) + 1) /\ n = a * ((n - 1) \div a) + (((n - 1) % a) + 1)
    BY <1>1, <2>1, DealtOnce
  <2> QED BY <2>2, <2>3
<1>5. ASSUME NEW u \in Dealt(C, r) PROVE \E n \in 1..C : Number[n] = u
  <2>1. PICK i \in 1..a, k \in Nat \ {0} :
            u = <<i, k>> /\ k <= C \div a + (IF i <= C % a THEN 1 ELSE 0)
    BY <1>2
  <2> DEFINE n == a * (k - 1) + i
  <2>2. n <= C
    BY <1>1, <2>1, DealtWithin
  <2>3. n \in 1..C
    <3>1. a * (k - 1) \in Nat
      BY <1>1
    <3> QED BY <2>2, <3>1
  <2>4. i = ((n - 1) % a) + 1 /\ k = (n - 1) \div a + 1
    BY <1>1, <2>3, DealtOnce
  <2> QED BY <2>1, <2>3, <2>4
<1>6. Number \in Bijection(1..C, Dealt(C, r))
  <2> HIDE DEF Number
  <2>1. Number \in [1..C -> Dealt(C, r)]
    BY <1>3 DEF Number
  <2>2. DOMAIN Number = 1..C
    BY <2>1
  <2> QED BY <2>1, <2>2, <1>4, <1>5 DEF Bijection, Injection, Surjection, IsInjective
<1>7. IsFiniteSet(1..C) /\ Cardinality(1..C) = C
  <2>1. 1 \in Int /\ C \in Int /\ ~(1 > C) /\ C - 1 + 1 = C
    OBVIOUS
  <2> QED BY <2>1, FS_Interval
<1> QED BY <1>6, <1>7, FS_Bijection DEF ExistsBijection

(* No replica of a point is left without work. *)
LEMMA SharesLast ==
    ASSUME NEW C \in Nat \ {0}, NEW r \in Nat \ {0}, NEW i \in 1..Active(C, r)
    PROVE  Share(C, r, i) >= 1
<1> DEFINE a == Active(C, r)
<1>1. a \in Nat \ {0} /\ a <= C
  BY DEF Active
<1> HIDE DEF a
<1>2. C \div a >= 1
  <2>1. C \div a \in Nat /\ C % a \in 0..(a - 1) /\ C = a * (C \div a) + (C % a)
    BY <1>1, Division
  <2>2. C \div a = 0 => C = C % a
    BY <1>1, <2>1
  <2> QED BY <1>1, <2>1, <2>2
<1>3. C % a \in Int /\ C \div a \in Int
  BY <1>1, Division
<1> QED BY <1>2, <1>3 DEF Share, a

(* Prompts are rounded up by less than one per replica. *)
LEMMA RoundedUp ==
    ASSUME NEW m \in Nat, NEW a \in Nat \ {0}
    PROVE  a * ((m + a - 1) \div a) \in m..(m + a - 1)
<1> DEFINE n == m + a - 1  q == n \div a  x == n % a  y == a * q
<1>1. q \in Nat /\ x \in 0..(a - 1) /\ n = y + x /\ n \in Nat
  <2>1. n \in Nat
    OBVIOUS
  <2> HIDE DEF n
  <2> QED BY <2>1, Division
<1>2. y \in Int
  BY <1>1
<1>3. n = m + a - 1
  OBVIOUS
<1> HIDE DEF n, q, x, y
<1>4. y \in m..(m + a - 1)
  BY <1>1, <1>2, <1>3
<1> QED BY <1>4 DEF n, q, y

(* Whatever the concurrency and the number of replicas: the shares of a    *)
(* point add up to it, none is empty, and the prompts are rounded up by    *)
(* less than one per replica (run_one and shape_num_prompts of sweep.sh).  *)
THEOREM PointsAreSplitWhole == Spec => []SplitIsWhole
<1>1. SweepInv => SplitIsWhole
  <2> SUFFICES ASSUME SweepInv, NEW k \in point..Len(Points), NEW r \in 1..MaxFleet
               PROVE  LET C == Points[k]
                          a == Active(C, r)
                      IN  /\ Cardinality(Dealt(C, r)) = C
                          /\ \A i \in 1..a : Share(C, r, i) >= 1
                          /\ a * PromptShare(C, r) \in Prompts(C)..(Prompts(C) + a - 1)
    BY DEF SplitIsWhole
  <2> DEFINE C == Points[k]  a == Active(C, r)
  <2>1. C \in Nat \ {0} /\ r \in Nat \ {0}
    BY SweepAssumption DEF SweepInv, SweepShape
  <2> HIDE DEF C
  <2>2. a \in Nat \ {0} /\ Prompts(C) \in Nat
    BY <2>1, SweepAssumption DEF Active, Prompts
  <2>3. a * PromptShare(C, r) \in Prompts(C)..(Prompts(C) + a - 1)
    BY <2>2, RoundedUp DEF PromptShare
  <2> QED BY <2>1, <2>3, SharesAddUp, SharesLast DEF C
<1> QED BY <1>1, SweepInvariant, PTL

-----------------------------------------------------------------------------
(* Types.                                                                  *)

(* What CellInv leaves of the types of Cell.                               *)
CellTyped ==
    /\ \A e \in exits : e.kind = "runner"
    /\ crashes \in 0..MaxCrashes
    /\ pc \in {"idle", "scan", "term", "grace", "rescan", "term2", "rescan2",
               "kill", "drain", "spawn", "health", "exits", "verdict"}
    /\ found \subseteq Proc /\ answered \subseteq Proc
    /\ status \in {"fail", "ok", "died", "timeout"} /\ late \in BOOLEAN

LEMMA CellTypes == CellInv /\ CellTyped => CellTypeOK
BY DEF CellInv, CellTyped, Placed, Sets, Asking, CellTypeOK

LEMMA ServerTyped ==
    ASSUME CellInv, CellTyped, NEW p \in procs, ServerStep(p), UNCHANGED scriptVars
    PROVE  CellTyped'
<1>1. UNCHANGED <<pc, found, answered, status, late>>
  BY DEF scriptVars
<1>2. crashes' \in 0..MaxCrashes
  BY LayoutAssumption
  DEF CellTyped, ServerStep, StartWorker, BecomeReady, ServerEnds, WorkerEnds, RunnerEnds, Ends
<1>3. \A e \in exits' : e.kind = "runner"
  BY DEF CellTyped, ServerStep, StartWorker, BecomeReady, ServerEnds, WorkerEnds, RunnerEnds, Ends
<1> QED BY <1>1, <1>2, <1>3 DEF CellTyped

LEMMA ScriptTyped ==
    ASSUME CellInv, CellTyped, ScriptStep \/ Interrupt \/ (\E c \in Cell : Stop(c) \/ Launch(c))
    PROVE  CellTyped'
<1> USE DEF ScriptStep, Goto, StopCalled, ScriptGone, serverVars
<1>1. crashes' = crashes /\ exits' \subseteq exits
  BY DEF Scan, TermServers, GraceOver, TermLeft, KillLeft, StopDone, Spawn, AskPort,
         LookAtExits, LaunchEnds, Deadline, Interrupt, Stop, Launch
<1>2. pc' \in {"idle", "scan", "term", "grace", "rescan", "term2", "rescan2",
               "kill", "drain", "spawn", "health", "exits", "verdict"}
  BY DEF CellTyped, Scan, TermServers, GraceOver, TermLeft, KillLeft, StopDone, Spawn, AskPort,
         LookAtExits, LaunchEnds, Deadline, Interrupt, Stop, Launch
<1>3. found' \in {found, {}, FindPids} /\ FindPids \subseteq procs
  BY DEF Scan, TermServers, GraceOver, TermLeft, KillLeft, StopDone, Spawn, AskPort,
         LookAtExits, LaunchEnds, Deadline, Interrupt, Stop, Launch, FindPids
<1>4. answered' \subseteq answered \cup ready
  BY DEF Scan, TermServers, GraceOver, TermLeft, KillLeft, StopDone, Spawn, AskPort,
         LookAtExits, LaunchEnds, Deadline, Interrupt, Stop, Launch, Listens
<1>5. status' \in {status, "fail", "ok", "died", "timeout"} /\ late' \in {late, FALSE, TRUE}
  BY DEF Scan, TermServers, GraceOver, TermLeft, KillLeft, StopDone, Spawn, AskPort,
         LookAtExits, LaunchEnds, Deadline, Interrupt, Stop, Launch
<1>6. procs \subseteq Proc /\ ready \subseteq procs
  BY DEF CellInv, Placed, Sets
<1> QED BY <1>1, <1>2, <1>3, <1>4, <1>5, <1>6 DEF CellTyped

LEMMA CellStepTyped == ASSUME CellInv, CellTyped, [Next]_vars PROVE CellTyped'
<1>1. CASE UNCHANGED cellVars
  BY <1>1 DEF CellTyped, cellVars, serverVars, scriptVars
<1>2. CASE CellNext
  BY <1>2, ServerTyped, ScriptTyped DEF CellNext
<1>3. CASE \E p \in procs : ServerStep(p) /\ UNCHANGED scriptVars
  BY <1>3, ServerTyped
<1> QED
  BY <1>1, <1>2, <1>3
  DEF Next, vars, Call, SweepStep, ClientEnds, WarmedUp, SkipPoint, StartPoint, EndPoint,
      Finished, InterruptSweep, OrphanEnds

(* A point is attempted once, and the points before it.                    *)
SweepTyped ==
    /\ stop \in {"unset", "0", "1"} /\ fate \in {"none", "finished", "died"}
    /\ point <= Len(Points) + 1 /\ sweeps <= MaxSweeps
    /\ attempted \in 0..point /\ attempted <= Len(Points)
    /\ spc \in {"warmup", "next"} => attempted < point
    /\ spc # "off" => sweeps # 0
    /\ client \in [1..MaxRep -> {"none", "running", "ok", "failed"}]
    /\ orphans \subseteq RunId \X (1..MaxRep)
    /\ benches \subseteq RunId \X (1..MaxRep)
    /\ metas \subseteq [id : RunId, rc : {0, 1}, prompts : Nat, replicas : 1..MaxRep]
    /\ skips \subseteq RunId

LEMMA IdTyped ==
    ASSUME SweepInv, SweepTyped, spc # "off", point <= Len(Points)
    PROVE  /\ Id \in RunId /\ point \in 1..Len(Points)
           /\ Fleet \subseteq 1..MaxRep /\ Active(C0, Replicas[scell]) \in 1..MaxRep
<1>1. Len(Points) \in Nat /\ MaxSweeps \in Nat
  BY SweepAssumption
<1>2. point \in 1..Len(Points) /\ sweeps \in 1..MaxSweeps
  BY <1>1 DEF SweepInv, SweepShape, SweepTyped
<1>3. C0 \in Nat \ {0}
  BY <1>2, SweepAssumption DEF C0
<1>4. Active(C0, Replicas[scell]) \in 1..MaxRep
  BY <1>3, RepWithin DEF SweepInv, SweepShape, Active
<1> QED BY <1>2, <1>4, FleetWithin DEF Id, RunId

LEMMA MetaTyped ==
    ASSUME SweepInv, SweepTyped, spc # "off", point <= Len(Points)
    PROVE  Meta \in [id : RunId, rc : {0, 1}, prompts : Nat, replicas : 1..MaxRep]
<1> DEFINE a == Active(C0, Replicas[scell])
<1>1. Id \in RunId /\ a \in 1..MaxRep /\ point \in 1..Len(Points)
  BY IdTyped
<1>2. a \in Nat \ {0}
  BY <1>1, RepWithin DEF SweepInv, SweepShape
<1>3. C0 \in Nat \ {0} /\ Mult * C0 \in Nat /\ Min1 \in Nat /\ Cap \in Nat
  BY <1>1, SweepAssumption DEF C0
<1>4. Prompts(C0) \in Nat
  BY <1>3 DEF Prompts
<1>5. PromptShare(C0, Replicas[scell]) \in Nat
  <2> HIDE DEF a
  <2>1. Prompts(C0) + a - 1 \in Nat
    BY <1>2, <1>4
  <2>2. (Prompts(C0) + a - 1) \div a \in Nat
    BY <1>2, <2>1
  <2> QED BY <2>2 DEF PromptShare, a
<1>6. a * PromptShare(C0, Replicas[scell]) \in Nat
  <2> HIDE DEF a
  <2> QED BY <1>2, <1>5
<1> QED BY <1>1, <1>6 DEF Meta, ExitCode

LEMMA StartedTyped == ASSUME NEW S PROVE Started(S) \in [1..MaxRep -> {"none", "running", "ok", "failed"}]
BY DEF Started

LEMMA SweepStepTyped == ASSUME SweepInv, SweepTyped, [Next]_vars PROVE SweepTyped'
<1>0. /\ Len(Points) \in Nat /\ MaxSweeps \in Nat
      /\ sweeps \in Nat /\ point \in Nat \ {0} /\ attempted \in Nat
  BY SweepAssumption DEF SweepInv, SweepShape, SweepTyped
<1>1. CASE UNCHANGED sweepVars
  BY <1>1 DEF sweepVars, SweepTyped
<1>2. ASSUME NEW c \in Cell, NEW s \in {"unset", "0", "1"}, Call(c, s) PROVE SweepTyped'
  BY <1>0, <1>2, StartedTyped DEF Call, SweepTyped
<1>3. ASSUME NEW i \in 1..MaxRep, ClientEnds(i) PROVE SweepTyped'
  <2>1. client' \in [1..MaxRep -> {"none", "running", "ok", "failed"}]
    BY <1>3 DEF ClientEnds, SweepTyped
  <2>2. benches' \subseteq RunId \X (1..MaxRep)
    BY <1>3, IdTyped DEF ClientEnds, SweepInv, SweepShape, SweepTyped
  <2>3. UNCHANGED <<spc, stop, point, attempted, sweeps, orphans, fate, metas, skips>>
    BY <1>3 DEF ClientEnds
  <2> QED BY <2>1, <2>2, <2>3 DEF SweepTyped
<1>4. CASE WarmedUp
  <2>1. attempted' < point'
    BY <1>0, <1>4 DEF WarmedUp, SweepTyped
  <2> QED BY <1>0, <1>4, StartedTyped DEF WarmedUp, SweepEnds, SweepTyped
<1>5. CASE SkipPoint
  BY <1>0, <1>5, IdTyped DEF SkipPoint, SweepTyped
<1>6. CASE StartPoint
  BY <1>0, <1>6, StartedTyped DEF StartPoint, SweepTyped
<1>7. CASE EndPoint
  <2>1. point <= Len(Points)
    BY <1>7 DEF EndPoint, SweepInv, SweepShape
  <2>2. metas' \subseteq [id : RunId, rc : {0, 1}, prompts : Nat, replicas : 1..MaxRep]
    BY <1>7, <2>1, MetaTyped DEF EndPoint, SweepTyped
  <2> QED BY <1>0, <1>7, <2>1, <2>2, StartedTyped DEF EndPoint, SweepEnds, SweepTyped
<1>8. CASE Finished
  BY <1>0, <1>8 DEF Finished, SweepEnds, SweepTyped
<1>9. CASE InterruptSweep
  <2>1. orphans' \subseteq RunId \X (1..MaxRep)
    BY <1>9, IdTyped DEF InterruptSweep, SweepInv, SweepShape, SweepTyped
  <2> QED BY <1>0, <1>9, <2>1, StartedTyped DEF InterruptSweep, SweepEnds, SweepTyped
<1>10. ASSUME NEW x \in orphans, OrphanEnds(x) PROVE SweepTyped'
  BY <1>10 DEF OrphanEnds, SweepTyped
<1> QED
  BY <1>1, <1>2, <1>3, <1>4, <1>5, <1>6, <1>7, <1>8, <1>9, <1>10 DEF Next, SweepStep, vars

(* The scripts, the servers and the files of a sweep keep their types: a    *)
(* run id is that of a point there is, and no point is attempted twice.     *)
THEOREM BenchTypeCorrect == Spec => []TypeOK
<1>1. Init => CellTyped /\ SweepTyped
  <2> SUFFICES ASSUME Init PROVE CellTyped /\ SweepTyped
    OBVIOUS
  <2>1. CellTyped
    <3>1. MaxCrashes \in Nat /\ crashes = 0 /\ exits = {} /\ late = FALSE
      BY LayoutAssumption DEF Init, CellInit
    <3>2. pc = "idle" /\ status = "fail" /\ found = {} /\ answered = {}
      BY DEF Init, CellInit
    <3>3. 0 \in 0..MaxCrashes
      BY <3>1
    <3>4. /\ crashes \in 0..MaxCrashes /\ \A e \in exits : e.kind = "runner"
          /\ found \subseteq Proc /\ answered \subseteq Proc
      BY <3>1, <3>2, <3>3
    <3>5. late \in BOOLEAN
      BY <3>1
    <3> QED BY <3>2, <3>4, <3>5 DEF CellTyped
  <2> QED BY <2>1, SweepAssumption DEF Init, SweepTyped
<1>2. CellInv /\ CellTyped /\ SweepInv /\ SweepTyped /\ [Next]_vars => (CellTyped /\ SweepTyped)'
  BY CellStepTyped, SweepStepTyped
<1>3. CellInv /\ CellTyped /\ SweepInv /\ SweepTyped => TypeOK
  <2> SUFFICES ASSUME CellInv, CellTyped, SweepInv, SweepTyped PROVE TypeOK
    OBVIOUS
  <2>1. Len(Points) \in Nat /\ MaxSweeps \in Nat
    BY SweepAssumption
  <2>2. point \in 1..(Len(Points) + 1) /\ attempted \in 0..Len(Points) /\ sweeps \in 0..MaxSweeps
    BY <2>1 DEF SweepInv, SweepShape, SweepTyped
  <2> QED BY <2>2, CellTypes DEF SweepInv, SweepShape, SweepTyped, TypeOK
<1> QED
  BY <1>1, <1>2, <1>3, CellInvariant, SweepInvariant, PTL DEF Spec

=============================================================================
