---------------------------- MODULE EvalRunnerProofs ---------------------------
(***************************************************************************)
(* What run_eval.py keeps whatever the plan, the limits and the number of  *)
(* kills and resumed runs: proofs about EvalRunner for every value of its  *)
(* constants.                                                              *)
(***************************************************************************)
EXTENDS EvalRunner, FiniteSetTheorems, TLAPS

-----------------------------------------------------------------------------
(* Lemmas on the operators. *)

(* The items are finitely many, and so are those with a task. *)
LEMMA TasksFinite == IsFiniteSet(Item) /\ IsFiniteSet(Tasks)
<1>1. IsFiniteSet(Item)
  BY PlanAssumption, FS_Interval DEF Item
<1>2. Tasks \in SUBSET Item
  BY DEF Tasks
<1> QED
  BY <1>1, <1>2, FS_Subset

(* A result built from a well-typed state of a started run is well-typed. *)
LEMMA BuildResultType ==
    ASSUME TypeOK, run >= 1, NEW p \in BOOLEAN
    PROVE  BuildResult(p) \in ResultType
<1>1. run \in 1..MaxRuns
  BY BoundAssumption DEF TypeOK
<1> DEFINE t == \/ skipped # {}
                \/ \E i \in Item : records[i] = "cancelled"
                \/ interrupted
           errors == {i \in Item : records[i] = "error"}
           v == /\ Attempted # {}
                /\ 20 * Cardinality(errors) <= Cardinality(Attempted)
<1>2. t \in BOOLEAN /\ v \in BOOLEAN
  BY DEF TypeOK
<1>3. records \in [Item -> Status \cup {"none"}] /\ skipped \in SUBSET Item
  BY DEF TypeOK
<1>4. BuildResult(p) = [run |-> run, partial |-> p, truncated |-> t, valid |-> v,
                        records |-> records, skipped |-> skipped]
  BY DEF BuildResult
<1> HIDE DEF t, v
<1> QED
  BY <1>1, <1>2, <1>3, <1>4 DEF ResultType

(* With one line per item, the line a resumed run keeps is a line of the   *)
(* file, of that item, and not of a failed attempt.                        *)
LEMMA LastLineKept ==
    ASSUME OneLinePerItem, file \subseteq Line, NEW i \in Item, KeptLines(i) # {}
    PROVE  LastLine(i) \in KeptLines(i)
<1>1. PICK l \in KeptLines(i) : TRUE
  OBVIOUS
<1>2. \A m \in KeptLines(i) : m = l
  BY <1>1 DEF KeptLines, OneLinePerItem
<1>3. l.run <= l.run
  BY <1>1, BoundAssumption DEF KeptLines, Line
<1>4. \A m \in KeptLines(i) : m.run <= l.run
  BY <1>2, <1>3
<1> QED
  BY <1>1, <1>4 DEF LastLine

-----------------------------------------------------------------------------
(* The initial states. *)

LEMMA InitIInv == Init => IInv
<1> SUFFICES ASSUME Init PROVE IInv
  OBVIOUS
<1> USE DEF Init
<1>1. TypeOK
  <2>1. next \in 1..(NItems + 1) /\ slots \in Nat /\ 0 \in 0..MaxTime /\ run \in 0..MaxRuns
    BY PlanAssumption, LimitAssumption, BoundAssumption
  <2>5. lastPartial \in 0..Never
    BY BoundAssumption DEF Never
  <2>2. <<>> \in Seq(Int)
    OBVIOUS
  <2>3. itemTimes \in [Family -> Seq(Int)]
    BY <2>2
  <2>4. pc \in PCs /\ exit \in ExitCode /\ tail \in {"clean", "fragment", "broken"}
    BY DEF PCs, ExitCode
  <2> QED
    BY <2>1, <2>3, <2>4, <2>5 DEF TypeOK
<1>2. OffIsBlank /\ PcTellsProgress /\ TaskHasRecord /\ TailClean
  BY DEF OffIsBlank, PcTellsProgress, TaskHasRecord, TailClean
<1>3. PlanCovered /\ SkippedIsTail
  BY PlanAssumption DEF PlanCovered, SkippedIsTail, Item
<1>4. SlotConservation /\ CompleteMeansAll /\ OneLinePerItem /\ FileAgrees
  BY DEF SlotConservation, CompleteMeansAll, OneLinePerItem, FileAgrees, Active, Suspended
<1> QED
  BY <1>1, <1>2, <1>3, <1>4 DEF IInv

-----------------------------------------------------------------------------
(* A process starts. *)

(* A start that leaves one well-formed line per item it resumes, and the   *)
(* records of these, establishes the invariant of a running process.       *)
LEMMA FreshProcessInv ==
    ASSUME IInv, FreshProcess, UNCHANGED json,
           tail' = "clean", file' \subseteq Line, OneLinePerItem',
           resumed' \subseteq Item,
           records' \in [Item -> Status \cup {"none"}],
           \A i \in Item : i \in resumed' <=> records'[i] # "none",
           \A i \in resumed' : records'[i] \in Status \ Failed,
           \A l \in file' : records'[l.id] = l.status,
           \A i \in resumed' : \E l \in file' : l.id = i
    PROVE  IInv'
<1> USE DEF FreshProcess
<1>1. TypeOK'
  BY BoundAssumption DEF IInv, TypeOK, PCs, Active, ExitCode
<1>2. OffIsBlank' /\ TailClean' /\ TaskHasRecord'
  BY DEF IInv, OffIsBlank, TailClean, TaskHasRecord
<1>3. PcTellsProgress'
  BY DEF IInv, TypeOK, PcTellsProgress, OffIsBlank
<1>4. PlanCovered' /\ SkippedIsTail'
  BY PlanAssumption DEF IInv, OffIsBlank, PlanCovered, SkippedIsTail, Item
<1>5. SlotConservation'
  <2>1. Tasks' = {} /\ slots' = Concurrency
    BY DEF IInv, OffIsBlank, Tasks
  <2> QED
    BY <2>1, FS_EmptySet, LimitAssumption DEF SlotConservation
<1>6. CompleteMeansAll' /\ FileAgrees'
  BY DEF IInv, CompleteMeansAll, FileAgrees, Attempted
<1> QED
  BY <1>1, <1>2, <1>3, <1>4, <1>5, <1>6 DEF IInv

LEMMA StartFreshInv == IInv /\ StartFresh => IInv'
<1> SUFFICES ASSUME IInv, StartFresh PROVE IInv'
  OBVIOUS
<1>1. pc = "off" /\ records' = [i \in Item |-> "none"] /\ resumed' = {}
  BY DEF IInv, OffIsBlank, StartFresh, FreshProcess
<1>2. file' = {} /\ OneLinePerItem'
  BY DEF StartFresh, OneLinePerItem
<1>3. records' \in [Item -> Status \cup {"none"}]
  BY <1>1
<1> QED
  BY <1>1, <1>2, <1>3, FreshProcessInv DEF StartFresh

LEMMA StartResumeInv == IInv /\ StartResume => IInv'
<1> SUFFICES ASSUME IInv, StartResume PROVE IInv'
  OBVIOUS
<1>1. \A i \in resumed' : LastLine(i) \in file /\ LastLine(i).id = i
                          /\ LastLine(i).status \in Status \ Failed
  <2> SUFFICES ASSUME NEW i \in resumed'
               PROVE  LastLine(i) \in file /\ LastLine(i).id = i
                      /\ LastLine(i).status \in Status \ Failed
    OBVIOUS
  <2>1. i \in Item /\ KeptLines(i) # {}
    BY DEF StartResume
  <2>2. LastLine(i) \in KeptLines(i)
    BY <2>1, LastLineKept DEF IInv, TypeOK
  <2>3. KeptLines(i) \subseteq Line
    BY DEF IInv, TypeOK, KeptLines
  <2> QED
    BY <2>2, <2>3 DEF KeptLines, Line
<1>2. file' = {LastLine(i) : i \in resumed'} /\ resumed' = {i \in Item : KeptLines(i) # {}}
  BY DEF StartResume
<1>3. file' \subseteq Line
  BY <1>1, <1>2 DEF IInv, TypeOK
<1>4. OneLinePerItem'
  BY <1>1, <1>2 DEF IInv, OneLinePerItem
<1>5. \A i \in Item : records'[i] = IF i \in resumed' THEN LastLine(i).status ELSE "none"
  BY <1>2 DEF StartResume
<1>6. records' \in [Item -> Status \cup {"none"}]
  <2>1. records' = [i \in Item |-> IF KeptLines(i) # {} THEN LastLine(i).status ELSE "none"]
    BY DEF StartResume
  <2>2. \A i \in Item : (IF KeptLines(i) # {} THEN LastLine(i).status ELSE "none")
                          \in Status \cup {"none"}
    BY <1>1, <1>2
  <2> QED
    BY <2>1, <2>2
<1>7. /\ \A i \in Item : i \in resumed' <=> records'[i] # "none"
      /\ \A i \in resumed' : records'[i] \in Status \ Failed
  BY <1>1, <1>2, <1>5 DEF Status
<1>8. /\ \A l \in file' : records'[l.id] = l.status
      /\ \A i \in resumed' : \E l \in file' : l.id = i
  BY <1>1, <1>2, <1>5
<1> QED
  BY <1>2, <1>3, <1>4, <1>6, <1>7, <1>8, FreshProcessInv DEF StartResume

(* The starts that launch nothing leave the results alone and report it. *)
LEMMA StartRefusedInv == IInv /\ (ResumeRefused \/ StartFails) => IInv'
<1> SUFFICES ASSUME IInv, ResumeRefused \/ StartFails PROVE IInv'
  OBVIOUS
<1>0. /\ pc = "off" /\ run < MaxRuns /\ run' = run + 1 /\ exit' \in {1, 2, 3}
      /\ UNCHANGED <<pc, next, slots, task, startedAt, records, resumed, blocked,
                     skipped, itemTimes, interrupted, lastPartial, now,
                     unwritten, file, tail, json>>
  BY DEF ResumeRefused, StartFails
<1>1. TypeOK'
  BY <1>0, BoundAssumption DEF IInv, TypeOK, ExitCode
<1>2. OffIsBlank' /\ PcTellsProgress' /\ TaskHasRecord' /\ TailClean'
  BY <1>0 DEF IInv, OffIsBlank, PcTellsProgress, TaskHasRecord, TailClean, Running
<1>3. PlanCovered' /\ SkippedIsTail'
  BY <1>0 DEF IInv, PlanCovered, SkippedIsTail
<1>4. SlotConservation' /\ CompleteMeansAll' /\ OneLinePerItem' /\ FileAgrees'
  BY <1>0 DEF IInv, SlotConservation, CompleteMeansAll, OneLinePerItem, FileAgrees,
              Active, Suspended
<1> QED
  BY <1>1, <1>2, <1>3, <1>4 DEF IInv

-----------------------------------------------------------------------------
(* The dispatcher. *)

(* A resumed item is passed over. *)
LEMMA SkipResumedInv == IInv /\ SkipResumed => IInv'
<1> SUFFICES ASSUME IInv, SkipResumed PROVE IInv'
  OBVIOUS
<1>1. TypeOK'
  BY PlanAssumption, BoundAssumption
     DEF IInv, SkipResumed, Pass, diskVars, TypeOK, PCs, Active, Suspended
<1>2. OffIsBlank' /\ PcTellsProgress' /\ TaskHasRecord' /\ TailClean'
  BY DEF IInv, SkipResumed, Pass, diskVars, OffIsBlank, PcTellsProgress, TypeOK,
         Running, TaskHasRecord, TailClean
<1>3. PlanCovered'
  BY PlanAssumption
     DEF IInv, SkipResumed, Pass, diskVars, PlanCovered, TypeOK, Item, Status, Failed
<1>4. SkippedIsTail'
  BY PlanAssumption DEF IInv, SkipResumed, Pass, diskVars, SkippedIsTail, TypeOK, Item
<1>5. SlotConservation'
  BY DEF IInv, SkipResumed, Pass, diskVars, SlotConservation, Tasks, Active, Suspended
<1>6. CompleteMeansAll' /\ OneLinePerItem' /\ FileAgrees'
  BY DEF IInv, SkipResumed, Pass, diskVars, CompleteMeansAll, OneLinePerItem,
         FileAgrees, Attempted
<1> QED
  BY <1>1, <1>2, <1>3, <1>4, <1>5, <1>6 DEF IInv

(* The dispatcher goes to wait for a slot. *)
LEMMA AwaitSlotInv == IInv /\ AwaitSlot => IInv'
<1> SUFFICES ASSUME IInv, AwaitSlot PROVE IInv'
  OBVIOUS
<1>1. TypeOK'
  BY PlanAssumption, BoundAssumption
     DEF IInv, AwaitSlot, Dispatchable, diskVars, TypeOK, PCs, Active, Suspended
<1>2. OffIsBlank' /\ PcTellsProgress' /\ TaskHasRecord' /\ TailClean'
  BY DEF IInv, AwaitSlot, Dispatchable, diskVars, OffIsBlank, PcTellsProgress,
         TypeOK, Running, TaskHasRecord, TailClean
<1>3. PlanCovered'
  BY PlanAssumption
     DEF IInv, AwaitSlot, Dispatchable, diskVars, PlanCovered, TypeOK, Item, Status,
         Failed
<1>4. SkippedIsTail'
  BY PlanAssumption
     DEF IInv, AwaitSlot, Dispatchable, diskVars, SkippedIsTail, TypeOK, Item
<1>5. SlotConservation'
  BY DEF IInv, AwaitSlot, Dispatchable, diskVars, SlotConservation, Tasks, Active,
         Suspended
<1>6. CompleteMeansAll' /\ OneLinePerItem' /\ FileAgrees'
  BY DEF IInv, AwaitSlot, Dispatchable, diskVars, CompleteMeansAll, OneLinePerItem,
         FileAgrees, Attempted
<1> QED
  BY <1>1, <1>2, <1>3, <1>4, <1>5, <1>6 DEF IInv

(* The plan is dispatched. *)
LEMMA DispatchDoneInv == IInv /\ DispatchDone => IInv'
<1> SUFFICES ASSUME IInv, DispatchDone PROVE IInv'
  OBVIOUS
<1>1. TypeOK'
  BY PlanAssumption, BoundAssumption
     DEF IInv, DispatchDone, diskVars, TypeOK, PCs, Active, Suspended
<1>2. OffIsBlank' /\ PcTellsProgress' /\ TaskHasRecord' /\ TailClean'
  BY PlanAssumption
     DEF IInv, DispatchDone, diskVars, OffIsBlank, PcTellsProgress, TypeOK, Running,
         TaskHasRecord, TailClean
<1>3. PlanCovered'
  BY PlanAssumption
     DEF IInv, DispatchDone, diskVars, PlanCovered, TypeOK, Item, Status, Failed
<1>4. SkippedIsTail'
  BY PlanAssumption DEF IInv, DispatchDone, diskVars, SkippedIsTail, TypeOK, Item
<1>5. SlotConservation'
  BY DEF IInv, DispatchDone, diskVars, SlotConservation, Tasks, Active, Suspended
<1>6. CompleteMeansAll' /\ OneLinePerItem' /\ FileAgrees'
  BY DEF IInv, DispatchDone, diskVars, CompleteMeansAll, OneLinePerItem, FileAgrees,
         Attempted
<1> QED
  BY <1>1, <1>2, <1>3, <1>4, <1>5, <1>6 DEF IInv

(* The ways to skip an item do the same to the plan: its family is blocked *)
(* from here on, the item was not launched and nothing behind it was.      *)
LEMMA BlockAndSkipInv ==
    ASSUME IInv, BlockAndSkip, pc \in {"next", "acquire"}, next <= NItems,
           next \notin resumed
    PROVE  IInv'
<1> USE DEF BlockAndSkip, Pass, diskVars
<1>1. next \in Item /\ FamilyOf[next] \in Family
  BY PlanAssumption DEF IInv, TypeOK, Item
<1>2. TypeOK'
  <2>1. next' \in 1..(NItems + 1) /\ pc' \in PCs
    BY <1>1, PlanAssumption DEF PCs, Active, Item
  <2>2. skipped' \subseteq Item /\ blocked' \subseteq Family
    BY <1>1 DEF IInv, TypeOK
  <2> QED
    BY <2>1, <2>2 DEF IInv, TypeOK
<1>3. OffIsBlank' /\ PcTellsProgress' /\ TaskHasRecord' /\ TailClean'
  BY DEF IInv, OffIsBlank, PcTellsProgress, TaskHasRecord, TailClean
<1>4. PlanCovered'
  <2>1. task[next] = "none" /\ records[next] = "none"
    BY <1>1 DEF IInv, TypeOK, PlanCovered
  <2> QED
    BY <1>1, <2>1 DEF IInv, TypeOK, PlanCovered, Item
<1>5. SkippedIsTail'
  BY <1>1 DEF IInv, TypeOK, SkippedIsTail, PlanCovered, Item
<1>6. SlotConservation'
  BY DEF IInv, SlotConservation, Tasks, Active, Suspended
<1>7. CompleteMeansAll' /\ OneLinePerItem' /\ FileAgrees'
  BY DEF IInv, CompleteMeansAll, OneLinePerItem, FileAgrees, Attempted
<1> QED
  BY <1>2, <1>3, <1>4, <1>5, <1>6, <1>7 DEF IInv

(* The four ways to skip an item. *)
LEMMA BlockInv ==
    ASSUME IInv,
           SkipBlocked \/ SkipPastDeadline \/ AcquireTimeout \/ BlockFamily
    PROVE  IInv'
<1>1. pc \in {"next", "acquire"} /\ next <= NItems /\ next \notin resumed
  BY DEF IInv, PcTellsProgress, SkipBlocked, SkipPastDeadline, Dispatchable,
         AcquireTimeout, BlockFamily
<1>2. CASE SkipBlocked
  <2>1. blocked \cup {FamilyOf[next]} = blocked
    BY <1>2 DEF SkipBlocked
  <2>2. BlockAndSkip
    BY <1>2, <2>1 DEF SkipBlocked, BlockAndSkip
  <2> QED
    BY <1>1, <2>2, BlockAndSkipInv
<1>3. CASE SkipPastDeadline \/ AcquireTimeout \/ BlockFamily
  BY <1>1, <1>3, BlockAndSkipInv DEF SkipPastDeadline, AcquireTimeout, BlockFamily
<1> QED
  BY <1>2, <1>3

(* An item is launched: it takes a slot, and its family is not blocked. *)
LEMMA LaunchInv == IInv /\ Launch => IInv'
<1> SUFFICES ASSUME IInv, Launch PROVE IInv'
  OBVIOUS
<1> USE DEF Launch, Pass, diskVars
<1>1. /\ next \in Item /\ next \notin resumed
      /\ FamilyOf[next] \in Family \ blocked
      /\ task[next] = "none" /\ records[next] = "none" /\ next \notin skipped
  BY PlanAssumption DEF IInv, TypeOK, PcTellsProgress, PlanCovered, Item
<1>2. TypeOK'
  <2>1. slots' \in Nat /\ next' \in 1..(NItems + 1) /\ pc' \in PCs
    BY <1>1, PlanAssumption DEF IInv, TypeOK, PCs, Active, Item
  <2>2. task' \in [Item -> {"none", "running", "done"}]
    BY <1>1 DEF IInv, TypeOK
  <2>3. startedAt' \in [Item -> 0..MaxTime]
    BY <1>1 DEF IInv, TypeOK
  <2> QED
    BY <2>1, <2>2, <2>3 DEF IInv, TypeOK
<1>3. OffIsBlank' /\ PcTellsProgress' /\ TailClean'
  BY DEF IInv, OffIsBlank, PcTellsProgress, TailClean
<1>4. TaskHasRecord'
  BY <1>1 DEF IInv, TypeOK, TaskHasRecord
<1>5. PlanCovered'
  BY <1>1 DEF IInv, TypeOK, PlanCovered, Item
<1>6. SkippedIsTail'
  <2> SUFFICES ASSUME NEW i \in skipped, NEW j \in Item,
                      i < j, FamilyOf[j] = FamilyOf[i],
                      task'[j] = "running" \/ records'[j] # "none"
               PROVE  FamilyOf[i] \in blocked /\ j \in resumed
    BY DEF IInv, SkippedIsTail
  <2>1. FamilyOf[i] \in blocked
    BY DEF IInv, SkippedIsTail
  <2>2. j # next
    BY <1>1, <2>1
  <2>3. task[j] = "running" \/ records[j] # "none"
    BY <1>1, <2>2 DEF IInv, TypeOK
  <2> QED
    BY <2>1, <2>3 DEF IInv, SkippedIsTail
<1>7. SlotConservation'
  <2>1. Tasks' = Tasks \cup {next} /\ next \notin Tasks
    BY <1>1 DEF IInv, TypeOK, Tasks
  <2>2. Cardinality(Tasks') = Cardinality(Tasks) + 1
    BY <2>1, TasksFinite, FS_AddElement
  <2>3. Cardinality(Tasks) \in Nat
    BY TasksFinite, FS_CardinalityType
  <2> QED
    BY <2>2, <2>3, LimitAssumption
       DEF IInv, TypeOK, SlotConservation, Active, Suspended
<1>8. CompleteMeansAll' /\ OneLinePerItem' /\ FileAgrees'
  BY DEF IInv, CompleteMeansAll, OneLinePerItem, FileAgrees, Attempted
<1> QED
  BY <1>2, <1>3, <1>4, <1>5, <1>6, <1>7, <1>8 DEF IInv

-----------------------------------------------------------------------------
(* The tasks. *)

(* A task that ends, by itself or cancelled, leaves one record and at most *)
(* one line.                                                               *)
LEMMA RecordInv ==
    ASSUME IInv, pc \in Suspended, NEW i \in Item, NEW status \in Status,
           task[i] = "running", FinishRecord(i, status), AppendLine(i, status)
    PROVE  IInv'
<1> USE DEF FinishRecord
<1>1. records[i] = "none" /\ i \notin resumed /\ i \notin skipped
  BY DEF IInv, TaskHasRecord, PlanCovered, Status
<1>2. \A l \in file : l.id # i
  <2> SUFFICES ASSUME NEW l \in file, l.id = i PROVE FALSE
    OBVIOUS
  <2>1. l.status = "none"
    BY <1>1 DEF IInv, FileAgrees, Suspended
  <2>2. l.status \in Status
    BY DEF IInv, TypeOK, Line
  <2> QED
    BY <2>1, <2>2 DEF Status
<1>3. file' \subseteq file \cup {[id |-> i, status |-> status, run |-> run]}
      /\ file \subseteq file'
  BY DEF AppendLine
<1>4. TypeOK'
  <2>1. task' \in [Item -> {"none", "running", "done"}]
        /\ records' \in [Item -> Status \cup {"none"}]
    BY DEF IInv, TypeOK
  <2>2. startedAt' \in [Item -> 0..MaxTime]
    BY BoundAssumption DEF IInv, TypeOK
  <2>3. itemTimes' \in [Family -> Seq(Int)]
    <3>1. now - startedAt[i] \in Int
      BY DEF IInv, TypeOK
    <3>2. itemTimes[FamilyOf[i]] \in Seq(Int)
      BY PlanAssumption DEF IInv, TypeOK
    <3>3. Append(itemTimes[FamilyOf[i]], now - startedAt[i]) \in Seq(Int)
      BY <3>1, <3>2
    <3> QED
      BY <3>3 DEF IInv, TypeOK
  <2>4. file' \subseteq Line
    BY <1>3, BoundAssumption DEF IInv, TypeOK, PcTellsProgress, Line, Suspended
  <2>5. tail' \in {"clean", "fragment", "broken"} /\ unwritten' \subseteq Item
    BY DEF IInv, TypeOK, AppendLine
  <2> QED
    BY <2>1, <2>2, <2>3, <2>4, <2>5 DEF IInv, TypeOK
<1>5. OffIsBlank' /\ PcTellsProgress'
  BY DEF IInv, TypeOK, OffIsBlank, PcTellsProgress, Suspended
<1>6. TaskHasRecord'
  BY DEF IInv, TypeOK, TaskHasRecord, Status
<1>7. PlanCovered'
  BY <1>1 DEF IInv, TypeOK, PlanCovered, Status
<1>8. SkippedIsTail'
  BY <1>1 DEF IInv, TypeOK, SkippedIsTail
<1>9. TailClean'
  <2>1. records'[i] # "none" /\ \A j \in Item \ {i} : records'[j] = records[j]
    BY DEF IInv, TypeOK, Status
  <2>2. CASE file' = file /\ unwritten' = unwritten \cup {i}
    BY <1>2, <2>1, <2>2 DEF IInv, TypeOK, TailClean
  <2>3. CASE /\ file' = file \cup {[id |-> i, status |-> status, run |-> run]}
             /\ UNCHANGED <<tail, unwritten>>
    <3>1. i \notin unwritten
      BY <1>1 DEF IInv, TailClean
    <3> QED
      BY <2>1, <2>3, <3>1 DEF IInv, TypeOK, TailClean, Suspended
  <2> QED
    BY <2>2, <2>3 DEF AppendLine
<1>10. SlotConservation'
  <2>1. Tasks' = Tasks
    BY DEF IInv, TypeOK, Tasks
  <2> QED
    BY <2>1 DEF IInv, SlotConservation
<1>11. CompleteMeansAll'
  BY DEF IInv, CompleteMeansAll, Suspended
<1>12. OneLinePerItem'
  BY <1>2, <1>3 DEF IInv, OneLinePerItem
<1>13. FileAgrees'
  <2>1. \A l \in file' : records'[l.id] = l.status
    BY <1>2, <1>3 DEF IInv, TypeOK, FileAgrees, Suspended, Line
  <2>2. i \notin unwritten' => [id |-> i, status |-> status, run |-> run] \in file'
    BY DEF AppendLine
  <2>3. \A j \in Attempted' \ unwritten' : \E l \in file' : l.id = j
    <3> SUFFICES ASSUME NEW j \in Attempted' \ unwritten'
                 PROVE  \E l \in file' : l.id = j
      OBVIOUS
    <3>1. CASE j = i
      BY <2>2, <3>1
    <3>2. CASE j # i
      <4>1. unwritten \subseteq unwritten'
        BY DEF AppendLine
      <4> QED
        BY <1>3, <3>2, <4>1 DEF IInv, TypeOK, FileAgrees, Attempted, Suspended
    <3> QED
      BY <3>1, <3>2
  <2> QED
    BY <2>1, <2>3 DEF FileAgrees
<1> QED
  BY <1>4, <1>5, <1>6, <1>7, <1>8, <1>9, <1>10, <1>11, <1>12, <1>13 DEF IInv

(* The done callback gives the slot back once. *)
LEMMA ReleaseInv == ASSUME NEW i \in Item PROVE IInv /\ Release(i) => IInv'
<1> SUFFICES ASSUME IInv, Release(i) PROVE IInv'
  OBVIOUS
<1> USE DEF Release, diskVars
<1>1. TypeOK'
  BY DEF IInv, TypeOK
<1>2. OffIsBlank' /\ PcTellsProgress' /\ TaskHasRecord' /\ TailClean'
  BY DEF IInv, TypeOK, OffIsBlank, PcTellsProgress, TaskHasRecord, TailClean, Suspended
<1>3. PlanCovered' /\ SkippedIsTail'
  BY DEF IInv, TypeOK, TaskHasRecord, PlanCovered, SkippedIsTail
<1>4. SlotConservation'
  <2>1. Tasks' = Tasks \ {i} /\ i \in Tasks
    BY DEF IInv, TypeOK, Tasks
  <2>2. Cardinality(Tasks') = Cardinality(Tasks) - 1
    BY <2>1, TasksFinite, FS_RemoveElement
  <2>3. Cardinality(Tasks) \in Nat
    BY TasksFinite, FS_CardinalityType
  <2> QED
    BY <2>2, <2>3, LimitAssumption DEF IInv, TypeOK, SlotConservation, Active
<1>5. CompleteMeansAll' /\ OneLinePerItem' /\ FileAgrees'
  BY DEF IInv, CompleteMeansAll, OneLinePerItem, FileAgrees, Attempted, Suspended
<1> QED
  BY <1>1, <1>2, <1>3, <1>4, <1>5 DEF IInv

-----------------------------------------------------------------------------
(* The end of a run. *)

(* Every task has ended by itself. *)
LEMMA DrainDoneInv == IInv /\ DrainDone => IInv'
<1> SUFFICES ASSUME IInv, DrainDone PROVE IInv'
  OBVIOUS
<1>1. TypeOK'
  BY PlanAssumption, BoundAssumption
     DEF IInv, DrainDone, Tasks, diskVars, TypeOK, PCs, Active, Suspended
<1>2. OffIsBlank' /\ PcTellsProgress' /\ TaskHasRecord' /\ TailClean'
  BY DEF IInv, DrainDone, Tasks, diskVars, OffIsBlank, PcTellsProgress, TypeOK,
         Running, TaskHasRecord, TailClean
<1>3. PlanCovered'
  BY PlanAssumption
     DEF IInv, DrainDone, Tasks, diskVars, PlanCovered, TypeOK, Item, Status, Failed
<1>4. SkippedIsTail'
  BY PlanAssumption DEF IInv, DrainDone, Tasks, diskVars, SkippedIsTail, TypeOK, Item
<1>5. SlotConservation'
  BY DEF IInv, DrainDone, Tasks, diskVars, SlotConservation, Active, Suspended
<1>6. CompleteMeansAll' /\ OneLinePerItem' /\ FileAgrees'
  BY DEF IInv, DrainDone, Tasks, diskVars, CompleteMeansAll, OneLinePerItem,
         FileAgrees, Attempted
<1> QED
  BY <1>1, <1>2, <1>3, <1>4, <1>5, <1>6 DEF IInv

(* The grace period is over. *)
LEMMA GraceOverInv == IInv /\ GraceOver => IInv'
<1> SUFFICES ASSUME IInv, GraceOver PROVE IInv'
  OBVIOUS
<1>1. TypeOK'
  BY PlanAssumption, BoundAssumption
     DEF IInv, GraceOver, diskVars, TypeOK, PCs, Active, Suspended
<1>2. OffIsBlank' /\ PcTellsProgress' /\ TaskHasRecord' /\ TailClean'
  BY DEF IInv, GraceOver, diskVars, OffIsBlank, PcTellsProgress, TypeOK, Running,
         TaskHasRecord, TailClean
<1>3. PlanCovered'
  BY PlanAssumption
     DEF IInv, GraceOver, diskVars, PlanCovered, TypeOK, Item, Status, Failed
<1>4. SkippedIsTail'
  BY PlanAssumption DEF IInv, GraceOver, diskVars, SkippedIsTail, TypeOK, Item
<1>5. SlotConservation'
  BY DEF IInv, GraceOver, diskVars, SlotConservation, Tasks, Active, Suspended
<1>6. CompleteMeansAll' /\ OneLinePerItem' /\ FileAgrees'
  BY DEF IInv, GraceOver, diskVars, CompleteMeansAll, OneLinePerItem, FileAgrees,
         Attempted
<1> QED
  BY <1>1, <1>2, <1>3, <1>4, <1>5, <1>6 DEF IInv

(* SIGINT at an await. *)
LEMMA InterruptInv == IInv /\ Interrupt => IInv'
<1> SUFFICES ASSUME IInv, Interrupt PROVE IInv'
  OBVIOUS
<1>1. TypeOK'
  BY PlanAssumption, BoundAssumption
     DEF IInv, Interrupt, diskVars, TypeOK, PCs, Active, Suspended
<1>2. OffIsBlank' /\ PcTellsProgress' /\ TaskHasRecord' /\ TailClean'
  BY DEF IInv, Interrupt, diskVars, OffIsBlank, PcTellsProgress, TypeOK, Running,
         TaskHasRecord, TailClean, Suspended
<1>3. PlanCovered'
  BY PlanAssumption
     DEF IInv, Interrupt, diskVars, PlanCovered, TypeOK, Item, Status, Failed
<1>4. SkippedIsTail'
  BY PlanAssumption DEF IInv, Interrupt, diskVars, SkippedIsTail, TypeOK, Item
<1>5. SlotConservation'
  BY DEF IInv, Interrupt, diskVars, SlotConservation, Tasks, Active, Suspended
<1>6. CompleteMeansAll' /\ OneLinePerItem' /\ FileAgrees'
  BY DEF IInv, Interrupt, diskVars, CompleteMeansAll, OneLinePerItem, FileAgrees,
         Attempted, Suspended
<1> QED
  BY <1>1, <1>2, <1>3, <1>4, <1>5, <1>6 DEF IInv

(* Every cancelled task has written its record. *)
LEMMA CancelDoneInv == IInv /\ CancelDone => IInv'
<1> SUFFICES ASSUME IInv, CancelDone PROVE IInv'
  OBVIOUS
<1>1. TypeOK'
  BY PlanAssumption, BoundAssumption
     DEF IInv, CancelDone, diskVars, TypeOK, PCs, Active, Suspended
<1>2. OffIsBlank' /\ PcTellsProgress' /\ TaskHasRecord' /\ TailClean'
  BY DEF IInv, CancelDone, diskVars, OffIsBlank, PcTellsProgress, TypeOK, Running,
         TaskHasRecord, TailClean
<1>3. PlanCovered'
  BY PlanAssumption
     DEF IInv, CancelDone, diskVars, PlanCovered, TypeOK, Item, Status, Failed
<1>4. SkippedIsTail'
  BY PlanAssumption DEF IInv, CancelDone, diskVars, SkippedIsTail, TypeOK, Item
<1>5. SlotConservation'
  BY DEF IInv, CancelDone, diskVars, SlotConservation, Tasks, Active, Suspended
<1>6. CompleteMeansAll' /\ OneLinePerItem' /\ FileAgrees'
  BY DEF IInv, CancelDone, diskVars, CompleteMeansAll, OneLinePerItem, FileAgrees,
         Attempted
<1> QED
  BY <1>1, <1>2, <1>3, <1>4, <1>5, <1>6 DEF IInv

(* Time passes. *)
LEMMA TickInv == IInv /\ Tick => IInv'
<1> SUFFICES ASSUME IInv, Tick PROVE IInv'
  OBVIOUS
<1>1. TypeOK'
  BY PlanAssumption, BoundAssumption
     DEF IInv, Tick, diskVars, TypeOK, PCs, Active, Suspended
<1>2. OffIsBlank' /\ PcTellsProgress' /\ TaskHasRecord' /\ TailClean'
  BY DEF IInv, Tick, diskVars, OffIsBlank, PcTellsProgress, TypeOK, Running,
         TaskHasRecord, TailClean, Suspended
<1>3. PlanCovered'
  BY PlanAssumption DEF IInv, Tick, diskVars, PlanCovered, TypeOK, Item, Status, Failed
<1>4. SkippedIsTail'
  BY PlanAssumption DEF IInv, Tick, diskVars, SkippedIsTail, TypeOK, Item
<1>5. SlotConservation'
  BY DEF IInv, Tick, diskVars, SlotConservation, Tasks, Active, Suspended
<1>6. CompleteMeansAll' /\ OneLinePerItem' /\ FileAgrees'
  BY DEF IInv, Tick, diskVars, CompleteMeansAll, OneLinePerItem, FileAgrees,
         Attempted, Suspended
<1> QED
  BY <1>1, <1>2, <1>3, <1>4, <1>5, <1>6 DEF IInv

(* The progress task ends: no checkpoint is due any more. *)
LEMMA ProgressDiesInv == IInv /\ ProgressDies => IInv'
<1> SUFFICES ASSUME IInv, ProgressDies PROVE IInv'
  OBVIOUS
<1> USE DEF ProgressDies, diskVars
<1>1. TypeOK'
  BY BoundAssumption DEF IInv, TypeOK, Never
<1>2. OffIsBlank' /\ TaskHasRecord' /\ TailClean'
  BY DEF IInv, OffIsBlank, TaskHasRecord, TailClean, Suspended
<1>3. PcTellsProgress'
  BY DEF IInv, PcTellsProgress, Running, Suspended
<1>4. PlanCovered' /\ SkippedIsTail' /\ SlotConservation'
  BY DEF IInv, PlanCovered, SkippedIsTail, SlotConservation, Tasks
<1>5. CompleteMeansAll' /\ OneLinePerItem' /\ FileAgrees'
  BY DEF IInv, CompleteMeansAll, OneLinePerItem, FileAgrees, Attempted
<1> QED
  BY <1>1, <1>2, <1>3, <1>4, <1>5 DEF IInv

(* A checkpoint is partial: it promises nothing about the plan.            *)
LEMMA CheckpointInv == IInv /\ Checkpoint => IInv'
<1> SUFFICES ASSUME IInv, Checkpoint PROVE IInv'
  OBVIOUS
<1> USE DEF Checkpoint
<1>1. BuildResult(TRUE) \in ResultType
  BY BuildResultType DEF IInv, PcTellsProgress, Suspended
<1>2. TypeOK'
  <2>1. now \in 0..Never
    BY BoundAssumption DEF IInv, TypeOK, Never
  <2> QED
    BY <1>1, <2>1 DEF IInv, TypeOK
<1>3. OffIsBlank' /\ PcTellsProgress' /\ TaskHasRecord' /\ TailClean'
  BY DEF IInv, TypeOK, OffIsBlank, PcTellsProgress, TaskHasRecord, TailClean,
         Running, Suspended
<1>4. PlanCovered' /\ SkippedIsTail'
  BY DEF IInv, PlanCovered, SkippedIsTail
<1>5. CompleteMeansAll'
  <2>1. BuildResult(TRUE).partial
    BY DEF BuildResult
  <2> QED
    BY <2>1 DEF IInv, CompleteMeansAll, Suspended
<1>6. SlotConservation' /\ OneLinePerItem' /\ FileAgrees'
  BY DEF IInv, SlotConservation, Tasks, OneLinePerItem, FileAgrees, Attempted
<1> QED
  BY <1>2, <1>3, <1>4, <1>5, <1>6 DEF IInv

(* The final result is complete, or it says that it is not. *)
LEMMA PublishInv == IInv /\ Publish => IInv'
<1> SUFFICES ASSUME IInv, Publish PROVE IInv'
  OBVIOUS
<1> USE DEF Publish
<1>0. interrupted \in BOOLEAN
  BY DEF IInv, TypeOK
<1>1. BuildResult(interrupted) \in ResultType
  BY <1>0, BuildResultType DEF IInv, PcTellsProgress
<1>2. TypeOK'
  BY <1>1 DEF IInv, TypeOK, PCs
<1>3. BuildResult(interrupted)' = BuildResult(interrupted)
  BY DEF BuildResult, Attempted
<1>4. PcTellsProgress'
  BY <1>3 DEF IInv, TypeOK, PcTellsProgress, Running
<1>5. OffIsBlank' /\ TaskHasRecord' /\ TailClean'
  BY DEF IInv, OffIsBlank, TaskHasRecord, TailClean
<1>6. PlanCovered' /\ SkippedIsTail'
  BY DEF IInv, PlanCovered, SkippedIsTail
<1>7. CompleteMeansAll'
  <2> DEFINE r == BuildResult(interrupted)
  <2>1. /\ r.partial = interrupted
        /\ r.truncated <=> \/ skipped # {}
                           \/ \E i \in Item : records[i] = "cancelled"
                           \/ interrupted
        /\ r.records = records
    BY DEF BuildResult
  <2>2. ASSUME ~interrupted, skipped = {}, NEW i \in Item, records[i] # "cancelled"
        PROVE  records[i] \in {"scored", "error"}
    <3>1. i < next
      BY <2>2, PlanAssumption DEF IInv, PcTellsProgress, Item
    <3>2. records[i] # "none"
      BY <2>2, <3>1 DEF IInv, PlanCovered, PcTellsProgress, Running
    <3> QED
      BY <2>2, <3>2 DEF IInv, TypeOK, Status
  <2>3. ~r.partial /\ ~r.truncated => \A i \in Item : r.records[i] \in {"scored", "error"}
    BY <2>1, <2>2
  <2>4. json' = {r} /\ pc' # "off"
    OBVIOUS
  <2> HIDE DEF r
  <2> QED
    BY <2>3, <2>4 DEF CompleteMeansAll
<1>8. SlotConservation' /\ OneLinePerItem' /\ FileAgrees'
  BY DEF IInv, SlotConservation, Active, Suspended, OneLinePerItem, FileAgrees, Attempted
<1> QED
  BY <1>2, <1>4, <1>5, <1>6, <1>7, <1>8 DEF IInv

(* A process that ends leaves its files and an exit status that is 0 only  *)
(* if the result on disk is complete.                                      *)
LEMMA ProcessGoneInv ==
    ASSUME IInv, ProcessGone, UNCHANGED <<file, json>>,
           tail' \in {"clean", "fragment", "broken"},
           exit' \in ExitCode,
           exit' = 0 => \E r \in json :
                          r.run = run /\ r.valid /\ ~r.partial /\ ~r.truncated
    PROVE  IInv'
<1> USE DEF ProcessGone
<1>1. TypeOK'
  <2>1. next' \in 1..(NItems + 1) /\ slots' \in Nat /\ 0 \in 0..MaxTime
    BY PlanAssumption, LimitAssumption, BoundAssumption
  <2>4. lastPartial' \in 0..Never
    BY BoundAssumption DEF Never
  <2>2. <<>> \in Seq(Int)
    OBVIOUS
  <2>3. itemTimes' \in [Family -> Seq(Int)]
    BY <2>2
  <2> QED
    BY <2>1, <2>3, <2>4 DEF IInv, TypeOK, PCs
<1>2. OffIsBlank' /\ PcTellsProgress' /\ TaskHasRecord' /\ TailClean'
  BY DEF OffIsBlank, PcTellsProgress, TaskHasRecord, TailClean
<1>3. PlanCovered' /\ SkippedIsTail'
  BY PlanAssumption DEF PlanCovered, SkippedIsTail, Item
<1>4. SlotConservation' /\ CompleteMeansAll' /\ OneLinePerItem' /\ FileAgrees'
  BY DEF IInv, SlotConservation, CompleteMeansAll, OneLinePerItem, FileAgrees,
         Active, Suspended
<1> QED
  BY <1>1, <1>2, <1>3, <1>4 DEF IInv

LEMMA AppendTsvInv == IInv /\ AppendTsv => IInv'
<1> SUFFICES ASSUME IInv, AppendTsv PROVE IInv'
  OBVIOUS
<1> DEFINE r == BuildResult(interrupted)
<1>1. json = {r} /\ run \in 1..MaxRuns
  BY BoundAssumption DEF IInv, TypeOK, PcTellsProgress, AppendTsv
<1>2. r.run = run /\ r.partial = interrupted /\ (interrupted => r.truncated)
  BY DEF BuildResult
<1>3. exit' = IF r.valid /\ ~r.truncated THEN 0 ELSE 1
  BY DEF AppendTsv
<1>4. ProcessGone /\ UNCHANGED <<file, tail, json>>
  BY DEF AppendTsv
<1> HIDE DEF r
<1>5. exit' \in ExitCode
  BY <1>3 DEF ExitCode
<1>6. exit' = 0 => r.valid /\ ~r.truncated /\ ~r.partial
  BY <1>2, <1>3 DEF IInv, TypeOK
<1>7. tail' \in {"clean", "fragment", "broken"}
  BY <1>1, <1>4 DEF IInv, TypeOK
<1> QED
  BY <1>1, <1>2, <1>4, <1>5, <1>6, <1>7, ProcessGoneInv

(* A process that does not get to its end: killed, or its last writes fail. *)
LEMMA KillInv == IInv /\ (PublishFails \/ AppendTsvFails \/ Kill) => IInv'
<1> SUFFICES ASSUME IInv, PublishFails \/ AppendTsvFails \/ Kill PROVE IInv'
  OBVIOUS
<1>1. ProcessGone /\ UNCHANGED <<file, json>> /\ exit' \in {1, 137}
  BY DEF PublishFails, AppendTsvFails, Kill
<1>2. exit' \in ExitCode /\ exit' # 0
  BY <1>1 DEF ExitCode
<1>3. tail' \in {"clean", "fragment", "broken"}
  BY <1>1 DEF PublishFails, AppendTsvFails, Kill, IInv, TypeOK
<1> QED
  BY <1>1, <1>2, <1>3, ProcessGoneInv

LEMMA StutterInv == IInv /\ UNCHANGED vars => IInv'
<1> SUFFICES ASSUME IInv, UNCHANGED vars PROVE IInv'
  OBVIOUS
<1> USE DEF vars, procVars, diskVars
<1>1. TypeOK' /\ OffIsBlank' /\ TaskHasRecord' /\ TailClean'
  BY DEF IInv, TypeOK, OffIsBlank, TaskHasRecord, TailClean
<1>2. PcTellsProgress'
  BY DEF IInv, PcTellsProgress, Running, BuildResult, Attempted
<1>3. PlanCovered' /\ SkippedIsTail' /\ SlotConservation'
  BY DEF IInv, PlanCovered, SkippedIsTail, SlotConservation, Tasks
<1>4. CompleteMeansAll' /\ OneLinePerItem' /\ FileAgrees'
  BY DEF IInv, CompleteMeansAll, OneLinePerItem, FileAgrees, Attempted
<1> QED
  BY <1>1, <1>2, <1>3, <1>4 DEF IInv

-----------------------------------------------------------------------------
(* Every step keeps the inductive invariant. *)
LEMMA StepIInv == IInv /\ [Next]_vars => IInv'
<1> SUFFICES ASSUME IInv, [Next]_vars PROVE IInv'
  OBVIOUS
<1>1. CASE Start
  BY <1>1, StartFreshInv, StartResumeInv, StartRefusedInv DEF Start
<1>2. CASE Dispatch
  BY <1>2, SkipResumedInv, AwaitSlotInv, DispatchDoneInv, BlockInv, LaunchInv
     DEF Dispatch
<1>3. CASE EndStep
  BY <1>3, DrainDoneInv, GraceOverInv, CancelDoneInv, PublishInv, AppendTsvInv,
     KillInv DEF EndStep
<1>4. ASSUME NEW i \in Item, TaskStep(i) PROVE IInv'
  <2>1. ASSUME NEW s \in Outcome, Finish(i, s) PROVE IInv'
    <3>1. s \in Status
      BY LimitAssumption DEF Status
    <3> QED
      BY <2>1, <3>1, RecordInv DEF Finish
  <2>2. CASE Cancelled(i)
    BY <2>2, RecordInv DEF Cancelled, Status, Suspended
  <2>3. CASE Release(i)
    BY <2>3, ReleaseInv
  <2> QED
    BY <1>4, <2>1, <2>2, <2>3 DEF TaskStep
<1>5. CASE Checkpoint \/ ProgressDies \/ Interrupt \/ Tick \/ Kill
  BY <1>5, CheckpointInv, ProgressDiesInv, InterruptInv, TickInv, KillInv
<1>6. CASE UNCHANGED vars
  BY <1>6, StutterInv
<1> QED
  BY <1>1, <1>2, <1>3, <1>4, <1>5, <1>6 DEF Next

(* The inductive invariant holds throughout. *)
THEOREM InductiveInvariant == Spec => []IInv
BY InitIInv, StepIInv, PTL DEF Spec

(* RunState, the semaphore and the files keep their types. *)
THEOREM TypeCorrect == Spec => []TypeOK
<1>1. IInv => TypeOK
  BY DEF IInv
<1> QED
  BY <1>1, InductiveInvariant, PTL

(* Whatever the plan and the limits, slots and tasks add up to             *)
(* --concurrency: no path through the dispatcher leaks or doubles a slot.  *)
THEOREM SlotsConserved == Spec => []SlotConservation
<1>1. IInv => SlotConservation
  BY DEF IInv
<1> QED
  BY <1>1, InductiveInvariant, PTL

(* Every uninterrupted run accounts for every item of its plan, once. *)
THEOREM EveryItemAccountedFor == Spec => []AccountedFor
<1>1. IInv => AccountedFor
  <2> SUFFICES ASSUME IInv, pc \in {"publish", "tsv"}, ~interrupted, NEW i \in Item
               PROVE  (i \in Attempted) # (i \in skipped)
    BY DEF AccountedFor
  <2>1. next = NItems + 1 /\ Running = {}
    BY DEF IInv, PcTellsProgress
  <2>2. i < next
    BY <2>1, PlanAssumption DEF Item
  <2>3. i \in skipped \/ records[i] # "none"
    BY <2>1, <2>2 DEF IInv, PlanCovered, Running
  <2>4. i \in skipped => records[i] = "none"
    BY DEF IInv, PlanCovered
  <2> QED
    BY <2>3, <2>4 DEF Attempted
<1> QED
  BY <1>1, InductiveInvariant, PTL

(* A result that is neither partial nor truncated covers the plan, and     *)
(* exit status 0 is only given with such a result on disk.                 *)
THEOREM CompleteResultsAreComplete == Spec => []CompleteMeansAll
<1>1. IInv => CompleteMeansAll
  BY DEF IInv
<1> QED
  BY <1>1, InductiveInvariant, PTL

(* A run that resumed nothing attempts a prefix of every family's order.   *)
THEOREM FreshRunsAttemptPrefixes == Spec => []FreshRunAttemptsPrefix
<1>1. IInv => FreshRunAttemptsPrefix
  <2> SUFFICES ASSUME IInv, pc \in {"publish", "tsv"}, resumed = {},
                      NEW i \in Item, NEW j \in Item, i < j,
                      FamilyOf[i] = FamilyOf[j], j \in Attempted
               PROVE  i \in Attempted
    BY DEF FreshRunAttemptsPrefix, Prefix
  <2>1. j < next
    BY DEF IInv, TypeOK, PlanCovered, Attempted, Item
  <2>2. i < next
    BY <2>1 DEF IInv, TypeOK, Item
  <2>3. i \notin skipped
    BY DEF IInv, SkippedIsTail, Attempted
  <2>4. task[i] # "running"
    BY DEF IInv, PcTellsProgress, Running
  <2> QED
    BY <2>2, <2>3, <2>4 DEF IInv, PlanCovered, Attempted
<1> QED
  BY <1>1, InductiveInvariant, PTL

(* However often the process is killed and resumed, the items file holds   *)
(* at most one line per item, and what it says is what the process holds.  *)
THEOREM ItemsFileConsistent == Spec => [](OneLinePerItem /\ FileAgrees)
<1>1. IInv => OneLinePerItem /\ FileAgrees
  BY DEF IInv
<1> QED
  BY <1>1, InductiveInvariant, PTL

-----------------------------------------------------------------------------
(* What a resumed run throws away. *)

(* A start with --resume keeps exactly the lines of the items that did not *)
(* fail: parsing the file, keeping the last line of each item and          *)
(* rewriting it loses none of them.                                        *)
LEMMA ResumeKeepsScored ==
    ASSUME IInv, StartResume
    PROVE  file' = {l \in file : l.status \notin Failed}
<1>1. file' = {LastLine(i) : i \in resumed'} /\ resumed' = {i \in Item : KeptLines(i) # {}}
  BY DEF StartResume
<1>2. \A i \in Item : KeptLines(i) # {} => LastLine(i) \in KeptLines(i)
  BY LastLineKept DEF IInv, TypeOK
<1>3. \A l \in file : l.id \in Item
  BY DEF IInv, TypeOK, Line
<1>4. ASSUME NEW l \in file' PROVE l \in file /\ l.status \notin Failed
  BY <1>1, <1>2, <1>4 DEF KeptLines
<1>5. ASSUME NEW l \in file, l.status \notin Failed PROVE l \in file'
  <2>1. l \in KeptLines(l.id)
    BY <1>5 DEF KeptLines
  <2>2. LastLine(l.id) = l
    BY <1>2, <1>3, <2>1 DEF KeptLines, IInv, OneLinePerItem
  <2> QED
    BY <1>1, <1>3, <2>1, <2>2
<1> QED
  BY <1>4, <1>5

(* The other steps of a process that started only ever add a line. *)
LEMMA LinesAreOnlyAdded ==
    ASSUME [Next]_vars, ~StartFresh, ~StartResume
    PROVE  file \subseteq file'
<1>1. CASE ResumeRefused \/ StartFails
  BY <1>1 DEF ResumeRefused, StartFails
<1>2. CASE Dispatch
  BY <1>2 DEF Dispatch, SkipResumed, SkipBlocked, SkipPastDeadline, AwaitSlot,
         AcquireTimeout, BlockFamily, Launch, DispatchDone, BlockAndSkip, diskVars
<1>3. ASSUME NEW i \in Item, TaskStep(i) PROVE file \subseteq file'
  BY <1>3 DEF TaskStep, Finish, Cancelled, Release, AppendLine, diskVars
<1>4. CASE EndStep
  BY <1>4 DEF EndStep, DrainDone, GraceOver, CancelDone, Publish, PublishFails,
         AppendTsv, AppendTsvFails, diskVars
<1>5. CASE Checkpoint \/ ProgressDies \/ Interrupt \/ Tick \/ Kill
  BY <1>5 DEF Checkpoint, ProgressDies, Interrupt, Tick, Kill, diskVars
<1>6. CASE UNCHANGED vars
  BY <1>6 DEF vars, diskVars
<1> QED
  BY <1>1, <1>2, <1>3, <1>4, <1>5, <1>6 DEF Next, Start

(* The line of an item that did not fail is lost only when a run starts    *)
(* over without --resume: no kill, crash, failed append, cancellation or   *)
(* resumed start removes it.                                               *)
THEOREM ScoredLinesAreKept == Spec => ScoredLinesSurvive
<1>1. IInv /\ [Next]_vars =>
        [StartFresh \/ \A l \in file : l.status \notin Failed => l \in file']_vars
  <2> SUFFICES ASSUME IInv, [Next]_vars, ~StartFresh
               PROVE  \A l \in file : l.status \notin Failed => l \in file'
    OBVIOUS
  <2>1. CASE StartResume
    BY <2>1, ResumeKeepsScored
  <2>2. CASE ~StartResume
    BY <2>2, LinesAreOnlyAdded
  <2> QED
    BY <2>1, <2>2
<1> QED
  BY <1>1, InductiveInvariant, PTL DEF Spec, ScoredLinesSurvive

-----------------------------------------------------------------------------
(* The runner implements the ledger its readers rely on, whatever the      *)
(* plan, the limits, the number of kills and resumed runs, and the writes  *)
(* that fail: a refinement proof between EvalRunner and EvalLedger.        *)

(* The mapped variables, by name. *)
Measuring == pc \in Active \cup {"publish"}
ReportNow == IF json = {} THEN [kind |-> "absent", items |-> {}]
             ELSE ReportOf(CHOOSE r \in json : TRUE)
LostNow   == IF Measuring THEN unwritten ELSE {}
KnownNow  == HasStatus({"scored"}) \cup HasStatus(Failed) \cup unwritten

-----------------------------------------------------------------------------
(* What the ledger knows are the items with a record. *)
LEMMA LedgerIsAttempted ==
    ASSUME IInv, pc # "off"
    PROVE  KnownNow = Attempted
<1>1. \A l \in file : l.id \in Item /\ l.status \in Status
  BY DEF IInv, TypeOK, Line
<1>2. ASSUME NEW i \in Attempted PROVE i \in KnownNow
  <2>1. CASE i \notin unwritten
    <3>1. PICK l \in file : l.id = i
      BY <1>2, <2>1 DEF IInv, FileAgrees
    <3> QED
      BY <1>1, <3>1 DEF KnownNow, HasStatus, Status, Failed
  <2> QED
    BY <2>1 DEF KnownNow
<1>3. ASSUME NEW i \in KnownNow PROVE i \in Attempted
  <2>1. CASE i \in unwritten
    BY <2>1 DEF IInv, TypeOK, TailClean, Attempted
  <2>2. CASE i \notin unwritten
    <3>1. PICK l \in file : l.id = i
      BY <1>3, <2>2 DEF KnownNow, HasStatus
    <3>2. i \in Item /\ records[i] = l.status
      BY <1>1, <3>1 DEF IInv, FileAgrees
    <3> QED
      BY <1>1, <3>1, <3>2 DEF Attempted, Status
  <2> QED
    BY <2>1, <2>2
<1> QED
  BY <1>2, <1>3

(* What a result says is what the ledger's report says. *)
LEMMA ReportOfResult ==
    ASSUME IInv, pc # "off", NEW p \in BOOLEAN
    PROVE  ReportOf(BuildResult(p)) =
             [kind  |-> IF p THEN "partial"
                        ELSE IF BuildResult(p).truncated THEN "truncated"
                        ELSE "complete",
              items |-> KnownNow]
<1>1. BuildResult(p).partial = p /\ BuildResult(p).records = records
  BY DEF BuildResult
<1>2. {i \in Item : BuildResult(p).records[i] # "none"} = Attempted
  BY <1>1 DEF Attempted
<1> HIDE DEF BuildResult
<1> QED
  BY <1>1, <1>2, LedgerIsAttempted DEF ReportOf

LEMMA LedgerInit == Init => Ledger!Init
BY DEF Init, Ledger!Init, Ledger!Absent, Active, Suspended, HasStatus

(* A step that leaves the files and the presence of a process alone does   *)
(* not show.                                                               *)
LEMMA HiddenStep ==
    ASSUME UNCHANGED <<file, json>>, Measuring' = Measuring, LostNow' = LostNow
    PROVE  UNCHANGED Ledger!vars
BY DEF LostNow, Ledger!vars, Measuring, HasStatus, ReportOf

LEMMA StartsRefine ==
    ASSUME IInv, StartFresh \/ StartResume PROVE Ledger!Begin
<1>1. ~Measuring /\ Measuring'
  BY DEF StartFresh, StartResume, FreshProcess, Measuring, Active, Suspended
<1>2. UNCHANGED json
  BY DEF StartFresh, StartResume
<1>3. HasStatus(Failed)' = {} /\ HasStatus({"scored"})' \in {{}, HasStatus({"scored"})}
  <2>1. CASE StartFresh
    BY <2>1 DEF StartFresh, HasStatus
  <2>2. CASE StartResume
    <3>1. file' = {l \in file : l.status \notin Failed}
      BY <2>2, ResumeKeepsScored
    <3> QED
      BY <3>1 DEF HasStatus, Failed
  <2> QED
    BY <2>1, <2>2
<1>4. LostNow = {} /\ LostNow' = {}
  BY <1>1 DEF StartFresh, StartResume, FreshProcess, LostNow, IInv, OffIsBlank
<1> QED
  BY <1>1, <1>2, <1>3, <1>4 DEF Ledger!Begin, Measuring, LostNow, ReportOf

LEMMA RecordRefines ==
    ASSUME IInv, pc \in Suspended, NEW i \in Item, NEW s \in Status,
           task[i] = "running", FinishRecord(i, s), AppendLine(i, s)
    PROVE  Ledger!Record(i)
<1>1. Measuring /\ Measuring' /\ UNCHANGED json
  BY DEF FinishRecord, Measuring, Active
<1>2. LostNow = unwritten /\ LostNow' = unwritten'
  BY <1>1 DEF LostNow
<1>3. i \notin HasStatus({"scored"}) \cup HasStatus(Failed) \cup LostNow
  <2>1. i \notin Attempted
    BY DEF IInv, TaskHasRecord, Attempted
  <2> QED
    BY <1>2, <2>1, LedgerIsAttempted DEF KnownNow, Suspended
<1>4. CASE file' = file \cup {[id |-> i, status |-> s, run |-> run]} /\ UNCHANGED unwritten
  <2>1. ASSUME NEW S
        PROVE  HasStatus(S)' = IF s \in S THEN HasStatus(S) \cup {i} ELSE HasStatus(S)
    <3> DEFINE n == [id |-> i, status |-> s, run |-> run]
    <3>0. file' = file \cup {n} /\ n.id = i /\ n.status = s
      BY <1>4
    <3> HIDE DEF n
    <3>1. \A j \in Item : (\E l \in file' : l.id = j /\ l.status \in S)
                          <=> \/ \E l \in file : l.id = j /\ l.status \in S
                              \/ j = i /\ s \in S
      BY <3>0
    <3> QED
      BY <3>1 DEF HasStatus
  <2>2. \/ HasStatus({"scored"})' = HasStatus({"scored"}) \cup {i}
             /\ UNCHANGED HasStatus(Failed)
        \/ HasStatus(Failed)' = HasStatus(Failed) \cup {i}
             /\ UNCHANGED HasStatus({"scored"})
    BY <2>1 DEF Status, Failed
  <2> QED
    BY <1>1, <1>2, <1>3, <1>4, <2>2
       DEF Ledger!Record, Ledger!Known, Measuring, LostNow, ReportOf
<1>5. CASE UNCHANGED file /\ unwritten' = unwritten \cup {i}
  <2>1. UNCHANGED <<HasStatus({"scored"}), HasStatus(Failed)>>
    BY <1>5 DEF HasStatus
  <2> QED
    BY <1>1, <1>2, <1>3, <1>5, <2>1
       DEF Ledger!Record, Ledger!Known, Measuring, LostNow, ReportOf
<1> QED
  BY <1>4, <1>5 DEF AppendLine

LEMMA ReportsRefine ==
    ASSUME IInv, Checkpoint \/ Publish
    PROVE  Ledger!Progress \/ Ledger!Conclude
<1>1. Measuring /\ pc # "off" /\ UNCHANGED file
  BY DEF Checkpoint, Publish, Measuring, Active, Suspended
<1>2. UNCHANGED <<HasStatus({"scored"}), HasStatus(Failed), unwritten>>
      /\ LostNow = unwritten
  BY <1>1 DEF HasStatus, LostNow, Checkpoint, Publish
<1>3. CASE Checkpoint
  <2>1. json' = {BuildResult(TRUE)} /\ Measuring'
    BY <1>1, <1>3 DEF Checkpoint, Measuring
  <2>2. ReportNow' = ReportOf(BuildResult(TRUE))
    BY <2>1 DEF ReportNow, ReportOf
  <2>3. ReportNow' = [kind  |-> "partial",
                      items |-> KnownNow]
    BY <1>1, <2>2, ReportOfResult
  <2> QED
    BY <1>1, <1>2, <2>1, <2>3 
       DEF Ledger!Progress, Ledger!Draw, Ledger!Known, KnownNow, Measuring, LostNow,
           ReportNow
<1>4. CASE Publish
  <2> DEFINE r == BuildResult(interrupted)
  <2>0. interrupted \in BOOLEAN /\ pc = "publish"
    BY <1>4 DEF IInv, TypeOK, Publish
  <2>1. json' = {r} /\ ~Measuring'
    BY <1>4 DEF Publish, Measuring, Active, Suspended
  <2>2. ReportNow' = ReportOf(r)
    BY <2>1 DEF ReportNow, ReportOf
  <2> DEFINE kind == IF interrupted THEN "partial"
                     ELSE IF r.truncated THEN "truncated" ELSE "complete"
  <2>3. ReportNow' = [kind |-> kind, items |-> KnownNow]
    BY <1>1, <2>0, <2>2, ReportOfResult
  <2>4. kind = "complete" => KnownNow = Item
    <3> SUFFICES ASSUME kind = "complete", NEW i \in Item PROVE i \in Attempted
      BY <1>1, LedgerIsAttempted DEF Attempted
    <3>1. ~interrupted /\ ~r.truncated
      OBVIOUS
    <3>2. skipped = {}
      BY <3>1 DEF BuildResult
    <3>3. next = NItems + 1 /\ Running = {}
      BY <2>0, <3>1 DEF IInv, PcTellsProgress
    <3>4. i < next
      BY <3>3, PlanAssumption DEF Item
    <3> QED
      BY <3>2, <3>3, <3>4 DEF IInv, PlanCovered, Running, Attempted
  <2>5. kind \in {"partial", "truncated", "complete"}
    OBVIOUS
  <2> HIDE DEF kind
  <2>6. Ledger!Draw(kind)
    BY <1>1, <1>2, <2>3, <2>4 
       DEF Ledger!Draw, Ledger!Known, KnownNow, Measuring, LostNow, ReportNow
  <2> QED
    BY <2>1, <2>5, <2>6 DEF Ledger!Conclude, Measuring, LostNow
<1> QED
  BY <1>3, <1>4

(* The end of a process shows only if it had not published yet. *)
LEMMA EndRefines ==
    ASSUME ProcessGone, UNCHANGED <<file, json>>
    PROVE  Ledger!Vanish \/ UNCHANGED Ledger!vars
<1>1. ~Measuring'
  BY DEF ProcessGone, Measuring, Active, Suspended
<1>2. CASE Measuring
  BY <1>1, <1>2 DEF Ledger!Vanish, Measuring, LostNow, HasStatus, ReportOf
<1>3. CASE ~Measuring
  BY <1>1, <1>3, HiddenStep DEF Measuring, LostNow
<1> QED
  BY <1>2, <1>3

LEMMA StepRefines ==
    ASSUME IInv, [Next]_vars
    PROVE  [Ledger!Next]_Ledger!vars
<1>1. CASE StartFresh \/ StartResume
  BY <1>1, StartsRefine DEF Ledger!Next
<1>2. CASE ResumeRefused \/ StartFails
  BY <1>2, HiddenStep DEF ResumeRefused, StartFails, Measuring, LostNow
<1>3. CASE Dispatch
  <2>1. UNCHANGED <<file, json, unwritten>> /\ Measuring' = Measuring
    BY <1>3 DEF Dispatch, SkipResumed, SkipBlocked, SkipPastDeadline, AwaitSlot,
         AcquireTimeout, BlockFamily, Launch, DispatchDone, BlockAndSkip, Dispatchable,
         diskVars, Measuring, Active, Suspended
  <2> QED
    BY <2>1, HiddenStep DEF LostNow
<1>4. ASSUME NEW i \in Item, TaskStep(i) PROVE Ledger!Next \/ UNCHANGED Ledger!vars
  <2>1. ASSUME NEW s \in Outcome, Finish(i, s) PROVE Ledger!Record(i)
    BY <2>1, LimitAssumption, RecordRefines DEF Finish, Status
  <2>2. CASE Cancelled(i)
    <3>1. "cancelled" \in Status /\ pc \in Suspended
      BY <2>2 DEF Cancelled, Status, Suspended
    <3>2. Ledger!Record(i)
      BY <2>2, <3>1, RecordRefines DEF Cancelled
    <3> QED
      BY <3>2 DEF Ledger!Next
  <2>3. CASE Release(i)
    BY <2>3, HiddenStep DEF Release, diskVars, Measuring, LostNow
  <2> QED
    BY <1>4, <2>1, <2>2, <2>3 DEF TaskStep, Ledger!Next
<1>5. CASE \/ DrainDone \/ GraceOver \/ CancelDone
           \/ ProgressDies \/ Interrupt \/ Tick
  <2>1. UNCHANGED <<file, json, unwritten>> /\ Measuring' = Measuring
    BY <1>5 DEF DrainDone, GraceOver, CancelDone, ProgressDies, Interrupt, Tick, diskVars,
         Measuring, Active, Suspended
  <2> QED
    BY <2>1, HiddenStep DEF LostNow
<1>6. CASE Checkpoint \/ Publish
  BY <1>6, ReportsRefine DEF Ledger!Next
<1>7. CASE AppendTsv \/ PublishFails \/ AppendTsvFails \/ Kill
  BY <1>7, EndRefines DEF AppendTsv, PublishFails, AppendTsvFails, Kill, Ledger!Next
<1>8. CASE UNCHANGED vars
  BY <1>8, HiddenStep DEF vars, procVars, diskVars, Measuring, LostNow
<1> QED
  BY <1>1, <1>2, <1>3, <1>4, <1>5, <1>6, <1>7, <1>8 DEF Next, Start, EndStep

(* The runner implements the ledger: every report its readers see covers   *)
(* exactly the items attempted when it was drawn, a complete one covers the*)
(* plan, and no outcome that counts is lost but by starting over.          *)
THEOREM RunnerImplementsLedger == Spec => ImplementsLedger
<1>1. IInv /\ [Next]_vars => [Ledger!Next]_Ledger!vars
  BY StepRefines
<1> QED
  BY <1>1, LedgerInit, InductiveInvariant, PTL DEF Spec, ImplementsLedger, Ledger!Spec

=============================================================================
