------------------------------ MODULE EvalRunner ------------------------------
(***************************************************************************)
(* The quality-suite runner, box/evalsuite/run_eval.py: one asyncio        *)
(* process that launches the items of a plan under a concurrency limit and *)
(* a time budget, appends one line per finished item to <tag>.items.jsonl, *)
(* checkpoints <tag>.json while it runs and publishes it at the end.  The  *)
(* process may be interrupted or killed at any step, and started again     *)
(* with or without --resume on the files it left.                          *)
(*                                                                         *)
(* An item is its position in the plan (Work.index, counted from 1), time  *)
(* is a count of ticks since t0, and what a response contains is abstracted *)
(* to the class of its record's status.                                    *)
(***************************************************************************)
EXTENDS Integers, Sequences, FiniteSets

CONSTANTS
    NItems,        \* length of the plan built by build_plan
    Family,        \* the families of the run
    FamilyOf,      \* Work.family of each item
    Prior,         \* ITEM_TIME_FALLBACK_S of each family, in ticks
    Concurrency,   \* --concurrency
    TimeBudget,    \* --time-budget, in ticks
    Grace,         \* --grace, in ticks
    Outcome,       \* the ways a launched item may end by itself
    PartialEvery,  \* PARTIAL_EVERY_S, in ticks
    DiskMayFill,   \* whether an append to the items file may fail
    MaxTime,       \* bound: a run is followed for this many ticks
    MaxRuns        \* bound: how often the process is started

Item == 1..NItems

ASSUME PlanAssumption ==
    /\ NItems \in Nat
    /\ FamilyOf \in [Item -> Family]
    /\ Prior \in [Family -> Nat]

ASSUME LimitAssumption ==
    /\ Concurrency \in Nat \ {0}
    /\ TimeBudget \in Nat
    /\ Grace \in Nat
    /\ PartialEvery \in Nat
    /\ Outcome \subseteq {"scored", "error"}
    /\ DiskMayFill \in BOOLEAN

ASSUME BoundAssumption ==
    /\ MaxTime \in Nat
    /\ MaxTime >= TimeBudget + Grace
    /\ MaxRuns \in Nat

VARIABLES
    (* the process *)
    pc,           \* where the main coroutine stands
    next,         \* the item the dispatcher is at
    slots,        \* value of the semaphore
    task,         \* state of the task of each item
    startedAt,    \* t_start of each running item, 0 for the others
    records,      \* status class of state.records, "none" when absent
    unwritten,    \* history: items with a record whose line was not written
    resumed,      \* state.resumed
    blocked,      \* state.blocked
    skipped,      \* state.skipped
    itemTimes,    \* state.item_times
    interrupted,  \* state.interrupted
    lastPartial,  \* time of the last checkpoint, Never once there is no other
    now,          \* ticks since t0
    run,          \* how many processes were started so far
    (* what outlives the process *)
    file,         \* the lines of <tag>.items.jsonl
    tail,         \* whether those lines are all well-formed
    json,         \* <tag>.json: {} when absent, else the one result it holds
    exit          \* exit status of the last process, -1 until it has ended

procVars == <<pc, next, slots, task, startedAt, records, unwritten, resumed,
              blocked, skipped, itemTimes, interrupted, lastPartial, now, run>>
diskVars == <<file, tail, json, exit>>
vars == <<procVars, diskVars>>

(* The main coroutine is suspended at an await: other tasks, callbacks and  *)
(* signals get their turn only here, never inside the dispatcher's loop.   *)
Suspended == {"acquire", "drain", "cancelling"}
Active == {"next"} \cup Suspended
PCs    == Active \cup {"off", "publish", "tsv"}
Status == {"scored", "error", "cancelled"}
Failed == {"error", "cancelled"}

(* A line of the items file; the run it was written by stands for the      *)
(* times and latencies that tell two lines of one item apart.              *)
Line == [id : Item, status : Status, run : 1..MaxRuns]

(* The part of a result the checks read. *)
ResultType == [run : 1..MaxRuns, partial : BOOLEAN, truncated : BOOLEAN,
               valid : BOOLEAN, records : [Item -> Status \cup {"none"}],
               skipped : SUBSET Item]

ExitCode == {-1, 0, 1, 2, 3, 137}

(* Later than any time, so no checkpoint is due any more. *)
Never == MaxTime + 1

-----------------------------------------------------------------------------
Tasks     == {i \in Item : task[i] # "none"}      \* the set `tasks`
Running   == {i \in Item : task[i] = "running"}
Attempted == {i \in Item : records[i] # "none"}

(* The nearest-rank 90th percentile: the least observation that at least   *)
(* nine tenths of the observations do not exceed.                          *)
Covers(s, v) == 10 * Cardinality({j \in DOMAIN s : s[j] <= v}) >= 9 * Len(s)
P90(s) == CHOOSE v \in {s[j] : j \in DOMAIN s} :
            /\ Covers(s, v)
            /\ \A j \in DOMAIN s : Covers(s, s[j]) => v <= s[j]

(* p90 of the family's observed wall times; before three observations the  *)
(* prior, capped at a quarter of the budget (rounded up: an estimate is     *)
(* only ever compared with a whole number of ticks).                       *)
EstimateItem(f) ==
    IF Len(itemTimes[f]) >= 3
      THEN P90(itemTimes[f])
      ELSE IF 4 * Prior[f] <= TimeBudget THEN Prior[f] ELSE (TimeBudget + 3) \div 4

(* Mutant of BuildResult: a checkpoint does not say that it is one.        *)
BuildResultNeverPartial(isPartial) ==
    [run       |-> run,
     partial   |-> interrupted,
     truncated |-> skipped # {} \/ \E i \in Item : records[i] = "cancelled",
     valid     |-> Attempted # {},
     records   |-> records,
     skipped   |-> skipped]

(* build_result: valid unless nothing was attempted or more than 5% of the *)
(* attempted items are errors; truncated when something was left out.      *)
BuildResult(isPartial) ==
    LET errors == {i \in Item : records[i] = "error"} IN
    [run       |-> run,
     partial   |-> isPartial,
     truncated |-> \/ skipped # {}
                   \/ \E i \in Item : records[i] = "cancelled"
                   \/ interrupted,
     valid     |-> /\ Attempted # {}
                   /\ 20 * Cardinality(errors) <= Cardinality(Attempted),
     records   |-> records,
     skipped   |-> skipped]

-----------------------------------------------------------------------------
Init ==
    /\ pc = "off" /\ next = 1 /\ slots = Concurrency
    /\ task = [i \in Item |-> "none"] /\ startedAt = [i \in Item |-> 0]
    /\ records = [i \in Item |-> "none"] /\ unwritten = {}
    /\ resumed = {} /\ blocked = {} /\ skipped = {}
    /\ itemTimes = [f \in Family |-> <<>>]
    /\ interrupted = FALSE /\ lastPartial = 0 /\ now = 0 /\ run = 0
    /\ file = {} /\ tail = "clean" /\ json = {} /\ exit = -1

(* A new process finds the RunState, semaphore, task set and clock of Init:*)
(* the end of the last one has left nothing else.                          *)
FreshProcess ==
    /\ pc = "off" /\ run < MaxRuns
    /\ run' = run + 1 /\ exit' = -1
    /\ pc' = "next"
    /\ UNCHANGED <<next, slots, task, startedAt, unwritten, blocked, skipped,
                   itemTimes, interrupted, lastPartial, now>>

(* The memory of a process that ends is gone. *)
ProcessGone ==
    /\ pc' = "off" /\ next' = 1 /\ slots' = Concurrency
    /\ task' = [i \in Item |-> "none"] /\ startedAt' = [i \in Item |-> 0]
    /\ records' = [i \in Item |-> "none"] /\ unwritten' = {}
    /\ resumed' = {} /\ blocked' = {} /\ skipped' = {}
    /\ itemTimes' = [f \in Family |-> <<>>]
    /\ interrupted' = FALSE /\ lastPartial' = 0 /\ now' = 0
    /\ UNCHANGED run

(* Without --resume the items file is emptied; <tag>.json is left alone.   *)
StartFresh ==
    /\ FreshProcess
    /\ file' = {} /\ tail' = "clean"
    /\ UNCHANGED <<records, resumed, json>>

(* With --resume every line is parsed, the lines of failed items dropped,  *)
(* the last line of every other item kept, and the file rewritten.         *)
KeptLines(i) == {l \in file : l.id = i /\ l.status \notin Failed}
LastLine(i)  == CHOOSE l \in KeptLines(i) : \A m \in KeptLines(i) : m.run <= l.run

(* Mutant of StartResume: the file is emptied as on a fresh start.         *)
StartResumeEmpties ==
    /\ tail = "clean"
    /\ FreshProcess
    /\ resumed' = {i \in Item : KeptLines(i) # {}}
    /\ records' = [i \in Item |->
                     IF KeptLines(i) # {} THEN LastLine(i).status ELSE "none"]
    /\ file' = {}
    /\ UNCHANGED <<tail, json>>

StartResume ==
    /\ tail = "clean"
    /\ FreshProcess
    /\ resumed' = {i \in Item : KeptLines(i) # {}}
    /\ records' = [i \in Item |->
                     IF KeptLines(i) # {} THEN LastLine(i).status ELSE "none"]
    /\ file' = {LastLine(i) : i \in resumed'}
    /\ UNCHANGED <<tail, json>>

(* A line json.loads rejects ends the resumed process with a traceback     *)
(* before it launches anything.                                            *)
ResumeRefused ==
    /\ pc = "off" /\ run < MaxRuns /\ tail # "clean"
    /\ run' = run + 1 /\ exit' = 1
    /\ UNCHANGED <<pc, next, slots, task, startedAt, records, unwritten,
                   resumed, blocked, skipped, itemTimes, interrupted,
                   lastPartial, now, file, tail, json>>

(* The data does not match its manifest (2), no endpoint answers the probe *)
(* (3), a prepare_run hook raises or the items file cannot be replaced on  *)
(* a full disk (1): the results are left as they are.                      *)
StartFails ==
    /\ pc = "off" /\ run < MaxRuns
    /\ run' = run + 1 /\ exit' \in {1, 2, 3}
    /\ UNCHANGED <<pc, next, slots, task, startedAt, records, unwritten,
                   resumed, blocked, skipped, itemTimes, interrupted,
                   lastPartial, now, file, tail, json>>

-----------------------------------------------------------------------------
(* The dispatcher: one pass of its loop, or the part of it up to the await. *)

Pass == next' = next + 1

SkipResumed ==
    /\ pc = "next" /\ next <= NItems /\ next \in resumed
    /\ Pass
    /\ UNCHANGED <<pc, slots, task, startedAt, records, unwritten, resumed,
                   blocked, skipped, itemTimes, interrupted, lastPartial, now,
                   run, diskVars>>

(* Mutant of SkipBlocked: the item is passed over without being counted.   *)
SkipBlockedUncounted ==
    /\ pc = "next" /\ next <= NItems /\ next \notin resumed
    /\ FamilyOf[next] \in blocked
    /\ Pass
    /\ UNCHANGED <<pc, slots, task, startedAt, records, unwritten, resumed,
                   blocked, skipped, itemTimes, interrupted, lastPartial, now,
                   run, diskVars>>

SkipBlocked ==
    /\ pc = "next" /\ next <= NItems /\ next \notin resumed
    /\ FamilyOf[next] \in blocked
    /\ skipped' = skipped \cup {next}
    /\ Pass
    /\ UNCHANGED <<pc, slots, task, startedAt, records, unwritten, resumed,
                   blocked, itemTimes, interrupted, lastPartial, now, run,
                   diskVars>>

(* Mutant of BlockAndSkip: only the item is skipped.                       *)
BlockAndSkipItemOnly ==
    /\ skipped' = skipped \cup {next}
    /\ Pass
    /\ pc' = "next"
    /\ UNCHANGED <<slots, task, startedAt, records, unwritten, resumed,
                   blocked, itemTimes, interrupted, lastPartial, now, run,
                   diskVars>>

(* The family of the item is blocked and the item skipped. *)
BlockAndSkip ==
    /\ blocked' = blocked \cup {FamilyOf[next]}
    /\ skipped' = skipped \cup {next}
    /\ Pass
    /\ pc' = "next"
    /\ UNCHANGED <<slots, task, startedAt, records, unwritten, resumed,
                   itemTimes, interrupted, lastPartial, now, run, diskVars>>

Dispatchable ==
    /\ pc = "next" /\ next <= NItems
    /\ next \notin resumed /\ FamilyOf[next] \notin blocked

SkipPastDeadline == Dispatchable /\ now >= TimeBudget /\ BlockAndSkip

AwaitSlot ==
    /\ Dispatchable /\ now < TimeBudget
    /\ pc' = "acquire"
    /\ UNCHANGED <<next, slots, task, startedAt, records, unwritten, resumed,
                   blocked, skipped, itemTimes, interrupted, lastPartial, now,
                   run, diskVars>>

(* Mutant of AcquireTimeout: the deadline is looked at once a slot is free. *)
AcquireWithoutTimeout ==
    pc = "acquire" /\ slots > 0 /\ now >= TimeBudget /\ BlockAndSkip

(* wait_for gave up at the deadline. *)
AcquireTimeout == pc = "acquire" /\ now >= TimeBudget /\ BlockAndSkip

(* Mutant of BlockFamily: the slot is kept.                                *)
BlockFamilyKeepsSlot ==
    /\ pc = "acquire" /\ slots > 0
    /\ now + EstimateItem(FamilyOf[next]) > TimeBudget
    /\ slots' = slots - 1
    /\ blocked' = blocked \cup {FamilyOf[next]}
    /\ skipped' = skipped \cup {next}
    /\ Pass /\ pc' = "next"
    /\ UNCHANGED <<task, startedAt, records, unwritten, resumed, itemTimes,
                   interrupted, lastPartial, now, run, diskVars>>

(* The slot is granted but the estimate does not fit: the slot goes back. *)
BlockFamily ==
    /\ pc = "acquire" /\ slots > 0
    /\ now + EstimateItem(FamilyOf[next]) > TimeBudget
    /\ BlockAndSkip

(* The slot is granted and the item launched.  The loop's ready queue is   *)
(* first-in first-out, so the task takes its first step before the main    *)
(* coroutine runs again: creating and starting it are one step.            *)
Launch ==
    /\ pc = "acquire" /\ slots > 0
    /\ now + EstimateItem(FamilyOf[next]) <= TimeBudget
    /\ slots' = slots - 1
    /\ task' = [task EXCEPT ![next] = "running"]
    /\ startedAt' = [startedAt EXCEPT ![next] = now]
    /\ Pass
    /\ pc' = "next"
    /\ UNCHANGED <<records, unwritten, resumed, blocked, skipped, itemTimes,
                   interrupted, lastPartial, now, run, diskVars>>

DispatchDone ==
    /\ pc = "next" /\ next > NItems
    /\ pc' = "drain"
    /\ UNCHANGED <<next, slots, task, startedAt, records, unwritten, resumed,
                   blocked, skipped, itemTimes, interrupted, lastPartial, now,
                   run, diskVars>>

-----------------------------------------------------------------------------
(* The tasks. *)

(* _finish: the record enters state.records and the observations of its    *)
(* family.                                                                 *)
FinishRecord(i, status) ==
    /\ task' = [task EXCEPT ![i] = "done"]
    /\ records' = [records EXCEPT ![i] = status]
    /\ itemTimes' = [itemTimes EXCEPT ![FamilyOf[i]] = Append(@, now - startedAt[i])]
    /\ startedAt' = [startedAt EXCEPT ![i] = 0]
    /\ UNCHANGED <<pc, next, slots, resumed, blocked, skipped, interrupted,
                   lastPartial, now, run, json, exit>>

(* append_jsonl.  After an unterminated fragment the new line is glued to  *)
(* it and neither parses.  A write that runs out of space leaves a         *)
(* fragment or nothing, and its exception ends the task all the same.      *)
AppendLine(i, status) ==
    \/ /\ tail # "fragment"
       /\ file' = file \cup {[id |-> i, status |-> status, run |-> run]}
       /\ UNCHANGED <<tail, unwritten>>
    \/ /\ tail = "fragment" /\ tail' = "broken"
       /\ unwritten' = unwritten \cup {i}
       /\ UNCHANGED file
    \/ /\ DiskMayFill /\ tail' \in {tail, "fragment"}
       /\ unwritten' = unwritten \cup {i}
       /\ UNCHANGED file

(* run_one to its end: the item was answered and scored, or it failed. *)
Finish(i, status) ==
    /\ pc \in Suspended \ {"cancelling"}
    /\ task[i] = "running"
    /\ FinishRecord(i, status)
    /\ AppendLine(i, status)

(* Mutant of Cancelled: the exception is raised again before the append.   *)
CancelledUnwritten(i) ==
    /\ pc = "cancelling"
    /\ task[i] = "running"
    /\ FinishRecord(i, "cancelled")
    /\ UNCHANGED <<file, tail, unwritten>>

(* The CancelledError branch of run_one. *)
Cancelled(i) ==
    /\ pc = "cancelling"
    /\ task[i] = "running"
    /\ FinishRecord(i, "cancelled")
    /\ AppendLine(i, "cancelled")

(* Mutant of Release: the slot is given back behind the append, which may  *)
(* have raised, and not in a callback of the task.                         *)
ReleaseIfWritten(i) ==
    /\ pc \in Suspended
    /\ task[i] = "done"
    /\ task' = [task EXCEPT ![i] = "none"]
    /\ slots' = IF \E l \in file : l.id = i THEN slots + 1 ELSE slots
    /\ UNCHANGED <<pc, next, startedAt, records, unwritten, resumed, blocked,
                   skipped, itemTimes, interrupted, lastPartial, now, run,
                   diskVars>>

(* _release, the task's done callback. *)
Release(i) ==
    /\ pc \in Suspended
    /\ task[i] = "done"
    /\ task' = [task EXCEPT ![i] = "none"]
    /\ slots' = slots + 1
    /\ UNCHANGED <<pc, next, startedAt, records, unwritten, resumed, blocked,
                   skipped, itemTimes, interrupted, lastPartial, now, run,
                   diskVars>>

-----------------------------------------------------------------------------
(* The end of the run. *)

DrainDone ==
    /\ pc = "drain" /\ Tasks = {}
    /\ pc' = "publish"
    /\ UNCHANGED <<next, slots, task, startedAt, records, unwritten, resumed,
                   blocked, skipped, itemTimes, interrupted, lastPartial, now,
                   run, diskVars>>

(* The grace period is over: every task left is cancelled. *)
GraceOver ==
    /\ pc = "drain" /\ Tasks # {} /\ now >= TimeBudget + Grace
    /\ pc' = "cancelling"
    /\ UNCHANGED <<next, slots, task, startedAt, records, unwritten, resumed,
                   blocked, skipped, itemTimes, interrupted, lastPartial, now,
                   run, diskVars>>

(* SIGINT: asyncio cancels the main task at the await it is suspended in. *)
Interrupt ==
    /\ pc \in Suspended /\ ~interrupted
    /\ interrupted' = TRUE
    /\ pc' = "cancelling"
    /\ UNCHANGED <<next, slots, task, startedAt, records, unwritten, resumed,
                   blocked, skipped, itemTimes, lastPartial, now, run,
                   diskVars>>

(* gather returns and the finally clause stops the progress task before    *)
(* the result is built.                                                    *)
CancelDone ==
    /\ pc = "cancelling" /\ Running = {}
    /\ pc' = "publish"
    /\ UNCHANGED <<next, slots, task, startedAt, records, unwritten, resumed,
                   blocked, skipped, itemTimes, interrupted, lastPartial, now,
                   run, diskVars>>

(* main: the result replaces <tag>.json, then its rows are appended to a   *)
(* table nothing in the runner reads.  A write that finds the disk full    *)
(* ends the process with a traceback; the last checkpoint's result stays.  *)
Publish ==
    /\ pc = "publish"
    /\ json' = {BuildResult(interrupted)}
    /\ pc' = "tsv"
    /\ UNCHANGED <<next, slots, task, startedAt, records, unwritten, resumed,
                   blocked, skipped, itemTimes, interrupted, lastPartial, now,
                   run, file, tail, exit>>

AppendTsv ==
    /\ pc = "tsv"
    /\ LET r == BuildResult(interrupted)
       IN exit' = IF r.valid /\ ~r.truncated THEN 0 ELSE 1
    /\ ProcessGone
    /\ UNCHANGED <<file, tail, json>>

PublishFails ==
    /\ pc = "publish" /\ DiskMayFill
    /\ ProcessGone /\ exit' = 1
    /\ UNCHANGED <<file, tail, json>>

AppendTsvFails ==
    /\ pc = "tsv" /\ DiskMayFill
    /\ ProcessGone /\ exit' = 1
    /\ UNCHANGED <<file, tail, json>>

(* The progress task replaces <tag>.json by a partial result. *)
Checkpoint ==
    /\ pc \in Suspended /\ now - lastPartial >= PartialEvery
    /\ json' = {BuildResult(TRUE)}
    /\ lastPartial' = now
    /\ UNCHANGED <<pc, next, slots, task, startedAt, records, unwritten,
                   resumed, blocked, skipped, itemTimes, interrupted, now, run,
                   file, tail, exit>>

(* Its line for the log or its result does not fit on the disk: the        *)
(* exception ends the progress task, and nobody else.                      *)
ProgressDies ==
    /\ pc \in Suspended /\ DiskMayFill /\ lastPartial # Never
    /\ lastPartial' = Never
    /\ UNCHANGED <<pc, next, slots, task, startedAt, records, unwritten,
                   resumed, blocked, skipped, itemTimes, interrupted, now, run,
                   diskVars>>

(* A free slot is granted before time passes. *)
Tick ==
    /\ pc \in Suspended /\ now < MaxTime
    /\ ~(pc = "acquire" /\ slots > 0)
    /\ now' = now + 1
    /\ UNCHANGED <<pc, next, slots, task, startedAt, records, unwritten,
                   resumed, blocked, skipped, itemTimes, interrupted,
                   lastPartial, run, diskVars>>

(* The process is killed (137), possibly in the middle of an append, or a  *)
(* second interrupt or an exception ends it before it has published (1):   *)
(* the log, too, is on the disk that may fill, and what tasks write while  *)
(* asyncio.run cancels them they write after Interrupt.                    *)
Kill ==
    /\ pc # "off"
    /\ ProcessGone
    /\ exit' \in {1, 137}
    /\ \/ UNCHANGED tail
       \/ pc \in Suspended /\ Running # {} /\ tail' = "fragment"
    /\ UNCHANGED <<file, json>>

-----------------------------------------------------------------------------
Start == StartFresh \/ StartResume \/ ResumeRefused \/ StartFails

Dispatch == \/ SkipResumed \/ SkipBlocked \/ SkipPastDeadline \/ AwaitSlot
            \/ AcquireTimeout \/ BlockFamily \/ Launch \/ DispatchDone

TaskStep(i) == \/ \E s \in Outcome : Finish(i, s)
               \/ Cancelled(i)
               \/ Release(i)

EndStep == \/ DrainDone \/ GraceOver \/ CancelDone
           \/ Publish \/ PublishFails \/ AppendTsv \/ AppendTsvFails

Next == \/ Start \/ Dispatch \/ EndStep
        \/ \E i \in Item : TaskStep(i)
        \/ Checkpoint \/ ProgressDies \/ Interrupt \/ Tick \/ Kill

Spec == Init /\ [][Next]_vars

(* What the event loop guarantees: the main coroutine, cancelled tasks and *)
(* callbacks get their turn and time passes.  Nothing is assumed of the    *)
(* server, an item may hang for ever, nor of who kills the process.        *)
Fairness == /\ WF_vars(Dispatch) /\ WF_vars(EndStep) /\ WF_vars(Tick)
            /\ \A i \in Item : WF_vars(Cancelled(i)) /\ WF_vars(Release(i))

LiveSpec == Spec /\ Fairness

-----------------------------------------------------------------------------
(* Types of the state RunState, the semaphore and the files range over. *)
TypeOK ==
    /\ pc \in PCs
    /\ next \in 1..(NItems + 1)
    /\ slots \in Nat
    /\ task \in [Item -> {"none", "running", "done"}]
    /\ startedAt \in [Item -> 0..MaxTime]
    /\ records \in [Item -> Status \cup {"none"}] /\ unwritten \subseteq Item
    /\ resumed \subseteq Item /\ blocked \subseteq Family /\ skipped \subseteq Item
    /\ itemTimes \in [Family -> Seq(Int)]
    /\ interrupted \in BOOLEAN
    /\ lastPartial \in 0..Never /\ now \in 0..MaxTime
    /\ run \in 0..MaxRuns
    /\ file \subseteq Line
    /\ tail \in {"clean", "fragment", "broken"}
    /\ json \subseteq ResultType
    /\ exit \in ExitCode

(* No slot is leaked or released twice on any path of the dispatcher, the  *)
(* timeouts and the callbacks: free slots and tasks always add up to       *)
(* --concurrency, so no more than --concurrency items are in flight.       *)
SlotConservation ==
    pc \in Active => slots + Cardinality(Tasks) = Concurrency

(* When an uninterrupted run is published, every item of the plan either   *)
(* has a record or is in skipped_ids, and none is both: no item falls      *)
(* between the dispatcher, its timeouts and the cancellation.              *)
AccountedFor ==
    pc \in {"publish", "tsv"} /\ ~interrupted =>
        \A i \in Item : (i \in Attempted) # (i \in skipped)

(* A published result that says neither partial nor truncated covers the   *)
(* whole plan, and exit status 0 is only given for such a result, valid    *)
(* and on disk: what the chains may take for a finished measurement.       *)
CompleteMeansAll ==
    /\ \A r \in json : ~r.partial /\ ~r.truncated =>
            \A i \in Item : r.records[i] \in {"scored", "error"}
    /\ pc = "off" /\ exit = 0 =>
            \E r \in json : r.run = run /\ r.valid /\ ~r.partial /\ ~r.truncated

(* A run that resumed nothing attempts a prefix of every family's order,   *)
(* although the estimate that blocks a family moves with every finished    *)
(* item and may fall again (README.md of the suite, lines 107-108).        *)
Prefix == \A i, j \in Item : /\ i < j /\ FamilyOf[i] = FamilyOf[j]
                             /\ j \in Attempted
                             => i \in Attempted

FreshRunAttemptsPrefix ==
    pc \in {"publish", "tsv"} /\ resumed = {} => Prefix

(* The items file never holds two lines of one item, across any number of  *)
(* kills and resumed runs: paired.py and the resume itself key on the id.  *)
OneLinePerItem == \A l, m \in file : l.id = m.id => l = m

(* While a process runs, every line of the items file is the record the    *)
(* process holds and the other way round, but for the lines that did not   *)
(* fit on the disk: the published result and the items file describe the   *)
(* same outcomes.                                                          *)
FileAgrees ==
    pc # "off" =>
        /\ \A l \in file : records[l.id] = l.status
        /\ \A i \in Attempted \ unwritten : \E l \in file : l.id = i

(* Whatever kills, restarts and resumes happen, the line of a scored item  *)
(* stays until somebody starts the tag over without --resume.              *)
ScoredLinesSurvive ==
    [][StartFresh \/ \A l \in file : l.status \notin Failed => l \in file']_vars

(* Although the server may never answer, every run comes to an end: it     *)
(* publishes its result, marked partial exactly if it was interrupted, or  *)
(* a kill or an exception has ended it, and its status tells.              *)
Published(k) == pc = "tsv" /\ \E r \in json : r.run = k /\ r.partial = interrupted
Failing(k)   == pc = "off" /\ run = k /\ exit \in {1, 137}

EveryRunPublishes ==
    \A k \in 1..MaxRuns : (pc \in Active /\ run = k) ~> (Published(k) \/ Failing(k))

(* What the scripts that read the files may rely on: the runner implements *)
(* the ledger of EvalLedger.                                               *)
HasStatus(S) == {i \in Item : \E l \in file : l.id = i /\ l.status \in S}

ReportOf(r) == [kind  |-> IF r.partial THEN "partial"
                          ELSE IF r.truncated THEN "truncated" ELSE "complete",
                items |-> {i \in Item : r.records[i] # "none"}]

Ledger == INSTANCE EvalLedger WITH
            measuring <- pc \in Active \cup {"publish"},
            scored    <- HasStatus({"scored"}),
            failed    <- HasStatus(Failed),
            lost      <- IF pc \in Active \cup {"publish"} THEN unwritten ELSE {},
            report    <- IF json = {} THEN [kind |-> "absent", items |-> {}]
                         ELSE ReportOf(CHOOSE r \in json : TRUE)

ImplementsLedger == Ledger!Spec

-----------------------------------------------------------------------------
(* The strengthening the safety invariants rest on, in named parts; what   *)
(* is said of the plan's items holds while a process exists.               *)

(* Between two processes nothing is left in memory. *)
OffIsBlank ==
    pc = "off" => /\ next = 1 /\ slots = Concurrency
                  /\ task = [i \in Item |-> "none"]
                  /\ startedAt = [i \in Item |-> 0]
                  /\ records = [i \in Item |-> "none"] /\ unwritten = {}
                  /\ resumed = {} /\ blocked = {} /\ skipped = {}
                  /\ itemTimes = [f \in Family |-> <<>>]
                  /\ interrupted = FALSE /\ lastPartial = 0 /\ now = 0

(* Where the main coroutine stands, and what it has then left behind. *)
PcTellsProgress ==
    /\ pc # "off" => run >= 1
    /\ pc = "acquire" => next <= NItems /\ next \notin resumed
                         /\ FamilyOf[next] \notin blocked
    /\ pc \in {"next", "acquire", "drain"} => ~interrupted
    /\ pc \in {"drain", "cancelling", "publish", "tsv"} /\ ~interrupted
         => next = NItems + 1
    /\ pc \in {"publish", "tsv"} => Running = {}
    /\ pc = "tsv" => json = {BuildResult(interrupted)}

(* A running task has no record yet, a finished one has. *)
TaskHasRecord ==
    \A i \in Item : /\ task[i] = "running" => records[i] = "none"
                    /\ task[i] = "done" => records[i] # "none"

(* The dispatcher has disposed of the items before next, in exactly one    *)
(* way each, and of no other.                                              *)
PlanCovered ==
    /\ \A i \in resumed : records[i] \in Status \ Failed
    /\ \A i \in Item : i < next => \/ i \in skipped
                                   \/ task[i] = "running"
                                   \/ records[i] # "none"
    /\ \A i \in Item : i >= next => /\ i \notin skipped /\ task[i] = "none"
                                    /\ records[i] # "none" => i \in resumed
    /\ \A i \in skipped : task[i] = "none" /\ records[i] = "none"

(* A family with a skipped item is blocked, and nothing of it was launched *)
(* behind the skipped item.                                                *)
SkippedIsTail ==
    \A i \in skipped :
        /\ FamilyOf[i] \in blocked
        /\ \A j \in Item : /\ i < j /\ FamilyOf[j] = FamilyOf[i]
                           /\ \/ task[j] = "running" \/ records[j] # "none"
                           => j \in resumed

(* A process finds the file readable, and what a full disk keeps from it   *)
(* are the only items it has attempted and not written.                    *)
TailClean == /\ pc # "off" /\ unwritten = {} => tail = "clean"
             /\ \A i \in unwritten : records[i] # "none" /\ \A l \in file : l.id # i

IInv == /\ TypeOK /\ OffIsBlank /\ PcTellsProgress /\ TaskHasRecord
        /\ PlanCovered /\ SkippedIsTail /\ TailClean
        /\ SlotConservation /\ CompleteMeansAll /\ OneLinePerItem /\ FileAgrees

=============================================================================
