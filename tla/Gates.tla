--------------------------------- MODULE Gates -------------------------------
(***************************************************************************)
(* The correctness gates of one cell, started one after another:           *)
(* gates/run_kv_diff.sh, which serves the cell under two KV dtypes,        *)
(* captures the answers of either and compares them, and gates/gsm8k.sh,   *)
(* which scores whatever server is up.  What they leave - captures,        *)
(* verdicts, raw results - stays in the cell's directory, and is what the  *)
(* next invocation and gates_summary.py find there.                        *)
(*                                                                         *)
(* A server is [run, kv]: the invocation that started it (0: somebody      *)
(* else) and the KV dtype it has, named by its side.  The port has at most *)
(* one.  Of a file the invocation that wrote it is remembered; one that    *)
(* was cut off while it was written is read like one that is not there.    *)
(* Of the scripts' children only bench/launch.sh is followed when it       *)
(* outlives the script that called it.                                     *)
(***************************************************************************)
EXTENDS KvDiff

CONSTANTS
    PromptSets, \* the prompt sets in use: the fixed one and PROMPTS=
    Texts,      \* what a server may answer, per prompt
    MaxRuns     \* bound: invocations of either gate

ASSUME GatesAssumption ==
    /\ PromptSets # {} /\ MaxRuns \in Nat
    /\ \A P \in PromptSets : \A p \in P : Texts[p] \subseteq Seq(Words)

Side  == {"A", "B"}
Nobody == [run |-> 0, kv |-> "none"]
None  == [kind |-> "none"]

VARIABLES
    viaLauncher, \* the cell has a .env (bench/launch.sh), else SERVE_CMD
    listening,   \* the server that answers on the port, or Nobody
    proc,        \* what the script started and has to stop
    pc, side,    \* where the script stands, and for which side
    cfg,         \* SELF_CHECK, KEEP_B_RUNNING, PROMPTS of this invocation
    trap,        \* stop is run on exit
    rc,          \* exit status of the script, once it is known
    runs,        \* invocations so far
    cap,         \* kv_capture_<A>.json, kv_capture_<B>.json
    diff,        \* kv_diff.json
    raw,         \* newest results_*.json of lm_eval
    gsm,         \* gsm8k.json
    selfdiff,    \* kv_diff_selfcheck.json can be read
    orphans,     \* the servers that launchers which outlived their script
                 \* are still to start
    unsure       \* history: sides of this run that were not captured, or
                 \* were or may be answered by a server of somebody else

serverVars == <<viaLauncher, listening, proc, orphans>>
kvFiles    == <<cap, diff>>
gsmFiles   == <<raw, gsm>>
vars == <<serverVars, pc, side, cfg, trap, rc, runs, kvFiles, gsmFiles, selfdiff, unsure>>

(* The options that nobody asks for. *)
NoOptions == [selfCheck |-> FALSE, keepB |-> FALSE,
              prompts |-> CHOOSE P \in PromptSets : TRUE]

Config  == [selfCheck : BOOLEAN, keepB : BOOLEAN, prompts : PromptSets]
Server  == [run : 0..MaxRuns, kv : Side]
Failed  == [text |-> <<>>, error |-> TRUE]
Reply(p) == {[text |-> t, error |-> FALSE] : t \in Texts[p]} \cup {Failed}
Answers(P) == {o \in [P -> UNION {Reply(p) : p \in P}] : \A p \in P : o[p] \in Reply(p)}

TypeOK ==
    /\ viaLauncher \in BOOLEAN /\ listening \in Server \cup {Nobody}
    /\ proc \in {"none", "starting", "up", "gone"}
    /\ pc \in {"off", "launch", "health", "record", "capture", "stopA",
               "selfcheck", "endB", "compare", "exit", "lm_eval", "gsm8k"}
    /\ side \in Side /\ cfg \in Config /\ trap \in BOOLEAN
    /\ rc \in Nat /\ runs \in 0..MaxRuns
    /\ \A s \in Side :
          \/ cap[s] = None
          \/ /\ cap[s].kind = "capture" /\ cap[s].run \in 1..MaxRuns
             /\ cap[s].by \in Server \cup {Nobody} /\ DOMAIN cap[s].out \in PromptSets
    /\ selfdiff \in BOOLEAN /\ unsure \subseteq Side /\ orphans \subseteq Server
    /\ diff.kind \in {"none", "launch_failed", "compared"}
    /\ raw.kind \in {"none", "results"} /\ gsm.kind \in {"none", "ok", "lm_eval_failed"}

Init ==
    /\ viaLauncher \in BOOLEAN
    /\ \/ listening = Nobody
       \/ viaLauncher /\ listening = [run |-> 0, kv |-> "A"]
    /\ proc = "none" /\ pc = "off" /\ side = "A"
    /\ cfg = NoOptions
    /\ trap = FALSE /\ rc = 0 /\ runs = 0
    /\ cap = [s \in Side |-> None] /\ selfdiff = FALSE
    /\ diff = None /\ raw = None /\ gsm = None /\ unsure = {} /\ orphans = {}

-----------------------------------------------------------------------------
(* run_kv_diff.sh *)

(* The process is gone and its variables with it; keepB is remembered for  *)
(* NoServerLeft.                                                           *)
ProcessGone ==
    /\ pc' = "off" /\ side' = "A" /\ trap' = FALSE /\ selfdiff' = FALSE /\ unsure' = {}
    /\ cfg' = [NoOptions EXCEPT !.keepB = cfg.keepB]

Goto(l) == pc' = l
Exit(n) == pc' = "exit" /\ rc' = n

Invoke(c) ==
    /\ pc = "off" /\ runs < MaxRuns
    /\ Goto("launch") /\ side' = "A" /\ cfg' = c
    /\ proc' = "none" /\ trap' = TRUE /\ runs' = runs + 1 /\ unsure' = {} /\ rc' = 0
    /\ UNCHANGED <<viaLauncher, orphans, listening, selfdiff, kvFiles, gsmFiles>>

Own == [run |-> runs, kv |-> side]

(* bench/launch.sh stops the cell first; a launch that times out leaves    *)
(* its servers.                                                            *)
LaunchCell ==
    /\ pc = "launch" /\ viaLauncher
    /\ \/ listening' = Own /\ proc' = "up" /\ Goto("capture")
       \/ listening' = Nobody /\ proc' \in {"starting", "gone"} /\ Goto("record")
    /\ UNCHANGED <<viaLauncher, orphans, side, cfg, trap, rc, runs, kvFiles, gsmFiles,
                   selfdiff, unsure>>

(* SERVE_CMD is started beside whatever is there. *)
LaunchCommand ==
    /\ pc = "launch" /\ ~viaLauncher
    /\ proc' = "starting" /\ Goto("health")
    /\ UNCHANGED <<viaLauncher, orphans, listening, side, cfg, trap, rc, runs, kvFiles,
                   gsmFiles, selfdiff, unsure>>

(* Mutant of AskHealth: no time limit. *)
AskHealthForever ==
    /\ pc = "health" /\ (listening # Nobody \/ proc = "gone")
    /\ IF listening # Nobody
       THEN /\ Goto("capture")
            /\ unsure' = IF listening.run = runs THEN unsure ELSE unsure \cup {side}
       ELSE Goto("record") /\ UNCHANGED unsure
    /\ UNCHANGED <<serverVars, side, cfg, trap, rc, runs, kvFiles, gsmFiles, selfdiff>>

(* The port is asked before the process; a server that is still starting    *)
(* has 7200 s.                                                              *)
AskHealth ==
    /\ pc = "health"
    /\ IF listening # Nobody
       THEN /\ Goto("capture")
            /\ unsure' = IF listening.run = runs THEN unsure ELSE unsure \cup {side}
       ELSE Goto("record") /\ UNCHANGED unsure
    /\ UNCHANGED <<serverVars, side, cfg, trap, rc, runs, kvFiles, gsmFiles, selfdiff>>

RecordFailure ==
    /\ pc = "record"
    /\ diff' = [kind |-> "launch_failed", pass |-> FALSE, run |-> runs]
    /\ Exit(6)
    /\ UNCHANGED <<serverVars, side, cfg, trap, runs, cap, gsmFiles, selfdiff, unsure>>

(* What a capture leaves: an answer or an error for each prompt - errors    *)
(* only when no server is there, and then only if the model's name is known *)
(* without asking.                                                          *)
Captured ==
    {[kind |-> "capture", run |-> runs, by |-> listening, out |-> o] :
        o \in {o \in Answers(cfg.prompts) :
                 listening = Nobody => /\ viaLauncher
                                       /\ \A p \in cfg.prompts : o[p] = Failed}}

AfterCapture == IF side = "A" THEN "stopA" ELSE IF cfg.selfCheck THEN "selfcheck" ELSE "endB"

(* Whatever becomes of it, the script continues. *)
CaptureSide ==
    /\ pc = "capture" /\ Goto(AfterCapture)
    /\ \/ \E c \in Captured : cap' = [cap EXCEPT ![side] = c] /\ UNCHANGED unsure
       \/ /\ unsure' = unsure \cup {side}    \* it dies before it writes, or while
          /\ cap' \in {cap, [cap EXCEPT ![side] = None]}
    /\ UNCHANGED <<serverVars, side, cfg, trap, rc, runs, diff, gsmFiles, selfdiff>>

(* stop.sh empties the cell; of a SERVE_CMD its own process is ended. *)
Stop == /\ proc' = "none"
        /\ listening' = IF viaLauncher \/ proc = "up" THEN Nobody ELSE listening

(* Mutant of StopA: the second server is started beside the first one. *)
StopANothing ==
    /\ pc = "stopA" /\ Goto("launch") /\ side' = "B"
    /\ UNCHANGED <<serverVars, cfg, trap, rc, runs, kvFiles, gsmFiles, selfdiff,
                   unsure>>

StopA ==
    /\ pc = "stopA" /\ Stop /\ Goto("launch") /\ side' = "B"
    /\ UNCHANGED <<viaLauncher, orphans, cfg, trap, rc, runs, kvFiles, gsmFiles,
                   selfdiff, unsure>>

(* A second capture of B is compared with the first; of both the outcome   *)
(* is ignored (`|| true`), and a file of an earlier run serves as well.     *)
SelfCheck ==
    /\ pc = "selfcheck" /\ Goto("endB") /\ selfdiff' \in BOOLEAN
    /\ UNCHANGED <<serverVars, side, cfg, trap, rc, runs, kvFiles, gsmFiles, unsure>>

(* KEEP_B_RUNNING takes the trap back, else B is stopped like A. *)
EndB ==
    /\ pc = "endB" /\ Goto("compare")
    /\ IF cfg.keepB THEN /\ trap' = FALSE /\ proc' = "none"
                         /\ UNCHANGED listening
                    ELSE Stop /\ UNCHANGED trap
    /\ UNCHANGED <<viaLauncher, orphans, side, cfg, rc, runs, kvFiles, gsmFiles,
                   selfdiff, unsure>>

Readable == /\ \A s \in Side : cap[s].kind = "capture"
            /\ cfg.selfCheck => selfdiff

Verdict == FailReasons(cap["A"].out, cap["B"].out) = {}

Compared(passed) ==
    /\ diff' = IF passed
               THEN [kind |-> "compared", pass |-> TRUE, run |-> runs, unsure |-> unsure,
                     from |-> [s \in Side |-> [run |-> cap[s].run, by |-> cap[s].by]]]
               ELSE [kind |-> "compared", pass |-> FALSE, run |-> runs]
    /\ Exit(IF passed THEN 0 ELSE 1)

(* compare ends with a traceback, and the file as it was or cut off, if it  *)
(* cannot read what it was told to or cannot write.                         *)
Traceback == Exit(1) /\ diff' \in {diff, None}

CompareSides ==
    /\ pc = "compare"
    /\ (Readable /\ Compared(Verdict)) \/ Traceback
    /\ UNCHANGED <<serverVars, side, cfg, trap, runs, cap, gsmFiles, selfdiff, unsure>>

(* Mutant of ScriptExits: no trap. *)
ScriptExitsUntrapped ==
    /\ pc = "exit" /\ ProcessGone
    /\ UNCHANGED <<serverVars, rc, runs, kvFiles, gsmFiles>>

ScriptExits ==
    /\ pc = "exit" /\ ProcessGone
    /\ IF trap THEN Stop ELSE UNCHANGED <<listening, proc>>
    /\ UNCHANGED <<viaLauncher, orphans, rc, runs, kvFiles, gsmFiles>>

-----------------------------------------------------------------------------
(* gsm8k.sh *)

StartGsm8k ==
    /\ pc = "off" /\ runs < MaxRuns
    /\ Goto("lm_eval") /\ runs' = runs + 1 /\ rc' = 0 /\ proc' = "none"
    /\ UNCHANGED <<viaLauncher, orphans, listening, side, cfg, trap, kvFiles,
                   gsmFiles, selfdiff, unsure>>

(* Nothing answers for 300 s. *)
Unhealthy ==
    /\ pc = "lm_eval" /\ listening = Nobody /\ Exit(3)
    /\ UNCHANGED <<serverVars, side, cfg, trap, runs, kvFiles, gsmFiles, selfdiff,
                   unsure>>

(* lm_eval writes its results at its end; rc holds its exit status. *)
LmEval ==
    /\ pc = "lm_eval" /\ listening # Nobody /\ Goto("gsm8k")
    /\ \/ /\ \E enough \in BOOLEAN :
                raw' = [kind |-> "results", run |-> runs, enough |-> enough]
          /\ rc' \in {0, 1}
       \/ raw' \in {raw, None} /\ rc' = 1
    /\ UNCHANGED <<serverVars, side, cfg, trap, runs, kvFiles, gsm, selfdiff, unsure>>

(* The newest results there are, whatever lm_eval said; a reference makes   *)
(* a verdict of them.                                                       *)
Gsm8kStatus == IF rc = 0 /\ raw.kind = "results" THEN "ok" ELSE "lm_eval_failed"

WriteGsm8k ==
    /\ pc = "gsm8k"
    /\ \E ref \in BOOLEAN :
          LET passed == IF ~ref \/ raw.kind # "results" THEN "unset"
                        ELSE IF raw.enough THEN "yes" ELSE "no"
          IN  /\ gsm' = [kind |-> Gsm8kStatus, pass |-> passed, run |-> runs, raw |-> raw]
              /\ Exit(IF Gsm8kStatus # "ok" THEN 4 ELSE IF passed = "no" THEN 5 ELSE 0)
    /\ UNCHANGED <<serverVars, side, cfg, trap, runs, kvFiles, raw, selfdiff, unsure>>

-----------------------------------------------------------------------------
(* What happens around the scripts. *)

(* A server that this script has started gets the port if nobody has it.   *)
ServerUp ==
    /\ pc = "health" /\ proc = "starting" /\ listening = Nobody
    /\ proc' = "up" /\ listening' = Own
    /\ UNCHANGED <<viaLauncher, orphans, pc, side, cfg, trap, rc, runs, kvFiles,
                   gsmFiles, selfdiff, unsure>>

ServerDies ==
    /\ \/ /\ listening # Nobody /\ listening' = Nobody
          /\ proc' = IF proc = "up" THEN "gone" ELSE proc
       \/ proc = "starting" /\ proc' = "gone" /\ UNCHANGED listening
    /\ UNCHANGED <<viaLauncher, orphans, pc, side, cfg, trap, rc, runs, kvFiles,
                   gsmFiles, selfdiff, unsure>>

(* A verdict that is being written may be cut off; captures and raw results *)
(* are by their own steps.                                                  *)
FilesLeft ==
    /\ diff' = diff \/ (pc = "record" /\ diff' = None)
    /\ gsm' = gsm \/ (pc = "gsm8k" /\ gsm' = None)
    /\ UNCHANGED <<cap, raw>>

(* bench/launch.sh is a child of the script: a signal that is sent to the  *)
(* script alone lets it go on.                                             *)
LauncherOutlives == /\ pc = "launch" /\ viaLauncher
                    /\ orphans' = orphans \cup {Own}

(* SIGINT or SIGTERM: the trap is run, and a launcher that was not told     *)
(* goes on beside it (rc 143 tells this case apart).                        *)
Interrupt ==
    /\ pc \notin {"off", "exit"} /\ FilesLeft
    /\ \/ Exit(130) /\ UNCHANGED orphans
       \/ Exit(143) /\ LauncherOutlives
    /\ UNCHANGED <<viaLauncher, listening, proc, side, cfg, trap, runs, selfdiff,
                   unsure>>

(* SIGKILL, or a second signal, which ends the trap's stop: nothing more is *)
(* done.                                                                    *)
Kill ==
    /\ pc # "off" /\ ProcessGone /\ rc' = 137 /\ proc' = "none" /\ FilesLeft
    /\ LauncherOutlives \/ UNCHANGED orphans
    /\ UNCHANGED <<viaLauncher, listening, runs>>

(* A launcher that outlived its script brings its server up; the stop it    *)
(* begins with is one of the ways a server ends (ServerDies).               *)
OrphanServes ==
    /\ listening = Nobody
    /\ \E o \in orphans : listening' = o /\ orphans' = orphans \ {o}
    /\ unsure' = IF pc = "capture" THEN unsure \cup {side} ELSE unsure
    /\ UNCHANGED <<viaLauncher, proc, pc, side, cfg, trap, rc, runs, kvFiles, gsmFiles,
                   selfdiff>>

(* The host stops the box: the files are left. *)
HostStops ==
    /\ ProcessGone /\ listening' = Nobody /\ proc' = "none" /\ FilesLeft
    /\ rc' = IF pc = "off" THEN rc ELSE 137
    /\ orphans' = {}
    /\ UNCHANGED <<viaLauncher, runs>>

ServeAndCapture == LaunchCell \/ LaunchCommand \/ AskHealth \/ RecordFailure
                   \/ CaptureSide \/ StopA \/ SelfCheck \/ EndB
KvStep  == ServeAndCapture \/ CompareSides \/ ScriptExits
GsmStep == Unhealthy \/ LmEval \/ WriteGsm8k

Next == KvStep \/ GsmStep \/ (\E c \in Config : Invoke(c)) \/ StartGsm8k
        \/ ServerUp \/ ServerDies \/ OrphanServes \/ Interrupt \/ Kill \/ HostStops

Spec == Init /\ [][Next]_vars

(* A comparison comes to an end, whatever it says. *)
CompareEnds ==
    /\ pc = "compare"
    /\ (Readable /\ \E passed \in BOOLEAN : Compared(passed)) \/ Traceback
    /\ UNCHANGED <<serverVars, side, cfg, trap, runs, cap, gsmFiles, selfdiff, unsure>>

(* The shell goes on: the waits for a server and the requests of a capture  *)
(* have time limits, and so has lm_eval's every request.                    *)
LiveSpec == Spec /\ WF_vars(ServeAndCapture \/ CompareEnds \/ ScriptExits \/ GsmStep)

-----------------------------------------------------------------------------
(* A comparison passes exactly if both sides answered every prompt they     *)
(* have in common, no answer is degenerate by its definition, and the       *)
(* least number of edits between them is on average within the limit.       *)
Earned(oa, ob) ==
    LET ids == Common(oa, ob)
    IN  /\ ids # {}
        /\ \A p \in ids : \A o \in {oa[p], ob[p]} : ~o.error /\ ~Unsound(o.text)
        /\ ~ (SumFunction([p \in ids |-> Relative(LeastEdits(oa[p].text, ob[p].text),
                                                  oa[p].text, ob[p].text)])
                > MaxNed * Cardinality(ids))

VerdictEarned ==
    [][pc = "compare" /\ diff' # diff /\ diff'.kind = "compared"
       => (diff'.pass <=> Earned(cap["A"].out, cap["B"].out))]_vars

(* What a gate says of a cell was measured when it says so: a kv_diff that  *)
(* passes compared what this run's two servers answered, each with the      *)
(* dtype of its side, but for sides marked unsure; the figures of a gsm8k   *)
(* that is ok are of the same run; and exit status 0 is given together with *)
(* such a record.                                                           *)
PassIsOwn ==
    /\ diff.kind = "compared" /\ diff.pass =>
          \A s \in Side \ diff.unsure :
             diff.from[s] = [run |-> diff.run, by |-> [run |-> diff.run, kv |-> s]]
    /\ gsm.kind = "ok" => gsm.raw.run = gsm.run
    /\ pc = "off" /\ runs > 0 /\ rc = 0 =>
          \/ diff.kind = "compared" /\ diff.pass /\ diff.run = runs
          \/ gsm.kind = "ok" /\ gsm.pass # "no" /\ gsm.run = runs

(* A gate that was not killed leaves no server behind that it has started,  *)
(* whatever failed, but side B's if it was asked to; and the one that a     *)
(* launcher starts that was not told of the gate's end.                     *)
NoServerLeft ==
    pc = "off" /\ runs > 0 /\ rc # 137 =>
        /\ proc \notin {"starting", "up"}
        /\ listening.run = runs =>
              \/ cfg.keepB /\ listening.kv = "B" /\ rc # 6
              \/ rc = 143

(* Every invocation ends, although servers never come up. *)
GateEnds == pc # "off" ~> pc = "off"

=============================================================================
