----------------------------- MODULE CodeSandbox ------------------------------
(***************************************************************************)
(* evalsuite/families/code.py: an answer of the code family is scored by   *)
(* running it.  The scorer extracts a candidate, then starts one child     *)
(* process per test in one temporary directory, waits for it under a wall  *)
(* limit, kills its process group when the limit passes, and believes what *)
(* the child left behind: an exit status, its output, and a sentinel file  *)
(* whose name the driver learned before it handed over to the candidate.   *)
(*                                                                         *)
(* Time is counted in units of which the limits are whole multiples; a     *)
(* limit that has been reached is acted upon before the clock goes on.     *)
(***************************************************************************)
EXTENDS Integers

CONSTANTS
    TEST_TIMEOUT_S,   \* wall limit of one test
    ITEM_BUDGET_S,    \* no further test is started after this much
    KILL_WAIT_S,      \* how long a killed child is waited for
    MaxTests          \* bound: the longest test list of an item

ASSUME SandboxAssumption ==
    /\ TEST_TIMEOUT_S \in Nat \ {0} /\ ITEM_BUDGET_S \in Nat
    /\ KILL_WAIT_S \in Nat /\ MaxTests \in Nat \ {0}

EvalPlus == {"humanevalplus", "mbppplus"}

(* An item: its sub-family, by which its tests are run, and their number.  *)
(* The tests of an EvalPlus item are one script.                           *)
Item == {i \in [mode : EvalPlus \cup {"functional", "stdin"}, n : 1..MaxTests] :
            i.mode \in EvalPlus => i.n = 1}

(* What there is in a reply: a Python fence, a fence of another language   *)
(* that holds Python, and the text as a whole.                             *)
Reply == [py : {"none", "closed", "open", "blank"}, other : BOOLEAN,
          text : {"empty", "prose", "body", "code"}]

VARIABLES
    problem, reply,
    pc,          \* where score() stands
    test,        \* how many tests were started
    now, t0,     \* time since the item began; when this test did
    child,       \* the child process: its stage, exit status, standard error
    dir,         \* the runs whose sentinels lie in the directory
    timed_out, n_passed, verdict,
    honest,      \* history: the tests whose checks really succeeded
    late         \* history: the tests whose limit passed

sandboxVars == <<problem, reply, pc, test, now, t0, child, dir, timed_out, n_passed,
          verdict, honest, late>>

NoRc    == "unknown"             \* proc.returncode is None
NoChild == [at |-> "none", rc |-> NoRc, err |-> "clean"]
Pending == [status |-> "none", kind |-> "none", score |-> 0]

SandboxInit ==
    /\ problem \in Item /\ reply \in Reply
    /\ pc = "extract" /\ test = 0 /\ now = 0 /\ t0 = 0
    /\ child = NoChild /\ dir = {} /\ timed_out = FALSE
    /\ n_passed = 0 /\ verdict = Pending
    /\ honest = {} /\ late = {}

-----------------------------------------------------------------------------
(* extract_code: the last Python fence, else another fence that looks like *)
(* Python, else the text; an indented line is a body for HumanEval+ alone. *)
ExtractCode(i, r) ==
    CASE r.text = "empty"                           -> "none"
      [] r.py \in {"closed", "open"}                -> "fence"
      [] r.py = "blank"                             -> "none"
      [] r.other                                    -> "fence_other_lang"
      [] r.text = "code"                            -> "whole"
      [] r.text = "body" /\ i.mode = "humanevalplus" -> "whole"
      [] OTHER                                      -> "none"

Give(status, kind, score) ==
    verdict' = [status |-> status, kind |-> kind, score |-> score]

(* score, up to the run: the candidate is cut to what compiles.  A broken  *)
(* one is wrong, unless it came without a fence and reads like prose.      *)
Extract ==
    /\ pc = "extract"
    /\ LET method == ExtractCode(problem, reply) IN
       \E compiles, strong \in BOOLEAN :
          \/ /\ method = "none"
             /\ pc' = "done" /\ Give("unparsed", "none", 0)
          \/ /\ method # "none" /\ ~compiles
             /\ pc' = "done"
             /\ IF method = "whole" /\ ~strong THEN Give("unparsed", "none", 0)
                                               ELSE Give("wrong", "syntax_error", 0)
          \/ /\ method # "none" /\ compiles
             /\ pc' = "next" /\ UNCHANGED verdict
    /\ reply' = [py |-> "none", other |-> FALSE, text |-> "empty"]
    /\ UNCHANGED <<problem, test, now, t0, child, dir, timed_out, n_passed, honest, late>>

-----------------------------------------------------------------------------
(* _err_kind. *)
ErrKind(rc, err, late_, done) ==
    CASE late_                              -> "timeout"
      [] rc = "0" /\ ~done                  -> "early_exit"
      [] err = "assertion"                  -> "assertion"
      [] rc = "3" /\ err = "mismatch"       -> "wrong_output"
      [] rc = "-9"                          -> "killed"
      [] rc = "0"                           -> "ok"
      [] OTHER                              -> "exception"

(* The result of an item: partial credit exists for LiveCodeBench only. *)
Finish(passed, kind) ==
    /\ pc' = "cleanup"
    /\ Give(IF passed THEN "correct" ELSE "wrong", kind,
               IF passed \/ problem.mode \notin EvalPlus THEN n_passed ELSE 0)

(* Mutant of MayStart: the budget of the item is not looked at.            *)
MayStartAlways == test < problem.n

MayStart == test < problem.n /\ (problem.mode \in EvalPlus \/ now <= ITEM_BUDGET_S)

(* run_candidate starts the next test; the token of the run is new.  The   *)
(* budget is read between tests, and not for the one script of EvalPlus.   *)
StartTest ==
    /\ pc = "next" /\ MayStart
    /\ pc' = "communicate" /\ test' = test + 1 /\ t0' = now
    /\ child' = [at |-> "driver", rc |-> NoRc, err |-> "clean"]
    /\ timed_out' = FALSE
    /\ UNCHANGED <<problem, reply, now, dir, n_passed, verdict, honest, late>>

BudgetExceeded ==
    /\ pc = "next" /\ test < problem.n /\ ~MayStart
    /\ Finish(FALSE, "budget_exceeded")
    /\ UNCHANGED <<problem, reply, test, now, t0, child, dir, timed_out, n_passed, honest, late>>

AllPassed ==
    /\ pc = "next" /\ test = problem.n
    /\ Finish(TRUE, "ok")
    /\ UNCHANGED <<problem, reply, test, now, t0, child, dir, timed_out, n_passed, honest, late>>

-----------------------------------------------------------------------------
(* The child.  The driver consumes the token and hands over. *)
ChildStep(at, to, rc, err) ==
    /\ child.at = at
    /\ child' = [at |-> to, rc |-> rc, err |-> err]
    /\ UNCHANGED <<problem, reply, pc, test, now, t0, timed_out, n_passed, verdict, late>>

DriverArms == ChildStep("driver", "candidate", NoRc, "clean")
              /\ UNCHANGED <<dir, honest>>

(* The candidate passes what the driver or the test script compares.  A    *)
(* stdin program ends there: what counts is what it printed.               *)
ChecksPass ==
    /\ IF problem.mode = "stdin" THEN ChildStep("candidate", "exited", "0", "clean")
                              ELSE ChildStep("candidate", "checked", NoRc, "clean")
    /\ honest' = honest \cup {test}
    /\ UNCHANGED dir

(* Mutant of Sentinel: its name is the same for every run.                 *)
SentinelFixed(t) == 1

Sentinel(t) == t

WriteSentinel ==
    /\ ChildStep("checked", "sealed", NoRc, "clean")
    /\ dir' = dir \cup {Sentinel(test)}
    /\ UNCHANGED honest

ExitClean == ChildStep("sealed", "exited", "0", "clean") /\ UNCHANGED <<dir, honest>>

(* A check fails: an assertion of the script, the driver's comparison, or, *)
(* for a stdin program, nothing but a wrong output.                        *)
ChecksFail ==
    /\ \/ problem.mode \in EvalPlus   /\ ChildStep("candidate", "exited", "1", "assertion")
       \/ problem.mode = "functional" /\ ChildStep("candidate", "exited", "3", "mismatch")
       \/ problem.mode = "stdin"      /\ ChildStep("candidate", "exited", "0", "clean")
    /\ UNCHANGED <<dir, honest>>

(* The candidate ends the process by itself, raises, or meets a limit.     *)
ExitEarly == /\ \/ ChildStep("candidate", "exited", "0", "clean")
                \/ ChildStep("candidate", "exited", "1", "other")
                \/ ChildStep("candidate", "exited", "-9", "clean")
             /\ UNCHANGED <<dir, honest>>

Child == \/ DriverArms \/ ChecksPass \/ WriteSentinel \/ ExitClean \/ ChecksFail \/ ExitEarly

-----------------------------------------------------------------------------
(* What run_candidate takes for a pass; `out` is _stdout_matches. *)
Accept(out) ==
    /\ child.rc = "0" /\ ~timed_out
    /\ IF problem.mode = "stdin" THEN out ELSE Sentinel(test) \in dir

(* The process has ended, or is given up: the result is read and judged.   *)
(* The first failure ends the item.                                        *)
Judge ==
    LET out  == test \in honest
        done == problem.mode = "stdin" \/ Sentinel(test) \in dir
        kind == ErrKind(child.rc, child.err, timed_out, done)
    IN  IF Accept(out)
        THEN n_passed' = n_passed + 1 /\ pc' = "next" /\ UNCHANGED verdict
        ELSE /\ UNCHANGED n_passed
             /\ Finish(FALSE, IF kind = "ok" THEN "wrong_output" ELSE kind)

Collect ==
    /\ pc \in {"communicate", "rewait", "reap"} /\ child.at = "exited"
    /\ pc' = "judge"
    /\ UNCHANGED <<problem, reply, test, now, t0, child, dir, timed_out, n_passed, verdict, honest, late>>

JudgeTest ==
    /\ pc = "judge" /\ Judge
    /\ UNCHANGED <<problem, reply, test, now, t0, child, dir, timed_out, honest, late>>

(* The child closed its input before all of it was written: the scorer     *)
(* waits for it once more, for a whole limit.                              *)
BrokenPipe ==
    /\ pc = "communicate" /\ problem.mode = "stdin" /\ child.at # "driver"
    /\ pc' = "rewait" /\ t0' = now
    /\ UNCHANGED <<problem, reply, test, now, child, dir, timed_out, n_passed, verdict, honest, late>>

Overdue == now - t0 >= TEST_TIMEOUT_S

(* TimeoutExpired; the kill comes after it, so the child may still end.    *)
Timeout ==
    /\ pc = "communicate" /\ Overdue
    /\ pc' = "kill" /\ timed_out' = TRUE /\ late' = late \cup {test}
    /\ UNCHANGED <<problem, reply, test, now, t0, child, dir, n_passed, verdict, honest>>

Killed == IF child.at = "exited" THEN child ELSE [child EXCEPT !.at = "exited", !.rc = "-9"]

(* killpg, then a bounded wait for the remains. *)
Kill ==
    /\ pc = "kill"
    /\ pc' = "reap" /\ t0' = now
    /\ child' \in {Killed, child}
    /\ UNCHANGED <<problem, reply, test, now, dir, timed_out, n_passed, verdict, honest, late>>

(* A child that SIGKILL does not end in time is judged without a status.   *)
ReapGivesUp ==
    /\ pc = "reap" /\ child.at # "exited" /\ now - t0 >= KILL_WAIT_S
    /\ pc' = "judge" /\ child' = [child EXCEPT !.at = "none"]
    /\ UNCHANGED <<problem, reply, test, now, t0, dir, timed_out, n_passed, verdict, honest, late>>

(* The second wait ran out: the child alone is killed and not waited for.  *)
RewaitTimeout ==
    /\ pc = "rewait" /\ child.at # "exited" /\ Overdue
    /\ pc' = "judge" /\ timed_out' = TRUE /\ late' = late \cup {test}
    /\ child' = [child EXCEPT !.at = "none"]
    /\ UNCHANGED <<problem, reply, test, now, t0, dir, n_passed, verdict, honest>>

(* The directory goes with everything in it. *)
Cleanup ==
    /\ pc = "cleanup"
    /\ pc' = "done" /\ dir' = {}
    /\ UNCHANGED <<problem, reply, test, now, t0, child, timed_out, n_passed, verdict, honest, late>>

Limit == IF pc = "reap" THEN KILL_WAIT_S ELSE TEST_TIMEOUT_S

Tick ==
    /\ pc \in {"communicate", "rewait", "reap"} /\ now - t0 < Limit
    /\ now' = now + 1
    /\ UNCHANGED <<problem, reply, pc, test, t0, child, dir, timed_out, n_passed, verdict, honest, late>>

Scorer == \/ Extract \/ StartTest \/ BudgetExceeded \/ AllPassed \/ Collect \/ JudgeTest
          \/ Timeout \/ Kill \/ ReapGivesUp \/ RewaitTimeout \/ Cleanup

SandboxNext == Scorer \/ Child \/ BrokenPipe \/ Tick

SandboxSpec == SandboxInit /\ [][SandboxNext]_sandboxVars

-----------------------------------------------------------------------------
Rc == {NoRc, "0", "1", "3", "-9"}

(* The state has the types the code's variables have.                      *)
SandboxTypeOK ==
    /\ problem \in Item /\ reply \in Reply
    /\ pc \in {"extract", "next", "communicate", "rewait", "kill", "reap", "judge",
               "cleanup", "done"}
    /\ test \in 0..problem.n /\ now \in Nat /\ t0 \in 0..now
    /\ child \in [at : {"none", "driver", "candidate", "checked", "sealed", "exited"},
                  rc : Rc, err : {"clean", "assertion", "mismatch", "other"}]
    /\ dir \subseteq 1..problem.n /\ timed_out \in BOOLEAN /\ n_passed \in 0..problem.n
    /\ verdict \in [status : {"none", "unparsed", "wrong", "correct"},
                    kind : {"none", "ok", "syntax_error", "budget_exceeded", "timeout",
                            "early_exit", "assertion", "wrong_output", "killed", "exception"},
                    score : 0..problem.n]
    /\ honest \subseteq 1..problem.n /\ late \subseteq 1..problem.n

(* An answer is correct only when every hidden test really ran to its end  *)
(* and succeeded, whatever the candidate leaves in the directory between   *)
(* its tests or exits with (NOTES, code.py:69-73), and within its limit:   *)
(* not when the child sealed a test between the expiry and the kill.       *)
PassIsEarned == verdict.status = "correct" => honest = 1..problem.n /\ late = {}

(* Partial credit is given for a prefix of the tests that succeeded, and a *)
(* wrong answer never has all of it: the first failure stops the item.     *)
PartialIsPrefix ==
    verdict.status \in {"wrong", "correct"} =>
        /\ 1..verdict.score \subseteq honest
        /\ verdict.status = "wrong" => verdict.score < problem.n

(* An item never holds its scorer for longer than its budget, one test and *)
(* what follows a test that times out: a second wait or the killed child's.*)
WallBounded ==
    \/ now <= ITEM_BUDGET_S + TEST_TIMEOUT_S + KILL_WAIT_S
    \/ now <= ITEM_BUDGET_S + TEST_TIMEOUT_S + TEST_TIMEOUT_S

=============================================================================
