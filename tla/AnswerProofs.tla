------------------------------ MODULE AnswerProofs ------------------------------
(***************************************************************************)
(* Proofs about how an answer is judged: the execution of code answers,    *)
(* for every time limit and every number of tests, and the scoring of all  *)
(* other replies, for every set of items.                                  *)
(***************************************************************************)
EXTENDS CodeSandbox, Scoring, FiniteSetTheorems, WellFoundedInduction, TLAPS

-----------------------------------------------------------------------------
(* PART ONE: the execution of a code answer.                               *)

Alive   == {"communicate", "rewait", "kill", "reap"}
Waiting == Alive \cup {"judge"}
Over    == {"cleanup", "done"}

(* How many tests were passed, and what sentinels and history are worth:   *)
(* a sentinel is that of a test that succeeded, and a test that was started *)
(* and is not being judged was accepted.                                   *)
Counted ==
    /\ dir \subseteq honest /\ honest \subseteq 1..test
    /\ 1..n_passed \subseteq honest
    /\ pc = "extract" => test = 0 /\ n_passed = 0
    /\ pc = "next" => n_passed = test
    /\ pc \in Waiting => test >= 1 /\ n_passed = test - 1
    /\ child.at \in {"checked", "sealed"} => test \in honest
    /\ pc \notin Alive => child.at \in {"none", "exited"}

(* An expired limit is remembered until the item ends as wrong.            *)
Remembered ==
    /\ pc \in {"extract", "next", "communicate"} => late = {}
    /\ pc \in Waiting /\ ~timed_out => late = {}

(* What a verdict says of the state it was given in.                       *)
Justified ==
    /\ verdict.status # "none" => pc \in Over
    /\ verdict.status = "correct" => late = {} /\ n_passed = problem.n /\ test = problem.n
    /\ verdict.status \in {"correct", "wrong"} => verdict.score <= n_passed
    /\ verdict.status = "wrong" => verdict.score < problem.n

(* Where the time of an item goes.                                         *)
Timed ==
    /\ pc \in {"extract", "next"} /\ test = 0 => now = 0
    /\ pc = "communicate" => t0 <= ITEM_BUDGET_S /\ now - t0 <= TEST_TIMEOUT_S
    /\ pc = "rewait" => t0 <= ITEM_BUDGET_S + TEST_TIMEOUT_S /\ now - t0 <= TEST_TIMEOUT_S
    /\ pc = "kill" => now <= ITEM_BUDGET_S + TEST_TIMEOUT_S
    /\ pc = "reap" => t0 <= ITEM_BUDGET_S + TEST_TIMEOUT_S /\ now - t0 <= KILL_WAIT_S

IInv == SandboxTypeOK /\ Counted /\ Remembered /\ Justified /\ Timed /\ WallBounded

-----------------------------------------------------------------------------
LEMMA InitHolds == SandboxInit => IInv
  <1> SUFFICES ASSUME SandboxInit PROVE IInv
    OBVIOUS
  <1> USE SandboxAssumption DEF SandboxInit, NoChild, Pending, NoRc
  <1>1. SandboxTypeOK
    <2>1. 0 \in 0..problem.n /\ 0 \in 0..0
      BY DEF Item
    <2>2. verdict \in [status : {"none", "unparsed", "wrong", "correct"},
                       kind : {"none", "ok", "syntax_error", "budget_exceeded", "timeout",
                               "early_exit", "assertion", "wrong_output", "killed", "exception"},
                       score : 0..problem.n]
      BY <2>1
    <2>3. child \in [at : {"none", "driver", "candidate", "checked", "sealed", "exited"},
                     rc : Rc, err : {"clean", "assertion", "mismatch", "other"}]
      BY DEF Rc
    <2> QED BY <2>1, <2>2, <2>3 DEF SandboxTypeOK
  <1>2. Counted /\ Remembered
    BY DEF Counted, Remembered, Waiting, Alive
  <1>3. Justified /\ Timed /\ WallBounded
    BY DEF Justified, Timed, WallBounded
  <1> QED BY <1>1, <1>2, <1>3 DEF IInv

(* The state part of a step, with the values of one conjunct at a time.    *)
LEMMA ExtractHolds == IInv /\ Extract => IInv'
  <1> SUFFICES ASSUME IInv, Extract PROVE IInv'
    OBVIOUS
  <1> USE SandboxAssumption DEF IInv, Extract, Give
  <1>1. SandboxTypeOK'
    BY DEF SandboxTypeOK, Item, Reply, Rc
  <1>2. Counted' /\ Remembered'
    BY DEF SandboxTypeOK, Counted, Remembered, Waiting, Alive
  <1>3. Justified'
    BY DEF SandboxTypeOK, Counted, Justified, Over, Item
  <1>4. Timed' /\ WallBounded'
    BY DEF SandboxTypeOK, Counted, Timed, WallBounded
  <1> QED BY <1>1, <1>2, <1>3, <1>4

LEMMA StartTestHolds == IInv /\ StartTest => IInv'
  <1> SUFFICES ASSUME IInv, StartTest PROVE IInv'
    OBVIOUS
  <1> USE SandboxAssumption DEF IInv, StartTest, MayStart
  <1>1. SandboxTypeOK'
    <2>1. test + 1 \in 0..problem.n /\ now \in 0..now
      BY DEF SandboxTypeOK, Item
    <2>2. child' \in [at : {"none", "driver", "candidate", "checked", "sealed", "exited"},
                      rc : Rc, err : {"clean", "assertion", "mismatch", "other"}]
      BY DEF Rc, NoRc
    <2> QED BY <2>1, <2>2 DEF SandboxTypeOK
  <1>2. Counted'
    <2>1. test \in Nat /\ n_passed = test /\ test' = test + 1
      BY DEF SandboxTypeOK, Counted
    <2>2. honest \subseteq 1..test'
      BY <2>1 DEF Counted
    <2> QED BY <2>1, <2>2 DEF Counted, Waiting, Alive
  <1>3. Remembered' /\ Justified'
    BY DEF SandboxTypeOK, Remembered, Justified, Over, Waiting, Alive
  <1>4. t0' <= ITEM_BUDGET_S
    <2>1. CASE problem.mode \in EvalPlus
      BY <2>1 DEF SandboxTypeOK, Item, Timed
    <2>2. CASE problem.mode \notin EvalPlus
      BY <2>2
    <2> QED BY <2>1, <2>2
  <1>5. Timed' /\ WallBounded'
    BY <1>4 DEF SandboxTypeOK, Timed, WallBounded
  <1> QED BY <1>1, <1>2, <1>3, <1>5

LEMMA EndHolds ==
  ASSUME IInv, NEW passed \in BOOLEAN, NEW kind, Finish(passed, kind),
         kind \in {"ok", "budget_exceeded", "timeout", "early_exit", "assertion",
                   "wrong_output", "killed", "exception"},
         pc \in {"next", "judge"},
         passed => pc = "next" /\ test = problem.n,
         ~passed => n_passed < problem.n,
         UNCHANGED <<problem, reply, test, now, t0, child, dir, timed_out, n_passed, honest, late>>
  PROVE  IInv'
  <1> USE SandboxAssumption DEF IInv, Finish, Give
  <1>1. SandboxTypeOK'
    BY DEF SandboxTypeOK, Item, Reply, Rc
  <1>2. Counted' /\ Remembered'
    BY DEF SandboxTypeOK, Counted, Remembered, Waiting, Alive
  <1>3. Justified'
    <2>1. CASE passed
      BY <2>1 DEF SandboxTypeOK, Counted, Remembered, Justified, Over
    <2>2. CASE ~passed
      BY <2>2 DEF SandboxTypeOK, Counted, Justified, Over, Item
    <2> QED BY <2>1, <2>2
  <1>4. Timed' /\ WallBounded'
    BY DEF SandboxTypeOK, Timed, WallBounded
  <1> QED BY <1>1, <1>2, <1>3, <1>4

LEMMA ChildHolds == IInv /\ Child => IInv'
  <1> SUFFICES ASSUME IInv, Child PROVE IInv'
    OBVIOUS
  <1> USE SandboxAssumption DEF IInv, Child, DriverArms, ChecksPass, WriteSentinel,
      ExitClean, ChecksFail, ExitEarly, ChildStep, Sentinel
  <1>a. CASE pc \in Alive
    <2>1. test >= 1 /\ test \in 1..test /\ test \in 1..problem.n
      BY <1>a DEF SandboxTypeOK, Counted, Item, Waiting, Alive
    <2>2. SandboxTypeOK'
      <3>1. dir' \subseteq 1..problem.n /\ honest' \subseteq 1..problem.n
        BY <2>1 DEF SandboxTypeOK
      <3>2. child' \in [at : {"none", "driver", "candidate", "checked", "sealed", "exited"},
                        rc : Rc, err : {"clean", "assertion", "mismatch", "other"}]
        BY DEF Rc, NoRc
      <3> QED BY <3>1, <3>2 DEF SandboxTypeOK
    <2>3. Counted'
      <3>1. dir' \subseteq honest' /\ honest' \subseteq 1..test /\ 1..n_passed \subseteq honest'
        BY <2>1 DEF Counted
      <3>2. child'.at \in {"checked", "sealed"} => test \in honest'
        BY <2>1 DEF Counted
      <3> QED BY <1>a, <3>1, <3>2 DEF Counted, Alive
    <2>4. Remembered' /\ Justified' /\ Timed' /\ WallBounded'
      BY DEF Remembered, Justified, Timed, WallBounded
    <2> QED BY <2>2, <2>3, <2>4
  <1>b. CASE pc \notin Alive
    BY <1>b DEF Counted
  <1> QED BY <1>a, <1>b

LEMMA EndsHold == IInv /\ (BudgetExceeded \/ AllPassed) => IInv'
  <1>1. ASSUME IInv, BudgetExceeded PROVE IInv'
    <2>1. ~FALSE => n_passed < problem.n
      BY <1>1 DEF IInv, SandboxTypeOK, Counted, BudgetExceeded
    <2> QED BY <1>1, <2>1, EndHolds DEF BudgetExceeded
  <1>2. ASSUME IInv, AllPassed PROVE IInv'
    BY <1>2, EndHolds DEF AllPassed
  <1> QED BY <1>1, <1>2

LEMMA JudgeTestHolds == IInv /\ JudgeTest => IInv'
  <1> SUFFICES ASSUME IInv, JudgeTest PROVE IInv'
    OBVIOUS
  <1> DEFINE out  == test \in honest
             done == problem.mode = "stdin" \/ Sentinel(test) \in dir
             kind == ErrKind(child.rc, child.err, timed_out, done)
  <1>0. /\ pc = "judge" /\ test \in 1..problem.n /\ n_passed = test - 1 /\ n_passed < problem.n
        /\ test \in Nat /\ problem.n \in Nat
    BY DEF JudgeTest, IInv, SandboxTypeOK, Counted, Waiting, Item
  <1>1. CASE Accept(out)
    <2>1. /\ n_passed' = test /\ pc' = "next"
          /\ UNCHANGED <<problem, reply, test, now, t0, child, dir, timed_out, verdict, honest, late>>
      BY <1>0, <1>1 DEF JudgeTest, Judge
    <2>2. test \in honest /\ late = {}
      BY <1>0, <1>1 DEF Accept, Sentinel, IInv, Counted, Remembered, Waiting
    <2>3. SandboxTypeOK'
      BY <1>0, <2>1 DEF IInv, SandboxTypeOK
    <2>4. Counted'
      <3>1. 1..n_passed' \subseteq honest
        BY <1>0, <2>1, <2>2 DEF IInv, Counted
      <3> QED BY <1>0, <2>1, <3>1 DEF IInv, Counted, Waiting, Alive
    <2>5. Remembered' /\ Justified'
      BY <1>0, <2>1, <2>2 DEF IInv, Remembered, Justified, Waiting, Alive, Over
    <2>6. Timed' /\ WallBounded'
      BY <1>0, <2>1 DEF IInv, Timed, WallBounded
    <2> QED BY <2>3, <2>4, <2>5, <2>6 DEF IInv
  <1>2. CASE ~Accept(out)
    <2>1. Finish(FALSE, IF kind = "ok" THEN "wrong_output" ELSE kind) /\ UNCHANGED n_passed
      BY <1>2 DEF JudgeTest, Judge
    <2>2. kind \in {"ok", "timeout", "early_exit", "assertion", "wrong_output", "killed", "exception"}
      BY DEF ErrKind
    <2>3. UNCHANGED <<problem, reply, test, now, t0, child, dir, timed_out, n_passed, honest, late>>
      BY <2>1 DEF JudgeTest
    <2> HIDE DEF kind
    <2> QED BY <1>0, <2>1, <2>2, <2>3, EndHolds
  <1> QED BY <1>1, <1>2

(* The steps of the waiting scorer that give no verdict.                   *)
WaitStep == Collect \/ BrokenPipe \/ Timeout \/ Kill \/ ReapGivesUp \/ RewaitTimeout
            \/ Cleanup \/ Tick

LEMMA WaitHolds == IInv /\ WaitStep => IInv'
  <1> SUFFICES ASSUME IInv, WaitStep PROVE IInv'
    OBVIOUS
  <1> USE SandboxAssumption DEF IInv, WaitStep, Collect, BrokenPipe, Timeout, Kill, ReapGivesUp,
      RewaitTimeout, Cleanup, Tick, Killed, Overdue, Limit
  <1>0. now \in Nat /\ t0 \in Nat /\ t0 <= now /\ problem.n \in Nat
    BY DEF SandboxTypeOK, Item
  <1>1. child' \in [at : {"none", "driver", "candidate", "checked", "sealed", "exited"},
                    rc : Rc, err : {"clean", "assertion", "mismatch", "other"}]
    BY DEF SandboxTypeOK, Rc
  <1>2. now' \in Nat /\ t0' \in 0..now' /\ late' \subseteq 1..problem.n
    BY <1>0 DEF SandboxTypeOK, Counted, Waiting, Alive
  <1>3. /\ dir' \subseteq dir /\ timed_out' \in BOOLEAN
        /\ pc' \in {"communicate", "rewait", "kill", "reap", "judge", "done"}
    BY DEF SandboxTypeOK
  <1>4. UNCHANGED <<problem, reply, test, n_passed, verdict, honest>>
    OBVIOUS
  <1>5. SandboxTypeOK'
    BY <1>1, <1>2, <1>3, <1>4 DEF SandboxTypeOK
  <1>6. Counted'
    BY <1>3, <1>4 DEF SandboxTypeOK, Counted, Waiting, Alive
  <1>7. Remembered'
    BY DEF SandboxTypeOK, Remembered, Waiting, Alive
  <1>8. Justified'
    BY DEF Justified, Over
  <1>9. Timed' /\ WallBounded'
    BY <1>0 DEF SandboxTypeOK, Timed, WallBounded
  <1> QED BY <1>5, <1>6, <1>7, <1>8, <1>9

-----------------------------------------------------------------------------
(* The strengthening holds of every reachable state, however the child     *)
(* and the clock interleave with the scorer.                               *)
THEOREM SandboxInvariant == SandboxSpec => []IInv
  <1>1. IInv /\ [SandboxNext]_sandboxVars => IInv'
    <2> SUFFICES ASSUME IInv, [SandboxNext]_sandboxVars PROVE IInv'
      OBVIOUS
    <2>1. CASE UNCHANGED sandboxVars
      BY <2>1 DEF IInv, SandboxTypeOK, Counted, Remembered, Justified, Timed, WallBounded, sandboxVars, Rc
    <2> QED BY <2>1, ExtractHolds, StartTestHolds, ChildHolds, EndsHold, JudgeTestHolds, WaitHolds
            DEF SandboxNext, Scorer, WaitStep
  <1> QED BY InitHolds, <1>1, PTL DEF SandboxSpec

(* code.py scores with the types its records have, for every item.         *)
THEOREM SandboxTypeCorrect == SandboxSpec => []SandboxTypeOK
  BY SandboxInvariant, PTL DEF IInv

(* An answer counts as correct only when every test ran and succeeded      *)
(* within its limit: the sentinel of one run is worth nothing to the next  *)
(* (code.py:588-646), nor what a child writes before the kill (682-691).   *)
THEOREM CorrectIsEarned == SandboxSpec => []PassIsEarned
  <1>1. IInv => PassIsEarned
    BY DEF IInv, SandboxTypeOK, Counted, Justified, PassIsEarned
  <1> QED BY SandboxInvariant, <1>1, PTL

(* Partial credit counts a prefix of succeeded tests (code.py:838-846).    *)
THEOREM CreditIsPrefix == SandboxSpec => []PartialIsPrefix
  <1>1. IInv => PartialIsPrefix
    BY DEF IInv, SandboxTypeOK, Counted, Justified, PartialIsPrefix
  <1> QED BY SandboxInvariant, <1>1, PTL

(* The time an item can hold its scorer (code.py:112-113, 822, 680-703).   *)
THEOREM ItemTimeBounded == SandboxSpec => []WallBounded
  BY SandboxInvariant, PTL DEF IInv

-----------------------------------------------------------------------------
(* PART TWO: what a reply is worth.  Induction over sets of naturals, in   *)
(* place of the theorems of the library that take an operator.             *)
Less == {p \in Nat \X Nat : p[1] < p[2]}

LEMMA LeastElement ==
    ASSUME NEW T, T \subseteq Nat, T # {}
    PROVE  \E n \in T : \A m \in T : n <= m
<1>1. OpToRel(<, Nat) = Less
  BY DEF OpToRel, Less
<1>2. PICK n \in T : \A m \in T : <<m, n>> \notin Less
  BY <1>1, NatLessThanWellFounded, WFMin
<1>3. \A m \in T : ~(m < n)
  <2> TAKE m \in T
  <2>1. <<m, n>> \in Nat \X Nat /\ <<m, n>> \notin Less
    BY <1>2
  <2> QED BY <2>1 DEF Less
<1> QED BY <1>3

LEMMA Induction ==
    ASSUME NEW T, 0 \in T, NEW N \in Nat, \A n \in 0..(N - 1) : n \in T => n + 1 \in T
    PROVE  \A n \in 0..N : n \in T
<1> SUFFICES ASSUME NEW x \in 0..N, x \notin T PROVE FALSE
  OBVIOUS
<1> DEFINE F == {n \in 0..N : n \notin T}
<1>1. F \subseteq Nat /\ F # {}
  OBVIOUS
<1> HIDE DEF F
<1>2. PICK n \in F : \A m \in F : n <= m
  BY <1>1, LeastElement
<1>3. n \in 0..N /\ n \notin T /\ n # 0
  BY <1>2 DEF F
<1>4. n - 1 \in 0..(N - 1) /\ n - 1 \notin F
  BY <1>2, <1>3
<1>5. n - 1 \in T
  BY <1>3, <1>4 DEF F
<1> QED BY <1>3, <1>4, <1>5

LEMMA MinIs ==
    ASSUME NEW S, S \subseteq Nat, S # {}
    PROVE  Min(S) \in S /\ \A y \in S : Min(S) <= y
BY LeastElement DEF Min

LEMMA MaxIs ==
    ASSUME NEW n \in Nat, NEW S, S \subseteq 0..n, S # {}
    PROVE  Max(S) \in S /\ \A y \in S : y <= Max(S)
<1> DEFINE T == {n - s : s \in S}
<1>1. T \subseteq Nat /\ T # {}
  <2>1. \A s \in S : n - s \in Nat
    OBVIOUS
  <2> QED BY <2>1
<1>2. PICK k \in T : \A m \in T : k <= m
  BY <1>1, LeastElement
<1>3. PICK s \in S : k = n - s
  OBVIOUS
<1>4. \A y \in S : n - y \in T /\ y \in Int
  OBVIOUS
<1>5. \A y \in S : s >= y
  BY <1>2, <1>3, <1>4
<1>6. Max(S) \in S /\ \A y \in S : Max(S) >= y
  BY <1>5 DEF Max
<1> QED BY <1>6

-----------------------------------------------------------------------------
(* A loop that computes one value from the one before, step[i, value],      *)
(* computes a sequence of them.                                            *)
Computes(f, first, step, n) ==
    f[0] = first /\ \A i \in 1..n : f[i] = step[<<i, f[i - 1]>>]

LEMMA LoopExists ==
    ASSUME NEW V, NEW first \in V, NEW N \in Nat, NEW step \in [(1..N) \X V -> V]
    PROVE  \E f \in [0..N -> V] : Computes(f, first, step, N)
<1> DEFINE T == {n \in Nat : n <= N => \E f \in [0..n -> V] : Computes(f, first, step, n)}
<1>1. 0 \in T
  <2> DEFINE f == [i \in 0..0 |-> first]
  <2>1. f \in [0..0 -> V] /\ Computes(f, first, step, 0)
    BY DEF Computes
  <2> QED BY <2>1
<1>2. ASSUME NEW n \in Nat, n \in T, n + 1 <= N PROVE n + 1 \in T
  <2>1. PICK f \in [0..n -> V] : Computes(f, first, step, n)
    BY <1>2
  <2>2. <<n + 1, f[n]>> \in (1..N) \X V
    BY <1>2
  <2> DEFINE g == [i \in 0..(n + 1) |-> IF i = n + 1 THEN step[<<n + 1, f[n]>>] ELSE f[i]]
  <2>3. g \in [0..(n + 1) -> V]
    BY <2>2
  <2>4. \A i \in 0..n : g[i] = f[i]
    OBVIOUS
  <2>5. g[n + 1] = step[<<n + 1, g[n]>>]
    <3>1. n \in 0..n /\ n + 1 \in 0..(n + 1)
      OBVIOUS
    <3> QED BY <2>4, <3>1
  <2> HIDE DEF g
  <2>6. ASSUME NEW i \in 1..(n + 1) PROVE g[i] = step[<<i, g[i - 1]>>]
    <3>1. CASE i = n + 1
      BY <2>5, <3>1
    <3>2. CASE i # n + 1
      <4>1. i \in 1..n /\ i \in 0..n /\ i - 1 \in 0..n
        BY <3>2
      <4> QED BY <2>1, <2>4, <4>1 DEF Computes
    <3> QED BY <3>1, <3>2
  <2>7. g[0] = first
    BY <2>1, <2>4 DEF Computes
  <2>8. Computes(g, first, step, n + 1)
    BY <2>6, <2>7 DEF Computes
  <2> QED BY <2>3, <2>8
<1>3. \A n \in 0..(N - 1) : n \in T => n + 1 \in T
  BY <1>2
<1>4. N \in T
  <2> HIDE DEF T
  <2>1. \A n \in 0..N : n \in T
    BY <1>1, <1>3, Induction
  <2> QED BY <2>1
<1> QED BY <1>4

-----------------------------------------------------------------------------
(* What Keep leaves of a text. *)
KeptUpTo(kept, M, t, K) ==
    /\ kept \in [0..Len(t) -> Seq(M)]
    /\ kept[0] = <<>> /\ Keep(t, K) = kept[Len(t)]
    /\ \A i \in 1..Len(t) : kept[i] = IF i \in K THEN Append(kept[i - 1], t[i])
                                      ELSE kept[i - 1]

LEMMA KeptIs ==
    ASSUME NEW M, NEW t \in Seq(M), NEW K
    PROVE  \E kept : KeptUpTo(kept, M, t, K)
<1> DEFINE N == Len(t)
           step == [x \in (1..N) \X Seq(M) |-> IF x[1] \in K THEN Append(x[2], t[x[1]]) ELSE x[2]]
           Eq(g) == g = [i \in 0..N |-> IF i = 0 THEN <<>>
                                        ELSE IF i \in K THEN Append(g[i - 1], t[i]) ELSE g[i - 1]]
<1>1. N \in Nat /\ \A i \in 1..N : t[i] \in M
  OBVIOUS
<1>2. Keep(t, K) = (CHOOSE g : Eq(g))[N]
  BY DEF Keep
<1> HIDE DEF N
<1>3. step \in [(1..N) \X Seq(M) -> Seq(M)]
  <2>1. \A i \in 1..N, s \in Seq(M) : Append(s, t[i]) \in Seq(M)
    BY <1>1
  <2> QED BY <2>1
<1>4. \A i \in 1..N, s \in Seq(M) : step[<<i, s>>] = IF i \in K THEN Append(s, t[i]) ELSE s
  OBVIOUS
<1> HIDE DEF step
<1>5. <<>> \in Seq(M)
  OBVIOUS
<1>6. PICK f \in [0..N -> Seq(M)] : Computes(f, <<>>, step, N)
  BY <1>1, <1>3, <1>5, LoopExists
<1>7. ASSUME NEW i \in 0..N
      PROVE  f[i] = IF i = 0 THEN <<>> ELSE IF i \in K THEN Append(f[i - 1], t[i]) ELSE f[i - 1]
  <2>1. CASE i = 0
    BY <1>6, <2>1 DEF Computes
  <2>2. CASE i # 0
    <3>1. i \in 1..N /\ i - 1 \in 0..N
      BY <1>1, <2>2
    <3>2. f[i] = step[<<i, f[i - 1]>>] /\ f[i - 1] \in Seq(M)
      BY <1>6, <3>1 DEF Computes
    <3> QED BY <1>4, <2>2, <3>1, <3>2
  <2> QED BY <2>1, <2>2
<1>8. Eq(f)
  BY <1>7
<1> DEFINE kept == CHOOSE g : Eq(g)
<1>9. Eq(kept)
  <2> HIDE DEF Eq
  <2> QED BY <1>8
<1>10. Keep(t, K) = kept[N]
  BY <1>2
<1> HIDE DEF kept
<1>11. \A i \in 0..N : kept[i] = IF i = 0 THEN <<>>
                                 ELSE IF i \in K THEN Append(kept[i - 1], t[i]) ELSE kept[i - 1]
  BY <1>9
<1>12. \A i \in 0..N : kept[i] \in Seq(M)
  <2> DEFINE T == {n \in Nat : n \in 0..N => kept[n] \in Seq(M)}
  <2>1. 0 \in T
    BY <1>1, <1>5, <1>11
  <2>2. ASSUME NEW n \in 0..(N - 1), n \in T PROVE n + 1 \in T
    <3>1. n \in 0..N /\ n + 1 \in 1..N /\ n + 1 \in 0..N /\ n + 1 # 0 /\ (n + 1) - 1 = n
      BY <1>1
    <3>2. kept[n] \in Seq(M)
      BY <2>2, <3>1
    <3>3. kept[n + 1] = IF n + 1 \in K THEN Append(kept[n], t[n + 1]) ELSE kept[n]
      BY <1>11, <3>1
    <3>4. Append(kept[n], t[n + 1]) \in Seq(M)
      BY <1>1, <3>1, <3>2
    <3>5. kept[n + 1] \in Seq(M)
      BY <3>2, <3>3, <3>4
    <3> QED BY <3>1, <3>5
  <2>3. \A n \in 0..(N - 1) : n \in T => n + 1 \in T
    BY <2>2
  <2>4. \A n \in 0..N : n \in T
    <3> HIDE DEF T
    <3> QED BY <1>1, <2>1, <2>3, Induction
  <2> QED BY <2>4
<1>13. DOMAIN kept = 0..N /\ kept = [i \in 0..N |-> kept[i]]
  BY <1>9
<1>14. kept \in [0..N -> Seq(M)]
  BY <1>12, <1>13
<1>15. 0 \in 0..N /\ \A i \in 1..N : i \in 0..N /\ i # 0
  BY <1>1
<1>16. KeptUpTo(kept, M, t, K)
  BY <1>5, <1>10, <1>11, <1>14, <1>15 DEF N, KeptUpTo
<1> QED BY <1>16

(* The entries of u are those of t at the places K up to n, in their order:  *)
(* pos says where each was.                                                *)
KeptFrom(t, K, n, u, pos) ==
    /\ pos \in [1..Len(u) -> 1..n]
    /\ \A j \in 1..Len(u) : pos[j] \in K /\ u[j] = t[pos[j]]
    /\ \A j, k \in 1..Len(u) : j < k => pos[j] < pos[k]
    /\ \A i \in 1..n : i \in K => \E j \in 1..Len(u) : pos[j] = i

LEMMA KeptNext ==
    ASSUME NEW M, NEW t \in Seq(M), NEW K, NEW n \in Nat, n + 1 <= Len(t),
           NEW u \in Seq(M), NEW pos, KeptFrom(t, K, n, u, pos), n + 1 \in K
    PROVE  \E q : KeptFrom(t, K, n + 1, Append(u, t[n + 1]), q)
<1> DEFINE v == Append(u, t[n + 1])
           q == [j \in 1..(Len(u) + 1) |-> IF j = Len(u) + 1 THEN n + 1 ELSE pos[j]]
           l == Len(u)
<1>1. t[n + 1] \in M /\ l \in Nat /\ Len(t) \in Nat
  OBVIOUS
<1>2. v \in Seq(M) /\ Len(v) = l + 1 /\ v[l + 1] = t[n + 1] /\ \A j \in 1..l : v[j] = u[j]
  BY <1>1
<1>3. q[l + 1] = n + 1 /\ \A j \in 1..l : q[j] = pos[j]
  BY <1>1
<1>4. /\ pos \in [1..l -> 1..n]
      /\ \A j \in 1..l : pos[j] \in K /\ u[j] = t[pos[j]]
      /\ \A j, k \in 1..l : j < k => pos[j] < pos[k]
      /\ \A i \in 1..n : i \in K => \E j \in 1..l : pos[j] = i
  BY DEF KeptFrom
<1>5. q \in [1..(l + 1) -> 1..(n + 1)]
  BY <1>1, <1>4
<1> HIDE DEF v, q, l
<1>6. \A j \in 1..(l + 1) : j = l + 1 \/ j \in 1..l
  BY <1>1
<1>7. \A j \in 1..(l + 1) : q[j] \in K /\ v[j] = t[q[j]]
  BY <1>2, <1>3, <1>4, <1>6
<1>8. ASSUME NEW j \in 1..(l + 1), NEW k \in 1..(l + 1), j < k PROVE q[j] < q[k]
  <2>1. j \in 1..l /\ pos[j] \in 1..n
    BY <1>1, <1>4, <1>8
  <2>2. CASE k = l + 1
    BY <1>3, <2>1, <2>2
  <2>3. CASE k \in 1..l
    BY <1>3, <1>4, <1>8, <2>1, <2>3
  <2> QED BY <1>6, <2>2, <2>3
<1>9. ASSUME NEW i \in 1..(n + 1), i \in K PROVE \E j \in 1..(l + 1) : q[j] = i
  <2>1. CASE i = n + 1
    BY <1>1, <1>3, <2>1
  <2>2. CASE i \in 1..n
    <3>1. PICK j \in 1..l : pos[j] = i
      BY <1>4, <1>9, <2>2
    <3>2. j \in 1..(l + 1) /\ q[j] = i
      BY <1>1, <1>3, <3>1
    <3> QED BY <3>2
  <2> QED BY <2>1, <2>2
<1>10. KeptFrom(t, K, n + 1, v, q)
  BY <1>2, <1>5, <1>7, <1>8, <1>9 DEF KeptFrom
<1> QED BY <1>10 DEF v

LEMMA KeepIs ==
    ASSUME NEW M, NEW t \in Seq(M), NEW K
    PROVE  /\ Keep(t, K) \in Seq(M)
           /\ \E pos : KeptFrom(t, K, Len(t), Keep(t, K), pos)
           /\ (\A i \in 1..Len(t) : i \in K) => Keep(t, K) = t
<1> DEFINE N == Len(t)
<1>1. N \in Nat
  OBVIOUS
<1>a. PICK kept : KeptUpTo(kept, M, t, K)
  BY KeptIs
<1>2. /\ kept \in [0..N -> Seq(M)] /\ kept[0] = <<>> /\ Keep(t, K) = kept[N]
      /\ \A i \in 1..N : kept[i] = IF i \in K THEN Append(kept[i - 1], t[i]) ELSE kept[i - 1]
  BY <1>a DEF KeptUpTo
<1> HIDE DEF N
<1> DEFINE Good(n) == \E pos : KeptFrom(t, K, n, kept[n], pos)
           All(n)  == (\A i \in 1..n : i \in K) =>
                         Len(kept[n]) = n /\ \A i \in 1..n : kept[n][i] = t[i]
           T == {n \in Nat : Good(n) /\ All(n)}
<1>3. 0 \in T
  <2>1. Len(kept[0]) = 0
    BY <1>2
  <2>2. KeptFrom(t, K, 0, kept[0], <<>>)
    BY <2>1 DEF KeptFrom
  <2> QED BY <2>1, <2>2
<1>4. ASSUME NEW n \in 0..(N - 1), n \in T PROVE n + 1 \in T
  <2>1. n \in Nat /\ n \in 0..N /\ n + 1 \in 1..N /\ (n + 1) - 1 = n /\ n + 1 <= Len(t)
    BY <1>1 DEF N
  <2>2. PICK pos : KeptFrom(t, K, n, kept[n], pos)
    BY <1>4
  <2>3. kept[n] \in Seq(M) /\ All(n)
    BY <1>2, <1>4, <2>1
  <2>4. kept[n + 1] = IF n + 1 \in K THEN Append(kept[n], t[n + 1]) ELSE kept[n]
    BY <1>2, <2>1
  <2>5. Good(n + 1)
    <3>1. CASE n + 1 \in K
      <4> DEFINE u == kept[n]
      <4>0. u \in Seq(M) /\ KeptFrom(t, K, n, u, pos)
        BY <2>2, <2>3
      <4> HIDE DEF u
      <4>1. \E q : KeptFrom(t, K, n + 1, Append(u, t[n + 1]), q)
        BY <2>1, <3>1, <4>0, KeptNext
      <4> QED BY <2>4, <3>1, <4>1 DEF u
    <3>2. CASE n + 1 \notin K
      <4>1. \A i \in 1..(n + 1) : i \in K => i \in 1..n
        BY <2>1, <3>2
      <4>2. 1..n \subseteq 1..(n + 1)
        BY <2>1
      <4>3. KeptFrom(t, K, n + 1, kept[n], pos)
        BY <2>2, <4>1, <4>2 DEF KeptFrom
      <4> QED BY <2>4, <3>2, <4>3
    <3> QED BY <3>1, <3>2
  <2>6. All(n + 1)
    <3> SUFFICES ASSUME \A i \in 1..(n + 1) : i \in K
                 PROVE  Len(kept[n + 1]) = n + 1 /\ \A i \in 1..(n + 1) : kept[n + 1][i] = t[i]
      OBVIOUS
    <3>1. n + 1 \in 1..(n + 1) /\ \A i \in 1..n : i \in 1..(n + 1)
      BY <2>1
    <3>2. Len(kept[n]) = n /\ \A i \in 1..n : kept[n][i] = t[i]
      BY <2>3, <3>1
    <3>3. kept[n + 1] = Append(kept[n], t[n + 1])
      BY <2>4, <3>1
    <3> QED BY <2>1, <2>3, <3>2, <3>3
  <2> QED BY <2>1, <2>5, <2>6
<1>5. N \in T
  <2>1. \A n \in 0..(N - 1) : n \in T => n + 1 \in T
    BY <1>4
  <2> HIDE DEF T
  <2>2. \A n \in 0..N : n \in T
    BY <1>1, <1>3, <2>1, Induction
  <2> QED BY <1>1, <2>2
<1>6. Keep(t, K) \in Seq(M)
  BY <1>1, <1>2
<1>7. (\A i \in 1..N : i \in K) => Keep(t, K) = t
  <2>1. (\A i \in 1..N : i \in K) =>
           Len(Keep(t, K)) = N /\ \A i \in 1..N : Keep(t, K)[i] = t[i]
    BY <1>2, <1>5
  <2> QED BY <1>6, <2>1 DEF N
<1>8. Good(N)
  BY <1>5
<1> QED BY <1>2, <1>6, <1>7, <1>8 DEF N

-----------------------------------------------------------------------------
(* The blocks of a text. *)
NextBlock(t, i, before) ==
    IF i <= before[2] THEN before
    ELSE IF Closes(t, i) = {} THEN NoBlock ELSE <<i, Min(Closes(t, i))>>

LEMMA ClosesIs ==
    ASSUME NEW t \in Seq(Marks), NEW i \in 1..Len(t), Closes(t, i) # {}
    PROVE  /\ t[i] \in Openers /\ Min(Closes(t, i)) \in (i + 1)..Len(t)
           /\ t[Min(Closes(t, i))] \in Closers
<1>1. Closes(t, i) \subseteq Nat
  BY DEF Closes, Places
<1>2. Min(Closes(t, i)) \in Closes(t, i)
  BY <1>1, MinIs
<1>3. \A j \in Closes(t, i) : t[i] \in Openers /\ j \in (i + 1)..Len(t) /\ t[j] = CloserOf(t[i])
  BY DEF Closes, Places
<1> QED BY <1>2, <1>3 DEF Closers

LEMMA BlockAtIs ==
    ASSUME NEW t \in Seq(Marks)
    PROVE  /\ BlockAt(t)[0] = NoBlock
           /\ \A i \in 1..Len(t) : BlockAt(t)[i] = NextBlock(t, i, BlockAt(t)[i - 1])
<1> DEFINE N == Len(t)
           V == Nat \X Nat
           step == [x \in (1..N) \X V |-> NextBlock(t, x[1], x[2])]
           Eq(g) == g = [i \in 0..N |-> IF i = 0 THEN NoBlock
                           ELSE IF i <= g[i - 1][2] THEN g[i - 1]
                           ELSE IF Closes(t, i) = {} THEN NoBlock ELSE <<i, Min(Closes(t, i))>>]
<1>1. N \in Nat
  OBVIOUS
<1>2. BlockAt(t) = CHOOSE g : Eq(g)
  BY DEF BlockAt
<1>3. ASSUME NEW i \in 1..N, NEW v \in V PROVE NextBlock(t, i, v) \in V
  <2>1. Closes(t, i) # {} => Min(Closes(t, i)) \in Nat
    BY ClosesIs
  <2> QED BY <1>3, <2>1 DEF NextBlock, NoBlock
<1> HIDE DEF N
<1>4. step \in [(1..N) \X V -> V]
  BY <1>3
<1>5. NoBlock \in V
  BY DEF NoBlock
<1>6. \A i \in 1..N, v \in V : step[<<i, v>>] = NextBlock(t, i, v)
  OBVIOUS
<1> HIDE DEF step, V
<1>7. PICK f \in [0..N -> V] : Computes(f, NoBlock, step, N)
  BY <1>1, <1>4, <1>5, LoopExists
<1>8. ASSUME NEW i \in 0..N
      PROVE  f[i] = IF i = 0 THEN NoBlock ELSE NextBlock(t, i, f[i - 1])
  <2>1. CASE i = 0
    BY <1>7, <2>1 DEF Computes
  <2>2. CASE i # 0
    <3>1. i \in 1..N /\ i - 1 \in 0..N
      BY <1>1, <2>2
    <3>2. f[i] = step[<<i, f[i - 1]>>] /\ f[i - 1] \in V
      BY <1>7, <3>1 DEF Computes
    <3> QED BY <1>6, <2>2, <3>1, <3>2
  <2> QED BY <2>1, <2>2
<1>9. Eq(f)
  BY <1>8 DEF NextBlock
<1> DEFINE block == CHOOSE g : Eq(g)
<1>10. Eq(block)
  <2> HIDE DEF Eq
  <2> QED BY <1>9
<1>11. BlockAt(t) = block
  BY <1>2
<1> HIDE DEF block
<1>12. \A i \in 0..N : block[i] = IF i = 0 THEN NoBlock
                           ELSE IF i <= block[i - 1][2] THEN block[i - 1]
                           ELSE IF Closes(t, i) = {} THEN NoBlock ELSE <<i, Min(Closes(t, i))>>
  BY <1>10
<1>13. 0 \in 0..N /\ \A i \in 1..N : i \in 0..N /\ i # 0
  BY <1>1
<1>14. \A i \in 1..N : block[i] = NextBlock(t, i, block[i - 1])
  BY <1>12, <1>13 DEF NextBlock
<1> QED BY <1>11, <1>12, <1>13, <1>14 DEF N

(* A block begins with an opening tag and ends with a closing one, and all  *)
(* places between belong to it.                                            *)
IsBlock(t, i) ==
    LET b == BlockAt(t)[i] IN
    /\ b[1] \in 1..i /\ b[2] \in i..Len(t)
    /\ t[b[1]] \in Openers /\ t[b[2]] \in Closers
    /\ \A j \in b[1]..i : BlockAt(t)[j] = b

LEMMA BlocksAreBlocks ==
    ASSUME NEW t \in Seq(Marks), NEW i \in 1..Len(t), BlockAt(t)[i] # NoBlock
    PROVE  IsBlock(t, i)
<1> DEFINE N == Len(t)  b == BlockAt(t)
           T == {n \in Nat : n \in 1..N /\ b[n] # NoBlock => IsBlock(t, n)}
<1>1. N \in Nat /\ 0 \in T /\ b[0] = NoBlock
  BY BlockAtIs
<1>2. ASSUME NEW n \in 0..(N - 1), n \in T PROVE n + 1 \in T
  <2> DEFINE m == n + 1
  <2>0. m \in 1..N /\ m - 1 = n /\ n \in Nat /\ m \in Nat
    BY <1>1
  <2> HIDE DEF m, b, N, T
  <2>1. b[m] = NextBlock(t, m, b[n])
    BY <2>0, BlockAtIs DEF b, N
  <2>2. CASE m <= b[n][2]
    <3>1. b[m] = b[n]
      BY <2>1, <2>2 DEF NextBlock
    <3>2. b[n] # NoBlock
      BY <2>0, <2>2 DEF NoBlock
    <3>3. n # 0 /\ n \in 1..N
      BY <1>1, <2>0, <3>2
    <3>4. IsBlock(t, n)
      BY <1>2, <3>2, <3>3 DEF T
    <3>5. /\ b[n][1] \in 1..n /\ b[n][2] \in n..N
          /\ t[b[n][1]] \in Openers /\ t[b[n][2]] \in Closers
          /\ \A j \in b[n][1]..n : b[j] = b[n]
      BY <3>4 DEF IsBlock, b, N
    <3>6. b[m][1] \in 1..m /\ b[m][2] \in m..N
      BY <1>1, <2>0, <2>2, <3>1, <3>5
    <3>7. \A j \in b[m][1]..m : j = m \/ j \in b[n][1]..n
      BY <2>0, <3>1, <3>5
    <3>8. \A j \in b[m][1]..m : b[j] = b[m]
      BY <3>1, <3>5, <3>7
    <3>9. IsBlock(t, m)
      BY <3>1, <3>5, <3>6, <3>8 DEF IsBlock, b, N
    <3> QED BY <2>0, <3>9 DEF T, m
  <2>3. CASE ~(m <= b[n][2]) /\ Closes(t, m) = {}
    <3>1. b[m] = NoBlock
      BY <2>1, <2>3 DEF NextBlock
    <3> QED BY <2>0, <3>1 DEF T, m
  <2>4. CASE ~(m <= b[n][2]) /\ Closes(t, m) # {}
    <3> DEFINE c == Min(Closes(t, m))
    <3>1. b[m] = <<m, c>>
      BY <2>1, <2>4 DEF NextBlock
    <3>2. t[m] \in Openers /\ c \in (m + 1)..N /\ t[c] \in Closers
      BY <2>0, <2>4, ClosesIs DEF N
    <3> HIDE DEF c
    <3>3. b[m][1] = m /\ b[m][2] = c
      BY <3>1
    <3>4. \A j \in m..m : j = m
      BY <2>0
    <3>5. c \in m..N /\ m \in 1..m
      BY <1>1, <2>0, <3>2
    <3>6. IsBlock(t, m)
      BY <3>2, <3>3, <3>4, <3>5 DEF IsBlock, b, N
    <3> QED BY <2>0, <3>6 DEF T, m
  <2> QED BY <2>2, <2>3, <2>4
<1>3. i \in T
  <2>1. \A n \in 0..(N - 1) : n \in T => n + 1 \in T
    BY <1>2
  <2> HIDE DEF T
  <2>2. \A n \in 0..N : n \in T
    BY <1>1, <2>1, Induction
  <2> QED BY <2>2
<1> QED BY <1>3

LEMMA BlockGoesOn ==
    ASSUME NEW t \in Seq(Marks), NEW i \in 1..Len(t), BlockAt(t)[i] # NoBlock,
           NEW k \in i..BlockAt(t)[i][2]
    PROVE  BlockAt(t)[k] = BlockAt(t)[i]
<1> DEFINE N == Len(t)  b == BlockAt(t)  c == b[i][2]
           T == {n \in Nat : b[i + n] = b[i]}
<1>1. N \in Nat /\ i \in 1..N /\ c \in i..N
  BY BlocksAreBlocks DEF IsBlock
<1>2. 0 \in T /\ k - i \in 0..(c - i) /\ c - i \in Nat
  <2>1. k \in i..c /\ i + 0 = i
    BY <1>1
  <2>2. k - i \in 0..(c - i) /\ c - i \in Nat
    BY <1>1, <2>1
  <2> HIDE DEF b, c, N
  <2>3. 0 \in T
    BY <2>1
  <2> QED BY <2>2, <2>3
<1>3. ASSUME NEW n \in 0..((c - i) - 1), n \in T PROVE n + 1 \in T
  <2> DEFINE m == i + n + 1
  <2>1. m \in 1..N /\ m - 1 = i + n /\ m <= c /\ m = i + (n + 1)
    BY <1>1
  <2>2. b[i + n] = b[i]
    BY <1>3
  <2> HIDE DEF m, b, N
  <2>3. b[m] = NextBlock(t, m, b[m - 1])
    BY <2>1, BlockAtIs DEF b, N
  <2>4. b[m] = b[i]
    BY <2>1, <2>2, <2>3 DEF NextBlock
  <2> QED BY <2>1, <2>4
<1>4. k - i \in T
  <2>1. \A n \in 0..((c - i) - 1) : n \in T => n + 1 \in T
    BY <1>3
  <2> DEFINE d == c - i
  <2>2. d \in Nat /\ k - i \in 0..d /\ \A n \in 0..(d - 1) : n \in T => n + 1 \in T
    BY <1>2, <2>1
  <2> HIDE DEF T, d
  <2>3. \A n \in 0..d : n \in T
    BY <1>2, <2>2, Induction
  <2> QED BY <2>2, <2>3
<1>5. i + (k - i) = k
  BY <1>1
<1> QED BY <1>4, <1>5

LEMMA TagsDiffer ==
    /\ Openers \cap Closers = {}
    /\ Closers = {Mark("</think>"), Mark("</reason>")}
    /\ (Tags \cup {Or, Prose, Call}) \cap Said = {}
    /\ \A m \in Tags \cup {Or, Prose, Call} : m[2] = ""
    /\ \A m \in Said : m[2] \in {Gold, Other} /\ m = <<m[1], m[2]>>
<1>1. CloserOf(Mark("<think>")) = Mark("</think>")
  BY DEF CloserOf
<1>2. CloserOf(Mark("<reason>")) = Mark("</reason>")
  <2>1. Mark("<reason>") # Mark("<think>")
    BY DEF Mark
  <2> QED BY <2>1 DEF CloserOf
<1>3. Closers = {Mark("</think>"), Mark("</reason>")}
  BY <1>1, <1>2 DEF Closers, Openers
<1>4. Openers \cap Closers = {}
  <2>0. \A form : Mark(form)[1] = form
    BY DEF Mark
  <2>1. \A o \in Openers : o[1] \in {"<think>", "<reason>"}
    BY <2>0 DEF Openers
  <2>2. \A c \in Closers : c[1] \in {"</think>", "</reason>"}
    BY <1>3, <2>0
  <2>3. {"<think>", "<reason>"} \cap {"</think>", "</reason>"} = {}
    OBVIOUS
  <2> QED BY <2>1, <2>2, <2>3
<1>5. \A m \in Tags \cup {Or, Prose, Call} : m[2] = ""
  <2>1. \A form : Mark(form)[2] = ""
    BY DEF Mark
  <2>2. \A m \in Tags \cup {Or, Prose, Call} :
            \E form \in {"<think>", "<reason>", "</think>", "</reason>", "or", "prose", "calls"} :
                m = Mark(form)
    BY <1>3, Zenon DEF Tags, Openers, Or, Prose, Call
  <2> QED BY <2>1, <2>2
<1>6. \A m \in Said : m[2] \in {Gold, Other} /\ m = <<m[1], m[2]>>
  BY DEF Said
<1>7. "" \notin {Gold, Other}
  BY DEF Gold, Other
<1> QED BY <1>3, <1>4, <1>5, <1>6, <1>7

(* What is outside the blocks: a closing tag behind it that is in a block    *)
(* has an opening one between, an opening tag in front of it a closing one.  *)
LEMMA OutsideBlocks ==
    ASSUME NEW t \in Seq(Marks), NEW i \in 1..Len(t), BlockAt(t)[i] = NoBlock,
           NEW x \in 1..Len(t), BlockAt(t)[x] # NoBlock
    PROVE  /\ x > i /\ t[x] \in Closers => \E o \in Places(t, Openers) : i < o /\ o < x
           /\ x < i /\ t[x] \in Openers => \E c \in Places(t, Closers) : x < c /\ c < i
<1> DEFINE b == BlockAt(t)  o == b[x][1]  c == b[x][2]
<1>1. /\ o \in 1..x /\ c \in x..Len(t) /\ t[o] \in Openers /\ t[c] \in Closers
      /\ \A j \in o..x : b[j] = b[x]
  BY BlocksAreBlocks DEF IsBlock
<1>2. \A j \in x..c : b[j] = b[x]
  BY BlockGoesOn
<1>3. i \notin o..x /\ i \notin x..c
  BY <1>1, <1>2
<1>4. Openers \cap Closers = {}
  BY TagsDiffer
<1>5. Len(t) \in Nat /\ o \in Nat /\ c \in Nat /\ o \in 1..Len(t) /\ c \in 1..Len(t)
  BY <1>1
<1> HIDE DEF b, o, c
<1>6. ASSUME x > i, t[x] \in Closers PROVE \E y \in Places(t, Openers) : i < y /\ y < x
  <2>1. i < o /\ o < x
    BY <1>1, <1>3, <1>4, <1>5, <1>6
  <2>2. o \in Places(t, Openers)
    BY <1>1, <1>5 DEF Places
  <2> QED BY <2>1, <2>2
<1>7. ASSUME x < i, t[x] \in Openers PROVE \E y \in Places(t, Closers) : x < y /\ y < i
  <2>1. x < c /\ c < i
    BY <1>1, <1>3, <1>4, <1>5, <1>7
  <2>2. c \in Places(t, Closers)
    BY <1>1, <1>5 DEF Places
  <2> QED BY <2>1, <2>2
<1> QED BY <1>6, <1>7

-----------------------------------------------------------------------------
(* What Unclosed and Orphan leave of a text is a slice of it, l[k+1..m]: it  *)
(* has no closing tag, nothing up to m is a <think>, and the mark that      *)
(* follows m, if any, is one.                                               *)
Slice(l, left, k, m) ==
    /\ m \in 0..Len(l) /\ k \in 0..m /\ left = SubSeq(l, k + 1, m)
    /\ \A i \in 1..m : l[i] # Mark("<think>")
    /\ m < Len(l) => l[m + 1] = Mark("<think>")
    /\ \A i \in (k + 1)..m : l[i] \notin Closers

LEMMA SlicesKeep ==
    ASSUME NEW M, NEW l \in Seq(M), NEW m \in 0..Len(l), NEW k \in 0..m
    PROVE  /\ SubSeq(l, k + 1, m) \in Seq(M) /\ Len(SubSeq(l, k + 1, m)) = m - k
           /\ \A j \in 1..(m - k) : SubSeq(l, k + 1, m)[j] = l[k + j]
<1>1. Len(l) \in Nat /\ m \in Nat /\ k \in Nat /\ m - k \in Nat /\ (m - (k + 1)) + 1 = m - k
  OBVIOUS
<1>2. \A i \in (k + 1)..m : l[i] \in M /\ i \in 1..Len(l)
  BY <1>1
<1>3. SubSeq(l, k + 1, m) \in Seq(M)
  BY <1>1, <1>2
<1>4. Len(SubSeq(l, k + 1, m)) = m - k
  BY <1>1
<1>5. \A j \in 1..(m - k) : SubSeq(l, k + 1, m)[j] = l[k + j]
  BY <1>1
<1> QED BY <1>3, <1>4, <1>5

LEMMA LeftIs ==
    ASSUME NEW l \in Seq(Marks), NEW taken \in Seq(Marks)
    PROVE  LET n == Orphan(Unclosed([left |-> l, taken |-> taken]))
           IN  n.taken \in Seq(Marks) /\ \E k, m : Slice(l, n.left, k, m)
<1> DEFINE N == Len(l)
           n0 == [left |-> l, taken |-> taken]
           opens == Places(l, {Mark("<think>")})
           n1 == Unclosed(n0)
<1>1. N \in Nat
  OBVIOUS
<1>2. \E m \in 0..N : /\ n1.left = SubSeq(l, 1, m) /\ n1.taken \in Seq(Marks)
                      /\ \A i \in 1..m : l[i] # Mark("<think>")
                      /\ m < N => l[m + 1] = Mark("<think>")
  <2>1. CASE opens = {}
    <3>1. n1 = n0
      BY <2>1 DEF Unclosed
    <3>2. \A i \in 1..N : l[i] # Mark("<think>")
      BY <2>1 DEF Places
    <3>3. SubSeq(l, 1, N) = l
      OBVIOUS
    <3> QED BY <1>1, <3>1, <3>2, <3>3
  <2>2. CASE opens # {}
    <3> DEFINE o == Min(opens)
    <3>1. opens \subseteq Nat
      BY DEF Places
    <3>2. o \in opens /\ \A y \in opens : o <= y
      BY <2>2, <3>1, MinIs
    <3>3. o \in 1..N /\ l[o] = Mark("<think>")
      BY <3>2 DEF Places
    <3>4. n1 = [left |-> SubSeq(l, 1, o - 1), taken |-> taken \o SubSeq(l, o + 1, N)]
      BY <2>2 DEF Unclosed, Upto, From
    <3> HIDE DEF o, n1, N
    <3>5. \A i \in 1..(o - 1) : i \notin opens /\ i \in 1..N
      <4> HIDE DEF opens
      <4> TAKE i \in 1..(o - 1)
      <4>1. i \in 1..N /\ ~(o <= i)
        BY <1>1, <3>3
      <4> QED BY <3>2, <4>1
    <3>6. \A i \in 1..(o - 1) : l[i] # Mark("<think>")
      BY <3>5 DEF Places, N
    <3>7. SubSeq(l, o + 1, N) \in Seq(Marks)
      <4>1. o \in 0..N /\ N \in 0..Len(l)
        BY <1>1, <3>3 DEF N
      <4> QED BY <4>1, SlicesKeep
    <3> DEFINE q == o - 1
    <3>8. q \in 0..N /\ q + 1 = o
      BY <1>1, <3>3
    <3>9. n1.left = SubSeq(l, 1, q) /\ n1.taken \in Seq(Marks)
      <4> DEFINE rest == SubSeq(l, o + 1, N)
      <4>1. rest \in Seq(Marks) /\ n1 = [left |-> SubSeq(l, 1, q), taken |-> taken \o rest]
        BY <3>4, <3>7
      <4> HIDE DEF rest, q
      <4>2. taken \o rest \in Seq(Marks)
        BY <4>1
      <4> DEFINE both == taken \o rest  first == SubSeq(l, 1, q)
      <4>3. n1 = [left |-> first, taken |-> both] /\ both \in Seq(Marks)
        BY <4>1, <4>2
      <4> HIDE DEF both, first
      <4>4. n1.left = first /\ n1.taken \in Seq(Marks)
        BY <4>3
      <4> QED BY <4>4 DEF first
    <3>10. (\A i \in 1..q : l[i] # Mark("<think>")) /\ l[q + 1] = Mark("<think>")
      BY <3>3, <3>6, <3>8
    <3> HIDE DEF q
    <3> QED BY <3>8, <3>9, <3>10
  <2> QED BY <2>1, <2>2
<1>3. PICK m \in 0..N : /\ n1.left = SubSeq(l, 1, m) /\ n1.taken \in Seq(Marks)
                        /\ \A i \in 1..m : l[i] # Mark("<think>")
                        /\ m < N => l[m + 1] = Mark("<think>")
  BY <1>2
<1> DEFINE l1 == SubSeq(l, 1, m)
           closes == Places(l1, Closers)
           n2 == Orphan(n1)
<1>4. l1 \in Seq(Marks) /\ Len(l1) = m /\ \A j \in 1..m : l1[j] = l[j]
  <2>1. 0 \in 0..m /\ m \in 0..Len(l) /\ 0 + 1 = 1 /\ m - 0 = m
    BY <1>1
  <2>2. /\ SubSeq(l, 0 + 1, m) \in Seq(Marks) /\ Len(SubSeq(l, 0 + 1, m)) = m - 0
        /\ \A j \in 1..(m - 0) : SubSeq(l, 0 + 1, m)[j] = l[0 + j]
    BY <2>1, SlicesKeep
  <2> QED BY <2>1, <2>2
<1> HIDE DEF n1
<1>5. \E k \in 0..m : /\ n2.left = SubSeq(l1, k + 1, m) /\ n2.taken \in Seq(Marks)
                      /\ \A i \in (k + 1)..m : l1[i] \notin Closers
  <2>1. CASE closes = {}
    <3>1. n2 = n1
      BY <1>3, <2>1 DEF Orphan
    <3>2. \A i \in 1..m : l1[i] \notin Closers
      BY <1>4, <2>1 DEF Places
    <3>3. SubSeq(l1, 1, m) = l1
      BY <1>4
    <3>4. 0 \in 0..m /\ 0 + 1 = 1
      BY <1>1
    <3> QED BY <1>3, <3>1, <3>2, <3>3, <3>4
  <2>2. CASE closes # {}
    <3> DEFINE c == Max(closes)
    <3>1. closes \subseteq 0..m
      BY <1>4 DEF Places
    <3>2. c \in closes /\ \A y \in closes : y <= c
      BY <1>1, <2>2, <3>1, MaxIs
    <3>3. c \in 1..m
      BY <1>4, <3>2 DEF Places
    <3>4. n2.left = SubSeq(l1, c + 1, m) /\ n2.taken = n1.taken \o SubSeq(l1, 1, c - 1)
      BY <1>3, <1>4, <2>2 DEF Orphan, Upto, From
    <3> HIDE DEF c, n2, N, l1
    <3>5. \A i \in (c + 1)..m : i \notin closes /\ i \in 1..m
      BY <1>1, <3>2, <3>3
    <3>6. \A i \in (c + 1)..m : l1[i] \notin Closers
      BY <1>4, <3>5 DEF Places
    <3>7. SubSeq(l1, 1, c - 1) \in Seq(Marks)
      <4>1. c - 1 \in 0..Len(l1) /\ 0 \in 0..(c - 1) /\ 0 + 1 = 1
        BY <1>1, <1>4, <3>3
      <4>2. SubSeq(l1, 0 + 1, c - 1) \in Seq(Marks)
        BY <1>4, <4>1, SlicesKeep
      <4> QED BY <4>1, <4>2
    <3>8. c \in 0..m
      BY <3>3
    <3>9. n2.taken \in Seq(Marks)
      BY <1>3, <3>4, <3>7
    <3> QED BY <3>4, <3>6, <3>8, <3>9
  <2> QED BY <2>1, <2>2
<1>6. PICK k \in 0..m : /\ n2.left = SubSeq(l1, k + 1, m) /\ n2.taken \in Seq(Marks)
                        /\ \A i \in (k + 1)..m : l1[i] \notin Closers
  BY <1>5
<1>7. SubSeq(l1, k + 1, m) = SubSeq(l, k + 1, m)
  <2>1. m \in 0..Len(l) /\ m \in 0..Len(l1) /\ k \in 0..m
    BY <1>1, <1>4, <1>6
  <2> DEFINE a == SubSeq(l1, k + 1, m)  b == SubSeq(l, k + 1, m)
  <2>2. a \in Seq(Marks) /\ Len(a) = m - k /\ \A j \in 1..(m - k) : a[j] = l1[k + j]
    BY <1>4, <2>1, SlicesKeep
  <2>3. b \in Seq(Marks) /\ Len(b) = m - k /\ \A j \in 1..(m - k) : b[j] = l[k + j]
    BY <2>1, SlicesKeep
  <2>4. \A j \in 1..(m - k) : k + j \in 1..m
    BY <2>1
  <2> HIDE DEF a, b, l1
  <2>5. \A j \in 1..(m - k) : a[j] = b[j]
    BY <1>4, <2>2, <2>3, <2>4
  <2>6. a = b
    BY <2>2, <2>3, <2>5
  <2> QED BY <2>6 DEF a, b
<1>8. \A i \in (k + 1)..m : l[i] \notin Closers
  <2>1. \A i \in (k + 1)..m : i \in 1..m
    BY <1>1, <1>6
  <2> QED BY <1>4, <1>6, <2>1
<1>9. Slice(l, n2.left, k, m)
  <2> HIDE DEF n2, l1
  <2> QED BY <1>3, <1>6, <1>7, <1>8 DEF Slice
<1> QED BY <1>6, <1>9 DEF n1

-----------------------------------------------------------------------------
(* What normalize_response makes of a reply. *)
Norm(text, field, finish) ==
    LET n == Normalize(text, field, finish) IN
    /\ n.visible \in Seq(Marks)
    /\ n.answer_from_reasoning \in BOOLEAN
    /\ n.status \in {"ok", "truncated", "empty"}
    /\ n.status = "ok" <=> n.visible # <<>>
    /\ finish = "length" => n.status # "empty"
    /\ ~n.answer_from_reasoning /\ n.status = "ok" =>
          \E k, m : Slice(Blocks(text).left, n.visible, k, m)

(* What can be read after the tags are dealt with (common.py:359-414).       *)
LEMMA NormalizeIs ==
    ASSUME NEW text \in Seq(Marks), NEW field \in Seq(Marks), NEW finish
    PROVE  Norm(text, field, finish)
<1> DEFINE b == Blocks(text)
           n == Orphan(Unclosed(b))
           hidden == field \o n.taken
<1>1. b = [left |-> b.left, taken |-> b.taken] /\ b.left \in Seq(Marks) /\ b.taken \in Seq(Marks)
  BY KeepIs DEF Blocks
<1>2. n.taken \in Seq(Marks) /\ \E k, m : Slice(b.left, n.left, k, m)
  <2> DEFINE l == b.left  tk == b.taken
  <2>1. l \in Seq(Marks) /\ tk \in Seq(Marks) /\ b = [left |-> l, taken |-> tk]
    BY <1>1
  <2> HIDE DEF l, tk
  <2>2. LET x == Orphan(Unclosed([left |-> l, taken |-> tk]))
        IN  x.taken \in Seq(Marks) /\ \E k, m : Slice(l, x.left, k, m)
    BY <2>1, LeftIs
  <2> QED BY <2>1, <2>2 DEF l
<1> HIDE DEF b
<1>3. n.left \in Seq(Marks)
  <2>1. PICK k, m : Slice(b.left, n.left, k, m)
    BY <1>2
  <2> QED BY <1>1, <2>1, SlicesKeep DEF Slice
<1>4. hidden \in Seq(Marks) /\ <<>> \in Seq(Marks)
  BY <1>2
<1> DEFINE norm1 == Normalize(text, field, finish)
           seen(visible, status, afr) ==
               [visible |-> visible, status |-> status, answer_from_reasoning |-> afr]
<1>5. norm1 = IF n.left # <<>> THEN seen(n.left, "ok", FALSE)
              ELSE IF finish = "length" THEN seen(<<>>, "truncated", FALSE)
              ELSE IF hidden # <<>> THEN seen(hidden, "ok", TRUE)
              ELSE seen(<<>>, "empty", FALSE)
  BY DEF Normalize, b
<1> HIDE DEF n, hidden, norm1
<1> SUFFICES /\ norm1.visible \in Seq(Marks)
             /\ norm1.answer_from_reasoning \in BOOLEAN
             /\ norm1.status \in {"ok", "truncated", "empty"}
             /\ norm1.status = "ok" <=> norm1.visible # <<>>
             /\ finish = "length" => norm1.status # "empty"
             /\ ~norm1.answer_from_reasoning /\ norm1.status = "ok" =>
                   \E k, m : Slice(b.left, norm1.visible, k, m)
  BY DEF Norm, norm1, b
<1>6. CASE n.left # <<>>
  <2>1. norm1 = seen(n.left, "ok", FALSE)
    BY <1>5, <1>6
  <2> QED BY <1>2, <1>3, <1>6, <2>1
<1>7. CASE n.left = <<>>
  <2>1. \/ norm1 = seen(<<>>, "truncated", FALSE)
        \/ norm1 = seen(hidden, "ok", TRUE) /\ hidden # <<>> /\ finish # "length"
        \/ norm1 = seen(<<>>, "empty", FALSE) /\ finish # "length"
    BY <1>5, <1>7
  <2>2. CASE norm1 = seen(<<>>, "truncated", FALSE)
    BY <1>4, <2>2
  <2>3. CASE norm1 = seen(hidden, "ok", TRUE) /\ hidden # <<>> /\ finish # "length"
    BY <1>4, <2>3
  <2>4. CASE norm1 = seen(<<>>, "empty", FALSE) /\ finish # "length"
    BY <1>4, <2>4
  <2> QED BY <2>1, <2>2, <2>3, <2>4
<1> QED BY <1>6, <1>7

(* An answer that is visible, and not because there was nothing else, is    *)
(* shown.                                                                   *)
Shows(t) == \E j \in 1..Len(t) : t[j] \in Said /\ t[j][2] = Gold

LEMMA VisibleIsShown ==
    ASSUME NEW text \in Seq(Marks), NEW k, NEW m, NEW visible,
           Slice(Blocks(text).left, visible, k, m), Shows(visible)
    PROVE  GoldShown(text)
<1> DEFINE N == Len(text)
           K == {i \in 1..N : BlockAt(text)[i] = NoBlock}
           l == Keep(text, K)
<1>1. Blocks(text).left = l
  BY DEF Blocks
<1>2. l \in Seq(Marks) /\ \E pos : KeptFrom(text, K, N, l, pos)
  BY KeepIs
<1> HIDE DEF l
<1>3. PICK pos : KeptFrom(text, K, N, l, pos)
  BY <1>2
<1> DEFINE M == Len(l)
<1>4. /\ pos \in [1..M -> 1..N]
      /\ \A j \in 1..M : pos[j] \in K /\ l[j] = text[pos[j]]
      /\ \A j, h \in 1..M : j < h => pos[j] < pos[h]
      /\ \A i \in 1..N : i \in K => \E j \in 1..M : pos[j] = i
  BY <1>3 DEF KeptFrom
<1>5. Slice(l, visible, k, m) /\ M \in Nat /\ N \in Nat
  BY <1>1, <1>2
<1>6. /\ m \in 0..M /\ k \in 0..m /\ visible = SubSeq(l, k + 1, m)
      /\ \A i \in 1..m : l[i] # Mark("<think>")
      /\ m < M => l[m + 1] = Mark("<think>")
      /\ \A i \in (k + 1)..m : l[i] \notin Closers
  BY <1>5 DEF Slice
<1>7. Len(visible) = m - k /\ \A j \in 1..(m - k) : visible[j] = l[k + j]
  BY <1>2, <1>6, SlicesKeep
<1> HIDE DEF M, N
<1>8. PICK i0 \in 1..(m - k) : visible[i0] \in Said /\ visible[i0][2] = Gold
  BY <1>7 DEF Shows
<1> DEFINE a == k + i0  i == pos[a]
<1>9. a \in (k + 1)..m /\ a \in 1..M /\ l[a] \in Said /\ l[a][2] = Gold
  BY <1>5, <1>6, <1>7, <1>8
<1>10. i \in 1..N /\ i \in K /\ text[i] = l[a]
  BY <1>4, <1>9
<1>11. \A h \in 1..M : (pos[h] > i => h > a) /\ (pos[h] < i => h < a)
  <2> TAKE h \in 1..M
  <2>1. h \in Int /\ a \in Int /\ pos[h] \in Int /\ i \in Int
    BY <1>4, <1>5, <1>9
  <2>2. (h < a => pos[h] < i) /\ (a < h => i < pos[h]) /\ (h = a => pos[h] = i)
    BY <1>4, <1>9
  <2> HIDE DEF a, i
  <2> QED BY <2>1, <2>2
<1>12. \A h \in 1..M : pos[h] < i => h < a
  BY <1>11
<1> HIDE DEF a, i, K
<1>13. BlockAt(text)[i] = NoBlock
  BY <1>10 DEF K
<1>14. ASSUME NEW c \in Places(text, Closers), c > i
       PROVE  \E o \in Places(text, Openers) : i < o /\ o < c
  <2>1. c \in 1..N /\ text[c] \in Closers
    BY DEF Places, N
  <2>2. CASE BlockAt(text)[c] # NoBlock
    BY <1>10, <1>13, <1>14, <2>1, <2>2, OutsideBlocks DEF N
  <2>3. CASE BlockAt(text)[c] = NoBlock
    <3>1. PICK h \in 1..M : pos[h] = c
      BY <1>4, <2>1, <2>3 DEF K
    <3>2. h > a /\ l[h] \in Closers
      BY <1>4, <1>11, <1>14, <2>1, <3>1
    <3>3. h > m
      BY <1>6, <1>9, <3>2
    <3>4. m + 1 \in 1..M /\ l[m + 1] = Mark("<think>") /\ a < m + 1
      BY <1>5, <1>6, <1>9, <3>3
    <3>5. Mark("<think>") \in Openers
      BY DEF Openers
    <3>6. h # m + 1
      BY <3>2, <3>4, <3>5, TagsDiffer
    <3>7. i < pos[m + 1] /\ pos[m + 1] < c
      BY <1>4, <1>5, <1>6, <1>9, <3>1, <3>3, <3>4, <3>6 DEF i
    <3>8. pos[m + 1] \in Places(text, Openers)
      BY <1>4, <3>4, <3>5 DEF Places, N
    <3> QED BY <3>7, <3>8
  <2> QED BY <2>2, <2>3
<1>15. ASSUME NEW o \in Places(text, {Mark("<think>")}), o < i
       PROVE  \E c \in Places(text, Closers) : o < c /\ c < i
  <2>1. o \in 1..N /\ text[o] = Mark("<think>") /\ text[o] \in Openers
    BY DEF Places, N, Openers
  <2>2. CASE BlockAt(text)[o] # NoBlock
    BY <1>10, <1>13, <1>15, <2>1, <2>2, OutsideBlocks DEF N
  <2>3. CASE BlockAt(text)[o] = NoBlock
    <3>1. PICK h \in 1..M : pos[h] = o
      BY <1>4, <2>1, <2>3 DEF K
    <3>2. h < a /\ l[h] = Mark("<think>")
      BY <1>4, <1>12, <1>15, <2>1, <3>1
    <3>3. h \in 1..m
      BY <1>5, <1>6, <1>9, <3>2
    <3> QED BY <1>6, <3>2, <3>3
  <2> QED BY <2>2, <2>3
<1> QED BY <1>9, <1>10, <1>14, <1>15 DEF GoldShown, N

-----------------------------------------------------------------------------
(* An answer that is there is one that was said. *)
LEMMA GoldIsSaid ==
    /\ \A m \in Marks : m[2] = Gold => m \in Said
    /\ \A t \in Seq(Marks), i \in Nat : i \in 1..Len(t) /\ t[i][2] = Gold => Shows(t)
<1>1. Gold # ""
  BY DEF Gold
<1>2. \A m \in Marks : m[2] = Gold => m \in Said
  BY <1>1, TagsDiffer DEF Marks
<1> QED BY <1>2 DEF Shows

LEMMA FormMax ==
    ASSUME NEW t \in Seq(Marks), NEW form, Form(t, form) # {}
    PROVE  /\ Max(Form(t, form)) \in 1..Len(t) /\ t[Max(Form(t, form))][1] = form
           /\ \A j \in 1..Len(t) : t[j][1] = form => j <= Max(Form(t, form))
<1>1. Form(t, form) \subseteq 0..Len(t) /\ Len(t) \in Nat
  BY DEF Form
<1>2. Max(Form(t, form)) \in Form(t, form) /\ \A j \in Form(t, form) : j <= Max(Form(t, form))
  BY <1>1, MaxIs
<1> QED BY <1>2 DEF Form

(* The line a place is on. *)
LEMMA LineIs ==
    ASSUME NEW t \in Seq(Marks), NEW i \in 1..Len(t)
    PROVE  /\ LineEnd(t, i) \in i..Len(t) /\ ~Joined(t, LineEnd(t, i))
           /\ \A j \in i..(LineEnd(t, i) - 1) : Joined(t, j)
           /\ LineStart(t, i) \in 1..i
           /\ LineStart(t, i) = 1 \/ ~Joined(t, LineStart(t, i) - 1)
           /\ \A j \in (LineStart(t, i) + 1)..i : Joined(t, j - 1)
<1> DEFINE N == Len(t)
           E == {j \in i..N : ~Joined(t, j)}
           S == {j \in 1..i : j = 1 \/ ~Joined(t, j - 1)}
<1>1. N \in Nat /\ E \subseteq Nat /\ S \subseteq 0..i /\ i \in Nat
  OBVIOUS
<1>2. N \in E
  BY <1>1 DEF Joined
<1>3. 1 \in S
  BY <1>1
<1>4. LineEnd(t, i) = Min(E) /\ LineStart(t, i) = Max(S)
  BY DEF LineEnd, LineStart
<1> DEFINE e == Min(E)  s == Max(S)
<1> HIDE DEF E, S
<1>5. e \in E /\ \A y \in E : e <= y
  BY <1>1, <1>2, MinIs
<1>6. s \in S /\ \A y \in S : y <= s
  BY <1>1, <1>3, MaxIs
<1> HIDE DEF e, s
<1>7. e \in i..N /\ ~Joined(t, e)
  BY <1>5 DEF E
<1>8. s \in 1..i /\ (s = 1 \/ ~Joined(t, s - 1))
  BY <1>6 DEF S
<1>9. ASSUME NEW j \in i..(e - 1) PROVE Joined(t, j)
  <2>1. j \in i..N /\ ~(e <= j)
    BY <1>1, <1>7
  <2> QED BY <1>5, <2>1 DEF E
<1>10. ASSUME NEW j \in (s + 1)..i PROVE Joined(t, j - 1)
  <2>1. j \in 1..i /\ ~(j <= s)
    BY <1>1, <1>8
  <2> QED BY <1>6, <2>1 DEF S
<1> QED BY <1>4, <1>7, <1>8, <1>9, <1>10 DEF e, s, N

(* A text whose every mark is one of another's. *)
Part(u, t) == u \in Seq(Marks) /\ \A j \in 1..Len(u) : \E i \in 1..Len(t) : u[j] = t[i]

LEMMA PartsShow ==
    ASSUME NEW t \in Seq(Marks), NEW u, Part(u, t)
    PROVE  /\ Shows(u) => Shows(t)
           /\ Gold \in Values(u) => Shows(t)
<1>1. Shows(u) => Shows(t)
  BY DEF Part, Shows
<1>2. Gold \in Values(u) => Shows(u)
  BY DEF Values, Places, Shows
<1> QED BY <1>1, <1>2

LEMMA SlicesArePart ==
    ASSUME NEW t \in Seq(Marks), NEW i \in 1..Len(t), NEW m \in i..Len(t)
    PROVE  /\ Part(SubSeq(t, i, m), t) /\ Len(SubSeq(t, i, m)) = (m - i) + 1
           /\ \A j \in 1..((m - i) + 1) : SubSeq(t, i, m)[j] = t[(i - 1) + j]
<1> DEFINE k == i - 1  u == SubSeq(t, i, m)
<1>1. k + 1 = i /\ m \in 0..Len(t) /\ k \in 0..m /\ m - k = (m - i) + 1 /\ k \in Nat /\ m \in Nat
  OBVIOUS
<1>2. /\ SubSeq(t, k + 1, m) \in Seq(Marks) /\ Len(SubSeq(t, k + 1, m)) = m - k
      /\ \A j \in 1..(m - k) : SubSeq(t, k + 1, m)[j] = t[k + j]
  <2> HIDE DEF k
  <2> QED BY <1>1, SlicesKeep
<1>3. u \in Seq(Marks) /\ Len(u) = m - k /\ \A j \in 1..(m - k) : u[j] = t[k + j]
  BY <1>1, <1>2
<1>4. \A j \in 1..(m - k) : k + j \in 1..Len(t)
  BY <1>1
<1> HIDE DEF k, u
<1>5. Part(u, t)
  BY <1>3, <1>4 DEF Part
<1> QED BY <1>1, <1>3, <1>5 DEF u, k

LEMMA KeptIsPart ==
    ASSUME NEW t \in Seq(Marks), NEW K
    PROVE  Part(Keep(t, K), t)
<1>1. Keep(t, K) \in Seq(Marks)
  BY KeepIs
<1>2. PICK pos : KeptFrom(t, K, Len(t), Keep(t, K), pos)
  BY KeepIs
<1> QED BY <1>1, <1>2 DEF KeptFrom, Part

LEMMA PartOfPart ==
    ASSUME NEW t, NEW u, NEW w, Part(u, t), Part(w, u)
    PROVE  Part(w, t)
BY DEF Part

-----------------------------------------------------------------------------
(* The spans the scorers read. *)
LEMMA FinalAnswerIs ==
    ASSUME NEW t \in Seq(Marks)
    PROVE  LET a == ExtractFinalAnswer(t) IN
           /\ a.method # "none" => Part(a.span, t)
           /\ Form(t, "boxed") # {} => a.method = "boxed" /\ a.span = << t[Max(Form(t, "boxed"))] >>
           /\ a.method # "last_line"
<1> DEFINE a == ExtractFinalAnswer(t)
<1>1. CASE Form(t, "boxed") # {}
  <2> DEFINE b == Max(Form(t, "boxed"))  u == << t[b] >>
  <2>1. a.method = "boxed" /\ a.span = u
    BY <1>1 DEF ExtractFinalAnswer
  <2>2. b \in 1..Len(t)
    BY <1>1, FormMax
  <2> HIDE DEF b
  <2>3. t[b] \in Marks /\ Len(u) = 1 /\ u[1] = t[b]
    BY <2>2
  <2>4. u \in Seq(Marks)
    BY <2>3
  <2> HIDE DEF u
  <2>5. Part(u, t)
    BY <2>2, <2>3, <2>4 DEF Part
  <2> QED BY <2>1, <2>5 DEF b, u
<1>2. CASE Form(t, "boxed") = {} /\ Form(t, "phrase") # {}
  <2> DEFINE i == Max(Form(t, "phrase"))
  <2>1. a.method = "phrase" /\ a.span = SubSeq(t, i, LineEnd(t, i))
    BY <1>2 DEF ExtractFinalAnswer
  <2>2. i \in 1..Len(t)
    BY <1>2, FormMax
  <2> HIDE DEF i
  <2>3. LineEnd(t, i) \in i..Len(t)
    BY <2>2, LineIs
  <2>4. Part(SubSeq(t, i, LineEnd(t, i)), t)
    BY <2>2, <2>3, SlicesArePart
  <2> QED BY <1>2, <2>1, <2>4
<1>3. CASE Form(t, "boxed") = {} /\ Form(t, "phrase") = {}
  <2>1. a.method = "none"
    BY <1>3 DEF ExtractFinalAnswer
  <2> QED BY <1>3, <2>1
<1> QED BY <1>1, <1>2, <1>3

LEMMA LinesArePart ==
    ASSUME NEW t \in Seq(Marks), NEW i \in 1..Len(t)
    PROVE  Part(Line(t, i), t)
<1> DEFINE s == LineStart(t, i)  e == LineEnd(t, i)
<1>1. s \in 1..i /\ e \in i..Len(t)
  BY LineIs
<1> HIDE DEF s, e
<1>2. s \in 1..Len(t) /\ e \in s..Len(t)
  BY <1>1
<1>3. Part(SubSeq(t, s, e), t)
  BY <1>2, SlicesArePart
<1> QED BY <1>3 DEF Line, s, e

LEMMA CandidateIs ==
    ASSUME NEW v \in Seq(Marks)
    PROVE  Part(ExtractCandidate(v).span, v)
<1> DEFINE t == Keep(v, {i \in 1..Len(v) : v[i] \notin Tags})
           initial == {i \in Form(t, "phrase") : LineStart(t, i) = i}
           c == ExtractCandidate(v)
<1>1. Part(t, v) /\ t \in Seq(Marks)
  BY KeptIsPart, KeepIs
<1>2. c = IF t = <<>> THEN [method |-> "empty", span |-> t]
          ELSE IF Form(t, "boxed") # {} THEN ExtractFinalAnswer(t)
          ELSE IF initial # {}
               THEN [method |-> "phrase", span |-> SubSeq(t, Max(initial), LineEnd(t, Max(initial)))]
          ELSE IF Form(t, "phrase") # {}
               THEN [method |-> "phrase", span |-> SubSeq(t, Max(Form(t, "phrase")),
                                                          LineEnd(t, Max(Form(t, "phrase"))))]
          ELSE [method |-> "last_line", span |-> Line(t, Len(t))]
  BY DEF ExtractCandidate
<1> HIDE DEF t, c
<1>3. ASSUME NEW i \in 1..Len(t) PROVE Part(SubSeq(t, i, LineEnd(t, i)), v)
  <2>1. LineEnd(t, i) \in i..Len(t)
    BY <1>1, LineIs
  <2>2. Part(SubSeq(t, i, LineEnd(t, i)), t)
    BY <1>1, <2>1, SlicesArePart
  <2> QED BY <1>1, <2>2, PartOfPart
<1>4. CASE t = <<>>
  BY <1>1, <1>2, <1>4 DEF c
<1>5. CASE t # <<>> /\ Form(t, "boxed") # {}
  <2>1. c = ExtractFinalAnswer(t)
    BY <1>2, <1>5
  <2>2. Part(c.span, t)
    BY <1>1, <1>5, <2>1, FinalAnswerIs
  <2> QED BY <1>1, <2>2, PartOfPart DEF c
<1>6. CASE t # <<>> /\ Form(t, "boxed") = {} /\ initial # {}
  <2>1. initial \subseteq 0..Len(t) /\ Len(t) \in Nat
    BY <1>1 DEF Form
  <2>2. Max(initial) \in initial
    BY <1>6, <2>1, MaxIs
  <2>3. Max(initial) \in 1..Len(t)
    BY <2>2 DEF Form
  <2>4. c.span = SubSeq(t, Max(initial), LineEnd(t, Max(initial)))
    BY <1>2, <1>6
  <2> HIDE DEF initial
  <2> QED BY <1>3, <2>3, <2>4 DEF c
<1>7. CASE t # <<>> /\ Form(t, "boxed") = {} /\ initial = {} /\ Form(t, "phrase") # {}
  <2> DEFINE i == Max(Form(t, "phrase"))
  <2>1. i \in 1..Len(t)
    BY <1>1, <1>7, FormMax
  <2>2. c.span = SubSeq(t, i, LineEnd(t, i))
    BY <1>2, <1>7
  <2> HIDE DEF i
  <2> QED BY <1>3, <2>1, <2>2 DEF c
<1>8. CASE t # <<>> /\ Form(t, "boxed") = {} /\ initial = {} /\ Form(t, "phrase") = {}
  <2>1. c.span = Line(t, Len(t))
    BY <1>2, <1>8
  <2>2. Len(t) \in 1..Len(t)
    BY <1>1, <1>8
  <2>3. Part(Line(t, Len(t)), t)
    BY <1>1, <2>2, LinesArePart
  <2> QED BY <1>1, <2>1, <2>3, PartOfPart DEF c
<1> QED BY <1>4, <1>5, <1>6, <1>7, <1>8

-----------------------------------------------------------------------------
(* A text that is scored correct shows the gold answer. *)
LEMMA McqShows ==
    ASSUME NEW t \in Seq(Marks), ScoreMcq(t).correct
    PROVE  Shows(t)
<1> DEFINE starts == {i \in 1..Len(t) : LineStart(t, i) = i}
           alone == {i \in Form(t, "bare") :
                      /\ Line(t, i) = <<t[i]>>
                      /\ Cardinality({j \in starts : j > i}) < 3}
           letter == ExtractMcqLetter(t)
<1>1. letter = IF Form(t, "boxed") # {} THEN t[Max(Form(t, "boxed"))][2]
               ELSE IF Form(t, "phrase") # {} THEN t[Max(Form(t, "phrase"))][2]
               ELSE IF alone # {} THEN t[Max(alone)][2]
               ELSE "none"
  BY DEF ExtractMcqLetter
<1> HIDE DEF alone, letter
<1>2. letter = Gold
  BY DEF ScoreMcq, Unparsed, Verdict, letter
<1>3. Gold # "none"
  BY DEF Gold
<1>4. ASSUME alone # {} PROVE Max(alone) \in 1..Len(t)
  <2>1. alone \subseteq 0..Len(t) /\ Len(t) \in Nat
    BY DEF alone, Form
  <2>2. Max(alone) \in alone
    BY <1>4, <2>1, MaxIs
  <2> QED BY <2>2 DEF alone, Form
<1>5. \E i \in 1..Len(t) : t[i][2] = Gold
  BY <1>1, <1>2, <1>3, <1>4, FormMax
<1> QED BY <1>5, GoldIsSaid

LEMMA SimpleqaShows ==
    ASSUME NEW t \in Seq(Marks), t # <<>>, ScoreSimpleqa(t).correct
    PROVE  Shows(t)
<1> DEFINE a == ExtractFinalAnswer(t)
           span == IF a.method = "none" THEN Line(t, Len(t)) ELSE a.span
<1>1. Values(span) = {Gold}
  BY DEF ScoreSimpleqa, Unparsed, Verdict
<1>2. Len(t) \in 1..Len(t)
  OBVIOUS
<1>3. Part(span, t)
  BY <1>2, LinesArePart, FinalAnswerIs
<1> HIDE DEF span
<1> QED BY <1>1, <1>3, PartsShow

LEMMA MathShows ==
    ASSUME NEW t \in Seq(Marks), ScoreMath(t).correct
    PROVE  Shows(t)
<1> DEFINE a == ExtractFinalAnswer(t)
<1>1. a.method # "none" /\ Len(a.span) = 1 /\ a.span[1][2] = Gold
  BY DEF ScoreMath, Unparsed, Verdict
<1>2. Part(a.span, t)
  BY <1>1, FinalAnswerIs
<1> DEFINE u == a.span
<1>3. u \in Seq(Marks) /\ 1 \in Nat /\ 1 \in 1..Len(u) /\ u[1][2] = Gold
  BY <1>1, <1>2 DEF Part
<1> HIDE DEF u
<1>4. Shows(u)
  BY <1>3, GoldIsSaid
<1> QED BY <1>2, <1>4, PartsShow DEF u

LEMMA NumericShows ==
    ASSUME NEW t \in Seq(Marks), ScoreNumeric(t).correct
    PROVE  Shows(t)
<1> DEFINE c == ExtractCandidate(t)
           cand == IF c.method = "last_line" /\ Values(c.span) = {} THEN t ELSE c.span
           attributed == {cand[i][2] : i \in Form(cand, "keyed")}
<1>1. Part(t, t)
  BY DEF Part
<1>2. Part(cand, t)
  BY <1>1, CandidateIs
<1>3. ScoreNumeric(t) =
         IF Values(cand) = {} THEN Unparsed
         ELSE IF attributed # {} THEN Verdict(attributed = {Gold})
         ELSE Verdict(Values(cand) = {Gold} /\ Places(cand, {Or}) = {})
  BY DEF ScoreNumeric
<1> HIDE DEF cand
<1>4. attributed = {Gold} \/ Values(cand) = {Gold}
  <2> HIDE DEF attributed
  <2>1. ~Unparsed.correct /\ \A ok \in BOOLEAN : Verdict(ok).correct = ok
    BY DEF Unparsed, Verdict
  <2> QED BY <1>3, <2>1
<1>5. CASE attributed = {Gold}
  <2>1. PICK i \in Form(cand, "keyed") : cand[i][2] = Gold
    BY <1>5
  <2>2. i \in 1..Len(cand) /\ i \in Nat /\ cand \in Seq(Marks)
    BY <1>2 DEF Form, Part
  <2>3. Shows(cand)
    BY <2>1, <2>2, GoldIsSaid
  <2> QED BY <1>2, <2>3, PartsShow
<1>6. CASE Values(cand) = {Gold}
  BY <1>2, <1>6, PartsShow
<1> QED BY <1>4, <1>5, <1>6

LEMMA TextShows ==
    ASSUME NEW t \in Seq(Marks), ScoreText(t).correct
    PROVE  Shows(t)
<1> DEFINE c == ExtractCandidate(t)
<1>1. Values(c.span) = {Gold}
  BY DEF ScoreText, Unparsed, Verdict
<1> QED BY <1>1, CandidateIs, PartsShow

-----------------------------------------------------------------------------
(* A text that ends on the gold answer in a box of its own. *)
GoldBox == <<"boxed", Gold>>
EndsOnBox(v) == v # <<>> /\ v[Len(v)] = GoldBox

LEMMA VerdictIs ==
    ~Unparsed.correct /\ \A ok \in BOOLEAN : Verdict(ok).correct = ok
BY DEF Unparsed, Verdict

LEMMA GoldBoxIs ==
    /\ GoldBox \in Said /\ GoldBox \notin Tags /\ GoldBox # Or
    /\ GoldBox[1] = "boxed" /\ GoldBox[2] = Gold
    /\ LET u == <<GoldBox>> IN
       Values(u) = {Gold} /\ Places(u, {Or}) = {} /\ Form(u, "keyed") = {} /\ Len(u) = 1 /\ u[1] = GoldBox
<1>1. GoldBox[1] = "boxed" /\ GoldBox[2] = Gold
  BY DEF GoldBox
<1>2. GoldBox \in Said
  BY DEF GoldBox, Said
<1>3. GoldBox \notin Tags /\ GoldBox # Or
  BY <1>2, TagsDiffer
<1> DEFINE u == <<GoldBox>>
<1>4. Len(u) = 1 /\ u[1] = GoldBox
  OBVIOUS
<1> HIDE DEF u
<1>5. \A i \in 1..Len(u) : i = 1
  BY <1>4
<1>6. Places(u, Said) = {1} /\ Places(u, {Or}) = {}
  BY <1>2, <1>3, <1>4, <1>5 DEF Places
<1>7. Form(u, "keyed") = {}
  BY <1>1, <1>4, <1>5 DEF Form
<1>8. Values(u) = {Gold}
  BY <1>1, <1>4, <1>6 DEF Values
<1> QED BY <1>1, <1>2, <1>3, <1>4, <1>6, <1>7, <1>8 DEF u

LEMMA LastBoxIs ==
    ASSUME NEW v \in Seq(Marks), EndsOnBox(v)
    PROVE  /\ Len(v) \in 1..Len(v) /\ Form(v, "boxed") # {} /\ Max(Form(v, "boxed")) = Len(v)
           /\ ExtractFinalAnswer(v).method = "boxed" /\ ExtractFinalAnswer(v).span = <<GoldBox>>
<1>1. Len(v) \in 1..Len(v)
  BY DEF EndsOnBox
<1>2. Len(v) \in Form(v, "boxed")
  BY <1>1, GoldBoxIs DEF Form, EndsOnBox
<1> DEFINE b == Max(Form(v, "boxed"))
<1>3. b \in 1..Len(v) /\ \A j \in 1..Len(v) : v[j][1] = "boxed" => j <= b
  BY <1>2, FormMax
<1>4. v[Len(v)][1] = "boxed"
  BY GoldBoxIs DEF EndsOnBox
<1> HIDE DEF b
<1>5. Len(v) <= b
  BY <1>1, <1>3, <1>4
<1>6. b = Len(v)
  BY <1>1, <1>3, <1>5
<1>7. ExtractFinalAnswer(v).method = "boxed" /\ ExtractFinalAnswer(v).span = << v[b] >>
  BY <1>2, FinalAnswerIs DEF b
<1> QED BY <1>1, <1>2, <1>6, <1>7 DEF EndsOnBox, b

(* A text that ends on the gold box is scored correct. *)
LEMMA McqBox ==
    ASSUME NEW v \in Seq(Marks), EndsOnBox(v), Places(v, {Or}) = {}
    PROVE  ScoreMcq(v).correct
<1>1. ExtractMcqLetter(v) = Gold
  <2>1. v[Max(Form(v, "boxed"))][2] = Gold
    BY LastBoxIs, GoldBoxIs DEF EndsOnBox
  <2> QED BY <2>1, LastBoxIs DEF ExtractMcqLetter
<1>2. ~IsHedged(v, Gold)
  <2>1. \A i \in 1..(Len(v) - 2) : i + 1 \in 1..Len(v)
    OBVIOUS
  <2>2. \A i \in 1..Len(v) : v[i] # Or
    BY DEF Places
  <2> QED BY <2>1, <2>2 DEF IsHedged
<1>3. Gold # "none"
  BY DEF Gold
<1> QED BY <1>1, <1>2, <1>3, VerdictIs DEF ScoreMcq

LEMMA SimpleqaBox ==
    ASSUME NEW v \in Seq(Marks), EndsOnBox(v)
    PROVE  ScoreSimpleqa(v).correct
<1> DEFINE a == ExtractFinalAnswer(v)  u == <<GoldBox>>
<1>1. a.method # "none" /\ a.span = u
  BY LastBoxIs
<1>2. Values(u) = {Gold} /\ Places(u, {Or}) = {}
  BY GoldBoxIs
<1> HIDE DEF a, u
<1> QED BY <1>1, <1>2, VerdictIs DEF ScoreSimpleqa, a

LEMMA MathBox ==
    ASSUME NEW v \in Seq(Marks), EndsOnBox(v), LineStart(v, Len(v)) = Len(v)
    PROVE  ScoreMath(v).correct
<1> DEFINE N == Len(v)  a == ExtractFinalAnswer(v)  u == <<GoldBox>>
<1>1. a.method # "none" /\ a.span = u
  BY LastBoxIs
<1>2. Len(u) = 1 /\ u[1][2] = Gold
  BY GoldBoxIs
<1>3. ~HedgedBoxes(v)
  <2> SUFFICES ASSUME HedgedBoxes(v) PROVE FALSE
    OBVIOUS
  <2> DEFINE boxes == Form(v, "boxed")  rest == boxes \ {N}  b1 == Max(rest)
  <2>1. /\ Cardinality(boxes) > 1 /\ N > b1 + 1
        /\ \A k \in (b1 + 1)..(N - 1) : v[k] = Or
    BY LastBoxIs DEF HedgedBoxes
  <2>2. N \in Nat /\ boxes \subseteq 0..N
    BY DEF Form
  <2>3. rest # {}
    <3> SUFFICES ASSUME rest = {} PROVE FALSE
      OBVIOUS
    <3>1. boxes = {N}
      BY LastBoxIs
    <3>2. Cardinality(boxes) = 1
      BY <3>1, FS_Singleton
    <3> HIDE DEF boxes
    <3> QED BY <2>1, <3>2
  <2>4. b1 \in rest
    <3>1. rest \subseteq 0..N
      BY <2>2
    <3> HIDE DEF rest
    <3> QED BY <2>2, <2>3, <3>1, MaxIs
  <2>5. b1 \in 1..N
    BY <2>4 DEF Form
  <2> HIDE DEF b1, N, boxes, rest
  <2>6. N - 1 \in (b1 + 1)..(N - 1) /\ N # 1 /\ N - 1 \in 1..(N - 1) /\ N \in 1..N
    BY <2>1, <2>2, <2>5
  <2>7. Joined(v, N - 1)
    BY <2>1, <2>6 DEF Joined, N
  <2>8. N = 1 \/ ~Joined(v, N - 1)
    BY <2>6, LineIs DEF N
  <2> QED BY <2>6, <2>7, <2>8
<1> HIDE DEF a, u
<1> QED BY <1>1, <1>2, <1>3, VerdictIs DEF ScoreMath, a

(* What ExtractCandidate reads of such a text. *)
LEMMA CandidateBox ==
    ASSUME NEW v \in Seq(Marks), EndsOnBox(v)
    PROVE  ExtractCandidate(v).method = "boxed" /\ ExtractCandidate(v).span = <<GoldBox>>
<1> DEFINE K == {i \in 1..Len(v) : v[i] \notin Tags}  t == Keep(v, K)
<1>1. t \in Seq(Marks) /\ Len(v) \in K
  <2>1. v[Len(v)] \notin Tags
    BY GoldBoxIs DEF EndsOnBox
  <2> QED BY <2>1, LastBoxIs, KeepIs
<1> HIDE DEF t, K
<1>2. PICK pos : KeptFrom(v, K, Len(v), t, pos)
  BY KeepIs DEF t
<1> DEFINE N == Len(v)  n == Len(t)
<1>3. /\ pos \in [1..n -> 1..N]
      /\ \A j \in 1..n : t[j] = v[pos[j]]
      /\ \A j, k \in 1..n : j < k => pos[j] < pos[k]
      /\ \A i \in 1..N : i \in K => \E j \in 1..n : pos[j] = i
  BY <1>2 DEF KeptFrom
<1>4. PICK j \in 1..n : pos[j] = N
  BY <1>1, <1>3, LastBoxIs
<1>5. n \in 1..n /\ N \in Nat /\ j <= n
  BY <1>1, <1>4
<1>6. j = n
  <2> SUFFICES ASSUME j < n PROVE FALSE
    BY <1>5
  <2>1. N < pos[n] /\ pos[n] \in 1..N
    BY <1>3, <1>4, <1>5
  <2> QED BY <1>5, <2>1
<1>7. EndsOnBox(t)
  <2>1. t[n] = GoldBox
    BY <1>3, <1>4, <1>6 DEF EndsOnBox
  <2>2. t # <<>>
    BY <1>5
  <2> QED BY <2>1, <2>2 DEF EndsOnBox
<1>8. t # <<>> /\ Form(t, "boxed") # {}
  BY <1>1, <1>7, LastBoxIs DEF EndsOnBox
<1>9. ExtractCandidate(v) = ExtractFinalAnswer(t)
  BY <1>8 DEF ExtractCandidate, t, K
<1> QED BY <1>1, <1>7, <1>9, LastBoxIs

LEMMA NumericBox ==
    ASSUME NEW v \in Seq(Marks), EndsOnBox(v)
    PROVE  ScoreNumeric(v).correct
<1> DEFINE c == ExtractCandidate(v)  u == <<GoldBox>>
           attributed == {u[i][2] : i \in Form(u, "keyed")}
<1>1. c.method # "last_line" /\ c.span = u
  BY CandidateBox
<1>2. Values(u) = {Gold} /\ Places(u, {Or}) = {} /\ attributed = {}
  BY GoldBoxIs
<1> HIDE DEF c, u
<1>3. ScoreNumeric(v) =
         IF Values(u) = {} THEN Unparsed
         ELSE IF attributed # {} THEN Verdict(attributed = {Gold})
         ELSE Verdict(Values(u) = {Gold} /\ Places(u, {Or}) = {})
  BY <1>1 DEF ScoreNumeric, c
<1> HIDE DEF attributed
<1> QED BY <1>2, <1>3, VerdictIs

LEMMA TextBox ==
    ASSUME NEW v \in Seq(Marks), EndsOnBox(v)
    PROVE  ScoreText(v).correct
<1> DEFINE c == ExtractCandidate(v)  u == <<GoldBox>>
<1>1. c.method # "empty" /\ c.span = u
  BY CandidateBox
<1>2. Values(u) = {Gold} /\ Places(u, {Or}) = {}
  BY GoldBoxIs
<1> HIDE DEF c, u
<1> QED BY <1>1, <1>2, VerdictIs DEF ScoreText, c

-----------------------------------------------------------------------------
(* Two statements of different values joined by an "or". *)
LEMMA TwoJoined ==
    ASSUME NEW t \in Seq(Marks), NEW firsts, NEW seconds, Alternatives(t, firsts, seconds)
    PROVE  /\ Len(t) = 3 /\ t[1] \in Said /\ t[2] = Or /\ t[3] \in Said
           /\ t[1][1] \in firsts /\ t[3][1] \in seconds
           /\ t[1][2] # t[3][2] /\ Gold \in {t[1][2], t[3][2]} /\ Values(t) # {Gold}
           /\ \A i \in 1..3 : i \in {1, 2, 3}
           /\ Or[1] \notin {"boxed", "phrase", "keyed", "bare"}
           /\ LineStart(t, 1) = 1 /\ LineEnd(t, 1) = 3 /\ LineStart(t, 3) = 1 /\ LineEnd(t, 3) = 3
<1>1. /\ Len(t) = 3 /\ t[1] \in Said /\ t[2] = Or /\ t[3] \in Said
      /\ t[1][1] \in firsts /\ t[3][1] \in seconds /\ t[1][2] # t[3][2]
  BY DEF Alternatives
<1>2. t[1][2] \in {Gold, Other} /\ t[3][2] \in {Gold, Other}
  BY <1>1, TagsDiffer
<1>3. Gold \in {t[1][2], t[3][2]}
  BY <1>1, <1>2
<1>4. t[1][2] \in Values(t) /\ t[3][2] \in Values(t)
  <2>1. 1 \in Places(t, Said) /\ 3 \in Places(t, Said)
    BY <1>1 DEF Places
  <2> QED BY <2>1 DEF Values
<1>5. Joined(t, 1) /\ Joined(t, 2)
  BY <1>1 DEF Joined
<1>a. 1 \in 1..Len(t) /\ 3 \in 1..Len(t)
  BY <1>1
<1>b. LineEnd(t, 1) \in 1..Len(t) /\ ~Joined(t, LineEnd(t, 1)) /\ LineStart(t, 1) \in 1..1
  BY <1>a, LineIs
<1>c. /\ LineEnd(t, 3) \in 3..Len(t) /\ LineStart(t, 3) \in 1..3
      /\ (LineStart(t, 3) = 1 \/ ~Joined(t, LineStart(t, 3) - 1))
  BY <1>a, LineIs
<1>6. LineEnd(t, 1) \in 1..3 /\ ~Joined(t, LineEnd(t, 1)) /\ LineEnd(t, 3) \in 3..3
  BY <1>1, <1>b, <1>c
<1>7. LineStart(t, 1) \in 1..1 /\ LineStart(t, 3) \in 1..3
      /\ (LineStart(t, 3) = 1 \/ ~Joined(t, LineStart(t, 3) - 1))
  BY <1>b, <1>c
<1>8. LineEnd(t, 1) = 3 /\ LineEnd(t, 3) = 3 /\ LineStart(t, 1) = 1 /\ LineStart(t, 3) = 1
  <2>1. \A i \in 1..3 : i # 1 /\ i # 2 => i = 3
    OBVIOUS
  <2>2. \A i \in 1..3 : i - 1 # 1 /\ i - 1 # 2 => i = 1
    OBVIOUS
  <2> QED BY <1>5, <1>6, <1>7, <2>1, <2>2
<1>9. Or[1] \notin {"boxed", "phrase", "keyed", "bare"}
  <2>1. \A form : Mark(form)[1] = form
    BY DEF Mark
  <2>2. Or[1] = "or"
    BY <2>1 DEF Or
  <2> QED BY <2>2
<1> QED BY <1>1, <1>3, <1>4, <1>8, <1>9

LEMMA McqHedged ==
    ASSUME NEW t \in Seq(Marks), NEW firsts, NEW seconds, seconds \subseteq {"boxed", "bare"},
           Alternatives(t, firsts, seconds)
    PROVE  ~ScoreMcq(t).correct
<1>1. IsHedged(t, Gold)
  <2>1. 1 \in 1..(Len(t) - 2) /\ t[1] \in Said /\ t[1 + 1] = Or /\ t[1 + 2] = t[3]
    BY TwoJoined
  <2>2. t[1 + 2][1] \in {"bare", "boxed"} /\ t[1][2] # t[1 + 2][2]
    BY <2>1, TwoJoined
  <2>3. Gold \in {t[1][2], t[1 + 2][2]}
    BY <2>1, TwoJoined
  <2> QED BY <2>1, <2>2, <2>3 DEF IsHedged
<1> QED BY <1>1 DEF ScoreMcq, Unparsed, Verdict

LEMMA MathHedged ==
    ASSUME NEW t \in Seq(Marks),
           Alternatives(t, {"boxed"}, {"boxed"}) \/ Alternatives(t, {"phrase"}, {"bare"})
    PROVE  ~ScoreMath(t).correct
<1>1. CASE Alternatives(t, {"boxed"}, {"boxed"})
  <2>1. /\ Len(t) = 3 /\ t[1][1] = "boxed" /\ t[3][1] = "boxed" /\ t[2] = Or /\ Or[1] # "boxed"
        /\ t[1][2] # t[3][2]
    BY <1>1, TwoJoined
  <2> DEFINE boxes == Form(t, "boxed")
  <2>2. boxes = {1, 3}
    <3>1. \A i \in 1..3 : i = 1 \/ i = 2 \/ i = 3
      OBVIOUS
    <3>2. \A i : i \in boxes <=> i \in 1..3 /\ t[i][1] = "boxed"
      BY <2>1 DEF Form
    <3> QED BY <2>1, <3>1, <3>2
  <2> HIDE DEF boxes
  <2>3. Cardinality(boxes) > 1
    <3> DEFINE one == {1}
    <3>1. boxes = one \cup {3} /\ 3 \notin one
      BY <2>2
    <3>2. IsFiniteSet(one) /\ Cardinality(one) = 1
      BY FS_Singleton
    <3> HIDE DEF one
    <3>3. Cardinality(one \cup {3}) = Cardinality(one) + 1
      BY <3>1, <3>2, FS_AddElement
    <3> QED BY <3>1, <3>2, <3>3
  <2>4. Max(boxes) = 3
    <3>1. boxes \subseteq 0..3 /\ boxes # {}
      BY <2>2
    <3>2. Max(boxes) \in boxes /\ \A y \in boxes : y <= Max(boxes)
      BY <3>1, MaxIs
    <3> QED BY <2>2, <3>2
  <2> DEFINE rest == boxes \ {3}
  <2>5. Max(rest) = 1
    <3>1. rest = {1}
      BY <2>2
    <3> HIDE DEF rest
    <3>2. rest \subseteq 0..3 /\ rest # {}
      BY <3>1
    <3>3. Max(rest) \in rest
      BY <3>2, MaxIs
    <3> QED BY <3>1, <3>3
  <2>6. \A k \in (1 + 1)..(3 - 1) : k = 2
    OBVIOUS
  <2>7. HedgedBoxes(t)
    <3> DEFINE b2 == Max(boxes)  b1 == Max(boxes \ {b2})
    <3>1. b2 = 3 /\ b1 = 1
      BY <2>4, <2>5
    <3> HIDE DEF b1, b2, rest
    <3>2. t[b1][2] # t[b2][2] /\ b2 > b1 + 1 /\ \A k \in (b1 + 1)..(b2 - 1) : t[k] = Or
      BY <2>1, <2>6, <3>1
    <3> QED BY <2>3, <3>2 DEF HedgedBoxes, boxes, b1, b2
  <2> QED BY <2>7 DEF ScoreMath, Unparsed
<1>2. CASE Alternatives(t, {"phrase"}, {"bare"})
  <2>1. /\ Len(t) = 3 /\ t[1][1] = "phrase" /\ t[3][1] = "bare" /\ t[2] = Or
        /\ Or[1] # "boxed" /\ Or[1] # "phrase" /\ LineEnd(t, 1) = 3
    BY <1>2, TwoJoined
  <2>2. \A i \in 1..3 : i = 1 \/ i = 2 \/ i = 3
    OBVIOUS
  <2>3. Form(t, "boxed") = {}
    BY <2>1, <2>2 DEF Form
  <2>4. \A i : i \in Form(t, "phrase") <=> i = 1
    BY <2>1, <2>2 DEF Form
  <2>5. Max(Form(t, "phrase")) = 1
    BY <2>4, FormMax DEF Form
  <2>6. ExtractFinalAnswer(t).span = SubSeq(t, 1, 3)
    BY <2>1, <2>3, <2>4, <2>5 DEF ExtractFinalAnswer
  <2> DEFINE u == ExtractFinalAnswer(t).span
  <2>7. Len(SubSeq(t, 1, 3)) = 3
    BY <2>1
  <2>8. Len(u) # 1
    BY <2>6, <2>7
  <2> HIDE DEF u
  <2> QED BY <2>8, VerdictIs DEF ScoreMath, u
<1> QED BY <1>1, <1>2

(* The other families read the whole of such a text. *)
LEMMA WholeIsRead ==
    ASSUME NEW t \in Seq(Marks), Alternatives(t, {"phrase", "bare"}, {"bare"})
    PROVE  /\ Form(t, "boxed") = {} /\ Form(t, "keyed") = {}
           /\ SubSeq(t, 1, 3) = t /\ Line(t, Len(t)) = t
           /\ Form(t, "phrase") \subseteq {1}
           /\ Form(t, "phrase") # {} => Max(Form(t, "phrase")) = 1
           /\ Keep(t, {i \in 1..Len(t) : t[i] \notin Tags}) = t
<1>1. /\ Len(t) = 3 /\ t[1] \in Said /\ t[3] \in Said /\ t[2] = Or
      /\ t[1][1] \in {"phrase", "bare"} /\ t[3][1] = "bare"
      /\ Or[1] \notin {"boxed", "phrase", "keyed", "bare"}
      /\ LineStart(t, 3) = 1 /\ LineEnd(t, 3) = 3
  BY TwoJoined
<1>2. \A i \in 1..3 : i = 1 \/ i = 2 \/ i = 3
  OBVIOUS
<1>3. Form(t, "boxed") = {} /\ Form(t, "keyed") = {} /\ Form(t, "phrase") \subseteq {1}
  BY <1>1, <1>2 DEF Form
<1>4. SubSeq(t, 1, 3) = t
  BY <1>1
<1>5. Line(t, Len(t)) = t
  BY <1>1, <1>4 DEF Line
<1>6. Form(t, "phrase") # {} => Max(Form(t, "phrase")) = 1
  BY <1>3, FormMax DEF Form
<1>7. Keep(t, {i \in 1..Len(t) : t[i] \notin Tags}) = t
  <2>1. Or \notin Tags /\ Said \cap Tags = {}
    <3>1. Or \notin Openers /\ Or \notin Closers
      <4>1. \A form : Mark(form)[1] = form
        BY DEF Mark
      <4>2. \A m \in Openers \cup Closers : m[1] \in {"<think>", "<reason>", "</think>", "</reason>"}
        BY <4>1, TagsDiffer DEF Openers
      <4>3. Or[1] = "or"
        BY <4>1 DEF Or
      <4> QED BY <4>2, <4>3
    <3> QED BY <3>1, TagsDiffer DEF Tags
  <2> DEFINE K == {i \in 1..Len(t) : t[i] \notin Tags}
  <2>2. \A i \in 1..Len(t) : i \in K
    BY <1>1, <1>2, <2>1
  <2> HIDE DEF K
  <2> QED BY <2>2, KeepIs DEF K
<1> QED BY <1>3, <1>4, <1>5, <1>6, <1>7

LEMMA OthersHedged ==
    ASSUME NEW t \in Seq(Marks), Alternatives(t, {"phrase", "bare"}, {"bare"})
    PROVE  ~ScoreSimpleqa(t).correct /\ ~ScoreNumeric(t).correct /\ ~ScoreText(t).correct
<1>1. Values(t) # {Gold} /\ Len(t) = 3 /\ LineEnd(t, 1) = 3 /\ LineStart(t, 1) = 1
  BY TwoJoined
<1>2. Form(t, "boxed") = {} /\ SubSeq(t, 1, 3) = t /\ Line(t, Len(t)) = t
  BY WholeIsRead
<1>3. LET a == ExtractFinalAnswer(t) IN
      \/ a.method = "none"
      \/ a.method = "phrase" /\ a.span = t
  <2>1. CASE Form(t, "phrase") = {}
    BY <1>2, <2>1 DEF ExtractFinalAnswer
  <2>2. CASE Form(t, "phrase") # {}
    <3>1. Max(Form(t, "phrase")) = 1
      BY <2>2, WholeIsRead
    <3> QED BY <1>1, <1>2, <2>2, <3>1 DEF ExtractFinalAnswer
  <2> QED BY <2>1, <2>2
<1>4. ~ScoreSimpleqa(t).correct
  BY <1>1, <1>2, <1>3, VerdictIs DEF ScoreSimpleqa
<1>5. ExtractCandidate(t).span = t
  <2> DEFINE initial == {i \in Form(t, "phrase") : LineStart(t, i) = i}
  <2>1. ExtractCandidate(t) =
          IF t = <<>> THEN [method |-> "empty", span |-> t]
          ELSE IF Form(t, "boxed") # {} THEN ExtractFinalAnswer(t)
          ELSE IF initial # {}
               THEN [method |-> "phrase", span |-> SubSeq(t, Max(initial), LineEnd(t, Max(initial)))]
          ELSE IF Form(t, "phrase") # {}
               THEN [method |-> "phrase", span |-> SubSeq(t, Max(Form(t, "phrase")),
                                                          LineEnd(t, Max(Form(t, "phrase"))))]
          ELSE [method |-> "last_line", span |-> Line(t, Len(t))]
    <3> DEFINE k == Keep(t, {i \in 1..Len(t) : t[i] \notin Tags})
    <3>1. k = t
      BY WholeIsRead
    <3> HIDE DEF k
    <3> QED BY <3>1 DEF ExtractCandidate, k
  <2>2. initial = Form(t, "phrase")
    BY <1>1, WholeIsRead
  <2> HIDE DEF initial
  <2>3. CASE initial # {}
    <3>1. Max(initial) = 1
      BY <2>2, <2>3, WholeIsRead
    <3>2. ExtractCandidate(t) = [method |-> "phrase", span |-> SubSeq(t, 1, 3)]
      <4>1. t # <<>>
        BY <1>1
      <4> QED BY <1>1, <1>2, <2>1, <2>3, <3>1, <4>1
    <3> QED BY <1>2, <3>2
  <2>4. CASE initial = {}
    <3>1. t # <<>>
      BY <1>1
    <3> QED BY <1>2, <2>1, <2>2, <2>4, <3>1
  <2> QED BY <2>3, <2>4
<1>6. ~ScoreText(t).correct
  BY <1>1, <1>5, VerdictIs DEF ScoreText
<1>7. ~ScoreNumeric(t).correct
  <2> DEFINE c == ExtractCandidate(t)  attributed == {t[i][2] : i \in Form(t, "keyed")}
  <2>1. c.span = t
    BY <1>5
  <2> HIDE DEF c
  <2>2. ScoreNumeric(t) =
           IF Values(t) = {} THEN Unparsed
           ELSE IF attributed # {} THEN Verdict(attributed = {Gold})
           ELSE Verdict(Values(t) = {Gold} /\ Places(t, {Or}) = {})
    BY <2>1 DEF ScoreNumeric, c
  <2>3. attributed = {}
    BY WholeIsRead
  <2> HIDE DEF attributed
  <2> QED BY <1>1, <2>2, <2>3, VerdictIs
<1> QED BY <1>4, <1>6, <1>7

-----------------------------------------------------------------------------
(* The parts of the candidate that are left after n parts of the gold answer. *)
Hits(left, cand, x) == {i \in left : cand[i] = x}
Took(left, cand, x) ==
    IF Hits(left, cand, x) = {} THEN left ELSE left \ {Min(Hits(left, cand, x))}

LEMMA LeftOverIs ==
    ASSUME NEW D, NEW cand \in Seq(D), NEW gold \in Seq(D)
    PROVE  LET L == LeftOver(cand, gold) IN
           /\ L[0] = 1..Len(cand)
           /\ \A n \in 1..Len(gold) : L[n] = Took(L[n - 1], cand, gold[n])
           /\ \A n \in 0..Len(gold) : L[n] \subseteq 1..Len(cand)
<1> DEFINE G == Len(gold)  V == SUBSET (1..Len(cand))
           step == [x \in (1..G) \X V |-> Took(x[2], cand, gold[x[1]])]
           Eq(g) == g = [n \in 0..G |->
                            IF n = 0 THEN DOMAIN cand
                            ELSE LET hits == {i \in g[n - 1] : cand[i] = gold[n]}
                                 IN  IF hits = {} THEN g[n - 1] ELSE g[n - 1] \ {Min(hits)}]
<1>1. G \in Nat /\ DOMAIN cand = 1..Len(cand)
  OBVIOUS
<1>2. LeftOver(cand, gold) = CHOOSE g : Eq(g)
  BY DEF LeftOver
<1> HIDE DEF G
<1>3. step \in [(1..G) \X V -> V] /\ 1..Len(cand) \in V
  BY DEF Took
<1>4. \A n \in 1..G, v \in V : step[<<n, v>>] = Took(v, cand, gold[n])
  OBVIOUS
<1> HIDE DEF step, V
<1>5. PICK f \in [0..G -> V] : Computes(f, 1..Len(cand), step, G)
  BY <1>1, <1>3, LoopExists
<1>6. ASSUME NEW n \in 0..G
      PROVE  f[n] = IF n = 0 THEN DOMAIN cand ELSE Took(f[n - 1], cand, gold[n])
  <2>1. CASE n = 0
    BY <1>1, <1>5, <2>1 DEF Computes
  <2>2. CASE n # 0
    <3>1. n \in 1..G /\ n - 1 \in 0..G
      BY <1>1, <2>2
    <3>2. f[n] = step[<<n, f[n - 1]>>] /\ f[n - 1] \in V
      BY <1>5, <3>1 DEF Computes
    <3> QED BY <1>4, <2>2, <3>1, <3>2
  <2> QED BY <2>1, <2>2
<1>7. Eq(f)
  BY <1>6 DEF Took, Hits
<1> DEFINE L == CHOOSE g : Eq(g)
<1>8. Eq(L)
  <2> HIDE DEF Eq
  <2> QED BY <1>7
<1>9. LeftOver(cand, gold) = L
  BY <1>2
<1> HIDE DEF L
<1>10. \A n \in 0..G : L[n] = IF n = 0 THEN DOMAIN cand ELSE Took(L[n - 1], cand, gold[n])
  BY <1>8 DEF Took, Hits
<1>11. L[0] = 1..Len(cand) /\ \A n \in 1..G : L[n] = Took(L[n - 1], cand, gold[n])
  <2>1. 0 \in 0..G /\ \A n \in 1..G : n \in 0..G /\ n # 0
    BY <1>1
  <2> QED BY <1>1, <1>10, <2>1
<1>12. \A n \in 0..G : L[n] \subseteq 1..Len(cand)
  <2> DEFINE T == {n \in Nat : n \in 0..G => L[n] \subseteq 1..Len(cand)}
  <2>1. 0 \in T
    BY <1>11
  <2>2. ASSUME NEW n \in 0..(G - 1), n \in T PROVE n + 1 \in T
    <3>1. n \in 0..G /\ n + 1 \in 1..G /\ (n + 1) - 1 = n
      BY <1>1
    <3>2. L[n + 1] = Took(L[n], cand, gold[n + 1])
      BY <1>11, <3>1
    <3>3. L[n + 1] \subseteq L[n]
      BY <3>2 DEF Took
    <3> QED BY <2>2, <3>1, <3>3
  <2>3. \A n \in 0..(G - 1) : n \in T => n + 1 \in T
    BY <2>2
  <2>4. \A n \in 0..G : n \in T
    <3> HIDE DEF T
    <3> QED BY <1>1, <2>1, <2>3, Induction
  <2> QED BY <2>4
<1> QED BY <1>9, <1>11, <1>12 DEF G

(* While every part finds its like, the parts of each value that are left   *)
(* and those that were taken are all there were.                           *)
Given(gold, n, x) == {j \in 1..n : gold[j] = x}
AllFound(L, cand, gold, n) == \A m \in 1..n : Hits(L[m - 1], cand, gold[m]) # {}

Balanced(L, cand, gold, n) ==
    \A x : Cardinality(Hits(L[n], cand, x)) + Cardinality(Given(gold, n, x))
               = Cardinality(Hits(L[0], cand, x))

LEMMA CountsAreFinite ==
    ASSUME NEW n \in Nat, NEW S, S \subseteq 1..n, NEW s, NEW x
    PROVE  IsFiniteSet(Hits(S, s, x)) /\ Cardinality(Hits(S, s, x)) \in Nat
<1>1. IsFiniteSet(1..n)
  BY FS_Interval
<1>2. Hits(S, s, x) \in SUBSET (1..n)
  BY DEF Hits
<1> QED BY <1>1, <1>2, FS_Subset, FS_CardinalityType

LEMMA OneMore ==
    ASSUME NEW D, NEW gold \in Seq(D), NEW n \in Nat, n + 1 <= Len(gold), NEW x
    PROVE  /\ Cardinality(Given(gold, n, x)) \in Nat
           /\ Cardinality(Given(gold, n + 1, x)) =
                 IF x = gold[n + 1] THEN Cardinality(Given(gold, n, x)) + 1
                 ELSE Cardinality(Given(gold, n, x))
<1> DEFINE A == Given(gold, n, x)  B == Given(gold, n + 1, x)
<1>1. A = Hits(1..n, gold, x)
  BY DEF Given, Hits
<1>2. IsFiniteSet(A) /\ Cardinality(A) \in Nat
  BY <1>1, CountsAreFinite
<1>3. 1..(n + 1) = (1..n) \cup {n + 1} /\ n + 1 \notin 1..n
  OBVIOUS
<1>4. CASE x = gold[n + 1]
  <2>1. B = A \cup {n + 1} /\ n + 1 \notin A
    BY <1>3, <1>4 DEF Given
  <2> HIDE DEF A, B
  <2> QED BY <1>2, <1>4, <2>1, FS_AddElement DEF A, B
<1>5. CASE x # gold[n + 1]
  <2>1. B = A
    BY <1>3, <1>5 DEF Given
  <2> QED BY <1>2, <1>5, <2>1
<1> QED BY <1>2, <1>4, <1>5

LEMMA OneLess ==
    ASSUME NEW n \in Nat, NEW S, S \subseteq 1..n, NEW cand, NEW y, Hits(S, cand, y) # {}, NEW x
    PROVE  Cardinality(Hits(S, cand, x)) =
              IF x = y THEN Cardinality(Hits(Took(S, cand, y), cand, x)) + 1
              ELSE Cardinality(Hits(Took(S, cand, y), cand, x))
<1> DEFINE H == Hits(S, cand, y)  m == Min(H)  R == Took(S, cand, y)
           A == Hits(S, cand, x)  B == Hits(R, cand, x)
<1>1. H \subseteq Nat
  <2>1. H \subseteq S /\ 1..n \subseteq Nat
    BY DEF Hits
  <2> QED BY <2>1
<1>2. m \in H
  BY <1>1, MinIs
<1>3. m \in S /\ cand[m] = y
  BY <1>2 DEF Hits
<1>4. R = S \ {m}
  BY DEF Took
<1>5. IsFiniteSet(A) /\ Cardinality(A) \in Nat
  BY CountsAreFinite
<1> HIDE DEF m, R, H
<1>6. CASE x = y
  <2>1. B = A \ {m} /\ m \in A
    BY <1>3, <1>4, <1>6 DEF Hits
  <2> HIDE DEF A, B
  <2>2. Cardinality(B) = Cardinality(A) - 1
    BY <1>5, <2>1, FS_RemoveElement
  <2> QED BY <1>5, <1>6, <2>2 DEF A, B, R
<1>7. CASE x # y
  <2>1. B = A
    BY <1>3, <1>4, <1>7 DEF Hits
  <2> QED BY <1>7, <2>1 DEF R
<1> QED BY <1>6, <1>7

LEMMA FoundIsBalanced ==
    ASSUME NEW D, NEW cand \in Seq(D), NEW gold \in Seq(D), NEW n \in 0..Len(gold),
           AllFound(LeftOver(cand, gold), cand, gold, n)
    PROVE  Balanced(LeftOver(cand, gold), cand, gold, n)
<1> DEFINE L == LeftOver(cand, gold)  G == Len(gold)  N == Len(cand)
           T == {k \in Nat : k \in 0..n => Balanced(L, cand, gold, k)}
<1>1. G \in Nat /\ N \in Nat /\ n \in 0..G /\ n \in Nat
  OBVIOUS
<1>2. /\ L[0] = 1..N
      /\ \A k \in 1..G : L[k] = Took(L[k - 1], cand, gold[k])
      /\ \A k \in 0..G : L[k] \subseteq 1..N
  BY LeftOverIs
<1> HIDE DEF L, G, N
<1>3. 0 \in T
  <2>1. Balanced(L, cand, gold, 0)
    <3> SUFFICES ASSUME NEW x
                 PROVE  Cardinality(Hits(L[0], cand, x)) + Cardinality(Given(gold, 0, x))
                            = Cardinality(Hits(L[0], cand, x))
      BY DEF Balanced
    <3>1. Given(gold, 0, x) = {}
      BY DEF Given
    <3>2. Cardinality(Given(gold, 0, x)) = 0
      BY <3>1, FS_EmptySet
    <3>3. Cardinality(Hits(L[0], cand, x)) \in Nat
      BY <1>1, <1>2, CountsAreFinite
    <3> QED BY <3>2, <3>3
  <2> QED BY <2>1
<1>4. ASSUME NEW k \in 0..(n - 1), k \in T PROVE k + 1 \in T
  <2>1. /\ k \in Nat /\ k \in 0..n /\ k + 1 \in 1..n /\ k + 1 \in 1..G /\ (k + 1) - 1 = k
        /\ k \in 0..G /\ k + 1 <= Len(gold)
    BY <1>1 DEF G
  <2>2. Balanced(L, cand, gold, k)
    BY <1>4, <2>1
  <2>3. L[k + 1] = Took(L[k], cand, gold[k + 1]) /\ L[k] \subseteq 1..N
    BY <1>2, <2>1
  <2>4. Hits(L[k], cand, gold[k + 1]) # {}
    BY <2>1 DEF AllFound, L
  <2>5. ASSUME NEW x
        PROVE  Cardinality(Hits(L[k + 1], cand, x)) + Cardinality(Given(gold, k + 1, x))
                   = Cardinality(Hits(L[0], cand, x))
    <3> DEFINE a == Cardinality(Hits(L[k], cand, x))  a1 == Cardinality(Hits(L[k + 1], cand, x))
               g == Cardinality(Given(gold, k, x))  g1 == Cardinality(Given(gold, k + 1, x))
               c == Cardinality(Hits(L[0], cand, x))
    <3>1. a + g = c
      BY <2>2 DEF Balanced
    <3>2. a = IF x = gold[k + 1] THEN a1 + 1 ELSE a1
      BY <1>1, <2>3, <2>4, OneLess
    <3>3. g \in Nat /\ g1 = IF x = gold[k + 1] THEN g + 1 ELSE g
      BY <2>1, OneMore
    <3>4. L[k + 1] \subseteq 1..N
      BY <2>3 DEF Took
    <3>5. a1 \in Nat
      BY <1>1, <3>4, CountsAreFinite
    <3> HIDE DEF a, a1, g, g1, c
    <3>6. a1 + g1 = c
      BY <3>1, <3>2, <3>3, <3>5
    <3> QED BY <3>6 DEF a1, g1, c
  <2>6. Balanced(L, cand, gold, k + 1)
    BY <2>5 DEF Balanced
  <2> QED BY <2>1, <2>6
<1>5. n \in T
  <2>1. \A k \in 0..(n - 1) : k \in T => k + 1 \in T
    BY <1>4
  <2> HIDE DEF T
  <2>2. \A k \in 0..n : k \in T
    BY <1>1, <1>3, <2>1, Induction
  <2> QED BY <1>1, <2>2
<1> QED BY <1>5 DEF L

SameBag(cand, gold) ==
    \A x \in Range(cand) \cup Range(gold) :
        Cardinality(Places(cand, {x})) = Cardinality(Places(gold, {x}))

(* Removing the parts one after another compares bags (math.py:470-476).    *)
LEMMA EquivalentIsSameBag ==
    ASSUME NEW D, NEW cand \in Seq(D), NEW gold \in Seq(D)
    PROVE  Equivalent(cand, gold, FALSE) <=> SameBag(cand, gold)
<1> DEFINE L == LeftOver(cand, gold)  G == Len(gold)  N == Len(cand)
           Found(n) == AllFound(L, cand, gold, n)
<1>1. G \in Nat /\ N \in Nat
  OBVIOUS
<1>2. /\ L[0] = 1..N
      /\ \A k \in 1..G : L[k] = Took(L[k - 1], cand, gold[k])
      /\ \A k \in 0..G : L[k] \subseteq 1..N
  BY LeftOverIs
<1>3. SetEqual(cand, gold) <=> Found(G)
  BY DEF SetEqual, AllFound, Hits
<1>4. \A n \in 0..G : Found(n) => Balanced(L, cand, gold, n)
  BY FoundIsBalanced
<1>5. \A x : Places(cand, {x}) = Hits(L[0], cand, x) /\ Places(gold, {x}) = Given(gold, G, x)
  BY <1>2 DEF Places, Hits, Given
<1>6. Equivalent(cand, gold, FALSE) <=> N = G /\ SetEqual(cand, gold)
  BY DEF Equivalent
<1> HIDE DEF L, G, N
(* How many are left after n parts that were all found. *)
<1>7. ASSUME NEW n \in 0..G, Found(n) PROVE IsFiniteSet(L[n]) /\ Cardinality(L[n]) = N - n
  <2> DEFINE T == {k \in Nat : k \in 0..n => IsFiniteSet(L[k]) /\ Cardinality(L[k]) = N - k}
  <2>1. 0 \in T
    BY <1>1, <1>2, FS_Interval
  <2>2. ASSUME NEW k \in 0..(n - 1), k \in T PROVE k + 1 \in T
    <3>1. k \in Nat /\ k \in 0..n /\ k + 1 \in 1..n /\ k + 1 \in 1..G /\ (k + 1) - 1 = k /\ k \in 0..G
      BY <1>1
    <3> DEFINE H == Hits(L[k], cand, gold[k + 1])  S == L[k]  m == Min(H)
    <3>2. S \subseteq 1..N /\ IsFiniteSet(S) /\ Cardinality(S) = N - k
      BY <1>2, <2>2, <3>1
    <3>3. H # {}
      BY <1>7, <3>1 DEF AllFound
    <3>4. H \subseteq Nat /\ H \subseteq S
      BY <3>2 DEF Hits
    <3>5. m \in S
      <4> HIDE DEF H
      <4> QED BY <3>3, <3>4, MinIs
    <3>6. L[k + 1] = S \ {m}
      BY <1>2, <3>1, <3>3 DEF Took
    <3> HIDE DEF S, m, H
    <3>7. IsFiniteSet(S \ {m}) /\ Cardinality(S \ {m}) = Cardinality(S) - 1
      BY <3>2, <3>5, FS_RemoveElement
    <3>8. IsFiniteSet(L[k + 1]) /\ Cardinality(L[k + 1]) = N - (k + 1)
      BY <1>1, <3>1, <3>2, <3>6, <3>7
    <3> QED BY <3>1, <3>8
  <2>3. \A k \in 0..(n - 1) : k \in T => k + 1 \in T
    BY <2>2
  <2>4. n \in Nat /\ n \in 0..n
    BY <1>1
  <2> HIDE DEF T
  <2>5. \A k \in 0..n : k \in T
    BY <2>1, <2>3, <2>4, Induction
  <2> QED BY <2>4, <2>5 DEF T
<1>8. ASSUME Equivalent(cand, gold, FALSE) PROVE SameBag(cand, gold)
  <2>a. N = G /\ SetEqual(cand, gold)
    BY <1>6, <1>8
  <2>b. G \in 0..G
    BY <1>1
  <2>1. N = G /\ Found(G) /\ G \in 0..G
    BY <1>3, <2>a, <2>b
  <2>2. Cardinality(L[G]) = 0 /\ IsFiniteSet(L[G])
    BY <1>1, <1>7, <2>1
  <2>3. L[G] = {}
    BY <2>2, FS_EmptySet
  <2>4. ASSUME NEW x PROVE Cardinality(Places(cand, {x})) = Cardinality(Places(gold, {x}))
    <3> DEFINE g == Cardinality(Given(gold, G, x))  c == Cardinality(Hits(L[0], cand, x))
    <3>1. Hits(L[G], cand, x) = {}
      BY <2>3 DEF Hits
    <3>2. Cardinality(Hits(L[G], cand, x)) = 0
      BY <3>1, FS_EmptySet
    <3>3. 0 + g = c
      BY <1>4, <2>1, <3>2 DEF Balanced
    <3>4. g \in Nat
      <4>1. Given(gold, G, x) = Hits(1..G, gold, x)
        BY DEF Given, Hits
      <4> QED BY <1>1, <4>1, CountsAreFinite
    <3> HIDE DEF g, c
    <3>5. g = c
      BY <3>3, <3>4
    <3> QED BY <1>5, <3>5 DEF g, c
  <2> QED BY <2>4 DEF SameBag
<1>9. ASSUME SameBag(cand, gold) PROVE Equivalent(cand, gold, FALSE)
  <2>0. ASSUME NEW x, x \in Range(cand) \/ x \in Range(gold)
        PROVE  Cardinality(Hits(L[0], cand, x)) = Cardinality(Given(gold, G, x))
    <3>1. Cardinality(Places(cand, {x})) = Cardinality(Places(gold, {x}))
      BY <1>9, <2>0 DEF SameBag
    <3> QED BY <1>5, <3>1
  <2> DEFINE T == {n \in Nat : n \in 0..G => Found(n)}
  <2>1. 0 \in T
    BY DEF AllFound
  <2>2. ASSUME NEW n \in 0..(G - 1), n \in T PROVE n + 1 \in T
    <3>1. n \in Nat /\ n \in 0..G /\ n + 1 \in 1..G /\ (n + 1) - 1 = n /\ n + 1 <= Len(gold)
      BY <1>1 DEF G
    <3>2. Found(n)
      BY <2>2, <3>1
    <3> DEFINE x == gold[n + 1]
               a == Cardinality(Hits(L[n], cand, x))  c == Cardinality(Hits(L[0], cand, x))
               g == Cardinality(Given(gold, n, x))  all == Cardinality(Given(gold, G, x))
    <3>3. a + g = c
      BY <1>4, <3>1, <3>2 DEF Balanced
    <3>4. c = all
      <4>1. x \in Range(gold)
        BY <3>1 DEF Range, G
      <4> QED BY <2>0, <4>1
    <3>5. g < all
      <4> DEFINE A == Given(gold, n, x)  B == Given(gold, n + 1, x)  C == Given(gold, G, x)
      <4>1. Cardinality(A) \in Nat /\ Cardinality(B) = Cardinality(A) + 1
        BY <3>1, OneMore
      <4>2. B \in SUBSET C
        BY <1>1, <3>1 DEF Given
      <4>3. C = Hits(1..G, gold, x)
        BY DEF Given, Hits
      <4>4. IsFiniteSet(C) /\ Cardinality(C) \in Nat
        BY <1>1, <4>3, CountsAreFinite
      <4> HIDE DEF A, B, C
      <4>5. Cardinality(B) <= Cardinality(C)
        BY <4>2, <4>4, FS_Subset
      <4>6. Cardinality(A) < Cardinality(C)
        BY <4>1, <4>4, <4>5
      <4> QED BY <4>6 DEF A, C
    <3>6. L[n] \subseteq 1..N
      BY <1>2, <3>1
    <3>7. a \in Nat /\ g \in Nat /\ all \in Nat
      <4>1. Given(gold, G, x) = Hits(1..G, gold, x) /\ Given(gold, n, x) = Hits(1..n, gold, x)
        BY DEF Given, Hits
      <4> QED BY <1>1, <3>1, <3>6, <4>1, CountsAreFinite
    <3>8. a # 0
      <4> HIDE DEF a, g, c, all
      <4> QED BY <3>3, <3>4, <3>5, <3>7
    <3>9. Hits(L[n], cand, gold[n + 1]) # {}
      BY <3>8, FS_EmptySet
    <3>10. Found(n + 1)
      <4> SUFFICES ASSUME NEW m \in 1..(n + 1) PROVE Hits(L[m - 1], cand, gold[m]) # {}
        BY DEF AllFound
      <4>1. m = n + 1 \/ m \in 1..n
        BY <3>1
      <4> QED BY <3>1, <3>2, <3>9, <4>1 DEF AllFound
    <3> QED BY <3>1, <3>10
  <2>3. G \in T
    <3>1. \A n \in 0..(G - 1) : n \in T => n + 1 \in T
      BY <2>2
    <3> HIDE DEF T
    <3>2. \A n \in 0..G : n \in T
      BY <1>1, <2>1, <3>1, Induction
    <3> QED BY <1>1, <3>2
  <2>4. Found(G) /\ G \in 0..G
    BY <1>1, <2>3
  <2>5. L[G] = {}
    <3> SUFFICES ASSUME NEW i \in L[G] PROVE FALSE
      OBVIOUS
    <3> DEFINE x == cand[i]
               a == Cardinality(Hits(L[G], cand, x))  c == Cardinality(Hits(L[0], cand, x))
               g == Cardinality(Given(gold, G, x))
    <3>1. a + g = c
      BY <1>4, <2>4 DEF Balanced
    <3>2. L[G] \subseteq 1..N
      BY <1>2, <2>4
    <3>3. c = g
      <4>1. x \in Range(cand)
        BY <3>2 DEF Range, N
      <4> QED BY <2>0, <4>1
    <3>4. a \in Nat /\ g \in Nat /\ IsFiniteSet(Hits(L[G], cand, x))
      <4>1. Given(gold, G, x) = Hits(1..G, gold, x)
        BY DEF Given, Hits
      <4> QED BY <1>1, <3>2, <4>1, CountsAreFinite
    <3>5. a = 0
      <4> HIDE DEF a, c, g
      <4> QED BY <3>1, <3>3, <3>4
    <3>6. i \in Hits(L[G], cand, x)
      BY DEF Hits
    <3> QED BY <3>4, <3>5, <3>6, FS_EmptySet
  <2>6. N = G
    <3>1. Cardinality(L[G]) = N - G
      BY <1>7, <2>4
    <3>2. Cardinality(L[G]) = 0
      BY <2>5, FS_EmptySet
    <3> QED BY <1>1, <3>1, <3>2
  <2> QED BY <1>3, <1>6, <2>4, <2>6
<1> QED BY <1>8, <1>9

-----------------------------------------------------------------------------
(* One step of the search for an augmenting path. *)
Untried(ok, nGold, s) == {j \in (1..nGold) \ s.seen : ok[s.call][j]}

Holder(s, j) == [call |-> s.given[j], given |-> s.given, seen |-> s.seen \cup {j}]
Again(s, r)  == [call |-> s.call, given |-> r.given, seen |-> r.seen]

AskHolder(try, s, j) ==
    IF s.given[j] = Free THEN [found |-> TRUE, given |-> s.given, seen |-> s.seen \cup {j}]
    ELSE try[Holder(s, j)]

SearchFrom(try, s, j) ==
    IF AskHolder(try, s, j).found THEN [AskHolder(try, s, j) EXCEPT !.given[j] = s.call]
    ELSE try[Again(s, AskHolder(try, s, j))]

Search(ok, nGold, try, s) ==
    IF Untried(ok, nGold, s) = {} THEN [found |-> FALSE, given |-> s.given, seen |-> s.seen]
    ELSE SearchFrom(try, s, Min(Untried(ok, nGold, s)))

Results(nCalls, nGold) ==
    [found : BOOLEAN, given : [1..nGold -> 0..nCalls], seen : SUBSET (1..nGold)]

Grows(nCalls, nGold, s, r) == r \in Results(nCalls, nGold) /\ s.seen \subseteq r.seen

Deeper(nCalls, nGold, s) ==
    {x \in Searches(nCalls, nGold) : s.seen \subseteq x.seen /\ s.seen # x.seen}

LEMMA UntriedIs ==
    ASSUME NEW nGold \in Nat, NEW ok, NEW s, Untried(ok, nGold, s) # {}
    PROVE  LET j == Min(Untried(ok, nGold, s)) IN
           j \in 1..nGold /\ j \notin s.seen /\ ok[s.call][j]
<1>1. Untried(ok, nGold, s) \subseteq 1..nGold /\ 1..nGold \subseteq Nat
  BY DEF Untried
<1>2. Untried(ok, nGold, s) \subseteq Nat
  BY <1>1
<1>3. Min(Untried(ok, nGold, s)) \in Untried(ok, nGold, s)
  BY <1>2, MinIs
<1> QED BY <1>3 DEF Untried

LEMMA SearchesIs ==
    ASSUME NEW nCalls \in Nat, NEW nGold \in Nat, NEW s \in Searches(nCalls, nGold)
    PROVE  /\ s.call \in 1..nCalls /\ s.given \in [1..nGold -> 0..nCalls] /\ s.seen \subseteq 1..nGold
           /\ s = [call |-> s.call, given |-> s.given, seen |-> s.seen]
           /\ \A j \in 1..nGold : j \notin s.seen /\ s.given[j] # Free =>
                 Holder(s, j) \in Deeper(nCalls, nGold, s)
           /\ \A j \in 1..nGold, r \in Results(nCalls, nGold) :
                 j \notin s.seen /\ s.seen \cup {j} \subseteq r.seen =>
                     Again(s, r) \in Deeper(nCalls, nGold, s)
<1>1. /\ s.call \in 1..nCalls /\ s.given \in [1..nGold -> 0..nCalls] /\ s.seen \subseteq 1..nGold
      /\ s = [call |-> s.call, given |-> s.given, seen |-> s.seen]
  BY DEF Searches
<1>2. ASSUME NEW j \in 1..nGold, j \notin s.seen, s.given[j] # Free
      PROVE  Holder(s, j) \in Deeper(nCalls, nGold, s)
  <2>1. s.given[j] \in 1..nCalls
    BY <1>1, <1>2 DEF Free
  <2>2. Holder(s, j) \in Searches(nCalls, nGold)
    BY <1>1, <2>1 DEF Holder, Searches
  <2>3. Holder(s, j).seen = s.seen \cup {j}
    BY DEF Holder
  <2> QED BY <1>2, <2>2, <2>3 DEF Deeper
<1>3. ASSUME NEW j \in 1..nGold, NEW r \in Results(nCalls, nGold),
             j \notin s.seen, s.seen \cup {j} \subseteq r.seen
      PROVE  Again(s, r) \in Deeper(nCalls, nGold, s)
  <2>1. Again(s, r) \in Searches(nCalls, nGold)
    BY <1>1 DEF Again, Searches, Results
  <2>2. Again(s, r).seen = r.seen
    BY DEF Again
  <2> QED BY <1>3, <2>1, <2>2 DEF Deeper
<1> QED BY <1>1, <1>2, <1>3

(* A step is typed, and depends only on deeper searches. *)
LEMMA AskGrows ==
    ASSUME NEW nCalls \in Nat, NEW nGold \in Nat, NEW try, NEW s \in Searches(nCalls, nGold),
           \A x \in Deeper(nCalls, nGold, s) : Grows(nCalls, nGold, x, try[x]),
           NEW j \in 1..nGold, j \notin s.seen
    PROVE  /\ AskHolder(try, s, j) \in Results(nCalls, nGold)
           /\ s.seen \cup {j} \subseteq AskHolder(try, s, j).seen
<1>1. /\ s.given \in [1..nGold -> 0..nCalls] /\ s.seen \subseteq 1..nGold
      /\ s.given[j] # Free => Holder(s, j) \in Deeper(nCalls, nGold, s)
  BY SearchesIs
<1>2. CASE s.given[j] = Free
  <2>1. AskHolder(try, s, j) = [found |-> TRUE, given |-> s.given, seen |-> s.seen \cup {j}]
    BY <1>2 DEF AskHolder
  <2> QED BY <1>1, <2>1 DEF Results
<1>3. CASE s.given[j] # Free
  <2>1. AskHolder(try, s, j) = try[Holder(s, j)]
    BY <1>3 DEF AskHolder
  <2>2. Grows(nCalls, nGold, Holder(s, j), try[Holder(s, j)])
    BY <1>1, <1>3
  <2> QED BY <2>1, <2>2 DEF Grows, Holder
<1> QED BY <1>2, <1>3

LEMMA SearchGrows ==
    ASSUME NEW nCalls \in Nat, NEW nGold \in Nat, NEW ok, NEW try, NEW s \in Searches(nCalls, nGold),
           \A x \in Deeper(nCalls, nGold, s) : Grows(nCalls, nGold, x, try[x])
    PROVE  Grows(nCalls, nGold, s, Search(ok, nGold, try, s))
<1>1. s.call \in 1..nCalls /\ s.given \in [1..nGold -> 0..nCalls] /\ s.seen \subseteq 1..nGold
  BY SearchesIs
<1>2. CASE Untried(ok, nGold, s) = {}
  <2>1. Search(ok, nGold, try, s) = [found |-> FALSE, given |-> s.given, seen |-> s.seen]
    BY <1>2 DEF Search
  <2> QED BY <1>1, <2>1 DEF Grows, Results
<1>3. CASE Untried(ok, nGold, s) # {}
  <2> DEFINE j == Min(Untried(ok, nGold, s))  r == AskHolder(try, s, j)
  <2>1. j \in 1..nGold /\ j \notin s.seen
    BY <1>3, UntriedIs
  <2>2. Search(ok, nGold, try, s) = SearchFrom(try, s, j)
    BY <1>3 DEF Search
  <2> HIDE DEF j
  <2>3. r \in Results(nCalls, nGold) /\ s.seen \cup {j} \subseteq r.seen
    BY <2>1, AskGrows
  <2>4. CASE r.found
    <3>1. SearchFrom(try, s, j) = [r EXCEPT !.given[j] = s.call]
      BY <2>4 DEF SearchFrom
    <3> HIDE DEF r
    <3>2. [r EXCEPT !.given[j] = s.call] \in Results(nCalls, nGold)
      <4>1. r.given \in [1..nGold -> 0..nCalls] /\ r.found \in BOOLEAN /\ r.seen \in SUBSET (1..nGold)
            /\ r = [found |-> r.found, given |-> r.given, seen |-> r.seen]
        BY <2>3 DEF Results
      <4>a. s.call \in 0..nCalls
        BY <1>1
      <4>2. [r.given EXCEPT ![j] = s.call] \in [1..nGold -> 0..nCalls]
        BY <4>1, <4>a
      <4>3. [r EXCEPT !.given[j] = s.call] =
               [found |-> r.found, given |-> [r.given EXCEPT ![j] = s.call], seen |-> r.seen]
        BY <4>1
      <4> QED BY <4>1, <4>2, <4>3 DEF Results
    <3>3. [r EXCEPT !.given[j] = s.call].seen = r.seen
      BY <2>3 DEF Results
    <3> QED BY <2>2, <2>3, <3>1, <3>2, <3>3 DEF Grows
  <2>5. CASE ~r.found
    <3>1. SearchFrom(try, s, j) = try[Again(s, r)]
      BY <2>5 DEF SearchFrom
    <3> HIDE DEF r
    <3>2. Again(s, r) \in Deeper(nCalls, nGold, s)
      BY <2>1, <2>3, SearchesIs
    <3>3. Grows(nCalls, nGold, Again(s, r), try[Again(s, r)])
      BY <3>2
    <3> QED BY <2>2, <2>3, <3>1, <3>3 DEF Grows, Again
  <2> QED BY <2>4, <2>5
<1> QED BY <1>2, <1>3

LEMMA SearchSame ==
    ASSUME NEW nCalls \in Nat, NEW nGold \in Nat, NEW ok, NEW try, NEW other,
           NEW s \in Searches(nCalls, nGold),
           \A x \in Deeper(nCalls, nGold, s) : Grows(nCalls, nGold, x, try[x]) /\ other[x] = try[x]
    PROVE  Search(ok, nGold, other, s) = Search(ok, nGold, try, s)
<1>1. CASE Untried(ok, nGold, s) = {}
  BY <1>1 DEF Search
<1>2. CASE Untried(ok, nGold, s) # {}
  <2> DEFINE j == Min(Untried(ok, nGold, s))  r == AskHolder(try, s, j)
  <2>1. j \in 1..nGold /\ j \notin s.seen
    BY <1>2, UntriedIs
  <2>2. /\ Search(ok, nGold, try, s) = SearchFrom(try, s, j)
        /\ Search(ok, nGold, other, s) = SearchFrom(other, s, j)
    BY <1>2 DEF Search
  <2> HIDE DEF j
  <2>3. r \in Results(nCalls, nGold) /\ s.seen \cup {j} \subseteq r.seen
    BY <2>1, AskGrows
  <2>4. AskHolder(other, s, j) = r
    <3>1. s.given[j] # Free => Holder(s, j) \in Deeper(nCalls, nGold, s)
      BY <2>1, SearchesIs
    <3> QED BY <3>1 DEF AskHolder
  <2>5. Again(s, r) \in Deeper(nCalls, nGold, s)
    <3> HIDE DEF r
    <3> QED BY <2>1, <2>3, SearchesIs
  <2>6. SearchFrom(other, s, j) = SearchFrom(try, s, j)
    BY <2>4, <2>5 DEF SearchFrom
  <2> QED BY <2>2, <2>6
<1> QED BY <1>1, <1>2

-----------------------------------------------------------------------------
(* The recursion ends: every step looks at one more expected call. *)
Unseen(nGold, s) == Cardinality((1..nGold) \ s.seen)
Level(nCalls, nGold, k) == {s \in Searches(nCalls, nGold) : Unseen(nGold, s) < k}

LEMMA LevelsEnd ==
    ASSUME NEW nCalls \in Nat, NEW nGold \in Nat
    PROVE  /\ Level(nCalls, nGold, nGold + 1) = Searches(nCalls, nGold)
           /\ Level(nCalls, nGold, 0) = {}
           /\ \A k \in Nat : \A s \in Level(nCalls, nGold, k + 1) :
                 Deeper(nCalls, nGold, s) \subseteq Level(nCalls, nGold, k)
           /\ \A k \in Nat : Level(nCalls, nGold, k) \subseteq Level(nCalls, nGold, k + 1)
           /\ \A k : Level(nCalls, nGold, k) \subseteq Searches(nCalls, nGold)
<1>1. IsFiniteSet(1..nGold) /\ Cardinality(1..nGold) = nGold
  BY FS_Interval
<1>2. ASSUME NEW s \in Searches(nCalls, nGold)
      PROVE  /\ Unseen(nGold, s) \in Nat /\ Unseen(nGold, s) <= nGold
             /\ IsFiniteSet((1..nGold) \ s.seen)
  <2> DEFINE U == (1..nGold) \ s.seen
  <2>1. U \in SUBSET (1..nGold)
    OBVIOUS
  <2> HIDE DEF U
  <2>2. IsFiniteSet(U) /\ Cardinality(U) <= nGold
    BY <1>1, <2>1, FS_Subset
  <2>3. Cardinality(U) \in Nat
    BY <2>2, FS_CardinalityType
  <2> QED BY <2>2, <2>3 DEF Unseen, U
<1>3. ASSUME NEW s \in Searches(nCalls, nGold), NEW x \in Deeper(nCalls, nGold, s)
      PROVE  Unseen(nGold, x) < Unseen(nGold, s)
  <2> DEFINE U == (1..nGold) \ s.seen  W == (1..nGold) \ x.seen
  <2>1. /\ x \in Searches(nCalls, nGold) /\ s.seen \subseteq x.seen /\ s.seen # x.seen
        /\ x.seen \subseteq 1..nGold /\ s.seen \subseteq 1..nGold
    BY SearchesIs DEF Deeper
  <2>2. W \in SUBSET U /\ W # U
    BY <2>1
  <2>3. IsFiniteSet(U)
    BY <1>2
  <2>4. Cardinality(W) \in Nat /\ Cardinality(U) \in Nat
    BY <1>2, <2>1 DEF Unseen
  <2> HIDE DEF U, W
  <2>5. Cardinality(W) <= Cardinality(U) /\ Cardinality(U) # Cardinality(W)
    BY <2>2, <2>3, FS_Subset
  <2>6. Cardinality(W) < Cardinality(U)
    BY <2>4, <2>5
  <2> QED BY <2>6 DEF Unseen, U, W
<1>4. Level(nCalls, nGold, nGold + 1) = Searches(nCalls, nGold)
  <2>1. ASSUME NEW s \in Searches(nCalls, nGold) PROVE Unseen(nGold, s) < nGold + 1
    <3>1. Unseen(nGold, s) \in Nat /\ Unseen(nGold, s) <= nGold
      BY <1>2
    <3> QED BY <3>1
  <2> QED BY <2>1 DEF Level
<1>5. Level(nCalls, nGold, 0) = {}
  <2>1. ASSUME NEW s \in Searches(nCalls, nGold) PROVE ~(Unseen(nGold, s) < 0)
    <3>1. Unseen(nGold, s) \in Nat
      BY <1>2
    <3> QED BY <3>1
  <2> QED BY <2>1 DEF Level
<1>6. ASSUME NEW k \in Nat, NEW s \in Level(nCalls, nGold, k + 1), NEW x \in Deeper(nCalls, nGold, s)
      PROVE  x \in Level(nCalls, nGold, k)
  <2>1. s \in Searches(nCalls, nGold) /\ x \in Searches(nCalls, nGold)
    BY DEF Level, Deeper
  <2>2. Unseen(nGold, s) < k + 1
    BY DEF Level
  <2>a. Unseen(nGold, s) \in Nat /\ Unseen(nGold, x) \in Nat
    BY <1>2, <2>1
  <2>b. Unseen(nGold, x) < Unseen(nGold, s)
    BY <1>3, <2>1
  <2>3. Unseen(nGold, x) < k
    BY <2>2, <2>a, <2>b
  <2> QED BY <2>1, <2>3 DEF Level
<1>7. ASSUME NEW k \in Nat, NEW s \in Level(nCalls, nGold, k) PROVE s \in Level(nCalls, nGold, k + 1)
  <2>1. s \in Searches(nCalls, nGold) /\ Unseen(nGold, s) < k
    BY DEF Level
  <2>a. Unseen(nGold, s) \in Nat
    BY <1>2, <2>1
  <2>2. Unseen(nGold, s) < k + 1
    BY <2>1, <2>a
  <2> QED BY <2>1, <2>2 DEF Level
<1>8. \A k : Level(nCalls, nGold, k) \subseteq Searches(nCalls, nGold)
  BY DEF Level
<1> QED BY <1>4, <1>5, <1>6, <1>7, <1>8

Solves(ok, nCalls, nGold, try, k) ==
    \A s \in Level(nCalls, nGold, k) :
        try[s] = Search(ok, nGold, try, s) /\ Grows(nCalls, nGold, s, try[s])

Solved(ok, nCalls, nGold, try) ==
    \A s \in Searches(nCalls, nGold) : try[s] = Search(ok, nGold, try, s)

LEMMA SearchExists ==
    ASSUME NEW nCalls \in Nat, NEW nGold \in Nat, NEW ok
    PROVE  \E try : /\ try \in [Searches(nCalls, nGold) -> Results(nCalls, nGold)]
                    /\ Solved(ok, nCalls, nGold, try)
<1> DEFINE S == Searches(nCalls, nGold)  R == Results(nCalls, nGold)
           Lev(k) == Level(nCalls, nGold, k)
           T == {k \in Nat : \E try \in [S -> R] : Solves(ok, nCalls, nGold, try, k)}
<1>1. 0 \in T
  <2> DEFINE f == [s \in S |-> [found |-> FALSE, given |-> s.given, seen |-> s.seen]]
  <2>1. \A s \in S : [found |-> FALSE, given |-> s.given, seen |-> s.seen] \in R
    BY DEF Searches, Results
  <2> HIDE DEF R, S
  <2>2. f \in [S -> R]
    BY <2>1
  <2>3. Solves(ok, nCalls, nGold, f, 0)
    BY LevelsEnd DEF Solves
  <2> QED BY <2>2, <2>3
<1>2. ASSUME NEW k \in 0..nGold, k \in T PROVE k + 1 \in T
  <2>1. PICK f \in [S -> R] : Solves(ok, nCalls, nGold, f, k)
    BY <1>2
  <2>2. \A s \in Lev(k) : f[s] = Search(ok, nGold, f, s) /\ Grows(nCalls, nGold, s, f[s])
    BY <2>1 DEF Solves
  <2>3. /\ \A s \in Lev(k + 1) : Deeper(nCalls, nGold, s) \subseteq Lev(k)
        /\ Lev(k) \subseteq Lev(k + 1) /\ Lev(k + 1) \subseteq S
    BY LevelsEnd
  <2> HIDE DEF Lev, S, R
  <2>4. ASSUME NEW s \in Lev(k + 1)
        PROVE  Grows(nCalls, nGold, s, Search(ok, nGold, f, s))
    <3>1. \A x \in Deeper(nCalls, nGold, s) : Grows(nCalls, nGold, x, f[x])
      BY <2>2, <2>3
    <3>2. s \in Searches(nCalls, nGold)
      BY <2>3 DEF S
    <3> QED BY <3>1, <3>2, SearchGrows
  <2> DEFINE g == [s \in S |-> IF s \in Lev(k + 1) THEN Search(ok, nGold, f, s) ELSE f[s]]
  <2>5. g \in [S -> R]
    <3>1. \A s \in Lev(k + 1) : Search(ok, nGold, f, s) \in R
      BY <2>4 DEF Grows, R
    <3> QED BY <3>1
  <2>6. \A s \in Lev(k) : g[s] = f[s]
    <3>1. \A s \in Lev(k) : s \in S /\ s \in Lev(k + 1) /\ f[s] = Search(ok, nGold, f, s)
      BY <2>2, <2>3
    <3> QED BY <3>1
  <2>7. \A s \in Lev(k + 1) : g[s] = Search(ok, nGold, f, s)
    BY <2>3
  <2> HIDE DEF g
  <2>8. ASSUME NEW s \in Lev(k + 1) PROVE Search(ok, nGold, g, s) = Search(ok, nGold, f, s)
    <3>1. \A x \in Deeper(nCalls, nGold, s) : Grows(nCalls, nGold, x, f[x]) /\ g[x] = f[x]
      BY <2>2, <2>3, <2>6
    <3>2. s \in Searches(nCalls, nGold)
      BY <2>3 DEF S
    <3> QED BY <3>1, <3>2, SearchSame
  <2>9. Solves(ok, nCalls, nGold, g, k + 1)
    BY <2>4, <2>7, <2>8 DEF Solves, Lev
  <2>10. k + 1 \in Nat
    OBVIOUS
  <2> QED BY <2>5, <2>9, <2>10
<1>3. nGold + 1 \in T
  <2> DEFINE n == nGold + 1
  <2>1. \A k \in 0..nGold : k \in T => k + 1 \in T
    BY <1>2
  <2>2. n \in Nat /\ 0..(n - 1) = 0..nGold /\ n \in 0..n
    OBVIOUS
  <2> HIDE DEF T, n
  <2>3. \A k \in 0..n : k \in T
    BY <1>1, <2>1, <2>2, Induction
  <2> QED BY <2>2, <2>3 DEF n
<1>4. PICK f \in [S -> R] : Solves(ok, nCalls, nGold, f, nGold + 1)
  BY <1>3
<1>5. Level(nCalls, nGold, nGold + 1) = S
  BY LevelsEnd
<1>6. Solved(ok, nCalls, nGold, f)
  BY <1>4, <1>5 DEF Solves, Solved
<1> QED BY <1>4, <1>6

(* The recursion of try_m is well-founded: it has a value for every search. *)
LEMMA TryCallIs ==
    ASSUME NEW nCalls \in Nat, NEW nGold \in Nat, NEW ok
    PROVE  LET try == TryCall(ok, nCalls, nGold) IN
           \A s \in Searches(nCalls, nGold) :
              try[s] = Search(ok, nGold, try, s) /\ Grows(nCalls, nGold, s, try[s])
<1> DEFINE S == Searches(nCalls, nGold)
           Eq(g) == g = [s \in S |->
                LET js == {j \in (1..nGold) \ s.seen : ok[s.call][j]}
                    j  == Min(js)
                    looked == s.seen \cup {j}
                    r == IF s.given[j] = Free
                         THEN [found |-> TRUE, given |-> s.given, seen |-> looked]
                         ELSE g[[call |-> s.given[j], given |-> s.given, seen |-> looked]]
                IN  IF js = {} THEN [found |-> FALSE, given |-> s.given, seen |-> s.seen]
                    ELSE IF r.found THEN [r EXCEPT !.given[j] = s.call]
                    ELSE g[[call |-> s.call, given |-> r.given, seen |-> r.seen]]]
           Also(g) == g = [s \in S |-> Search(ok, nGold, g, s)]
<1>1. TryCall(ok, nCalls, nGold) = CHOOSE g : Eq(g)
  BY DEF TryCall
<1>2. \A g : Eq(g) <=> Also(g)
  BY DEF Search, SearchFrom, AskHolder, Holder, Again, Untried
<1>a. PICK f : f \in [S -> Results(nCalls, nGold)] /\ Solved(ok, nCalls, nGold, f)
  BY SearchExists
<1>3. f \in [S -> Results(nCalls, nGold)] /\ \A s \in S : f[s] = Search(ok, nGold, f, s)
  BY <1>a DEF Solved
<1> HIDE DEF S, Eq
<1>4. Also(f)
  BY <1>3
<1>5. Eq(f)
  BY <1>2, <1>4
<1> DEFINE try == CHOOSE g : Eq(g)
<1>6. Eq(try)
  BY <1>5
<1> HIDE DEF try
<1>7. Also(try)
  BY <1>2, <1>6
<1>8. \A s \in S : try[s] = Search(ok, nGold, try, s)
  BY <1>7
<1>9. \A s \in S : Grows(nCalls, nGold, s, try[s])
  <2> DEFINE T == {k \in Nat : \A s \in Level(nCalls, nGold, k) : Grows(nCalls, nGold, s, try[s])}
  <2>1. 0 \in T
    BY LevelsEnd
  <2>2. ASSUME NEW k \in 0..nGold, k \in T PROVE k + 1 \in T
    <3>1. ASSUME NEW s \in Level(nCalls, nGold, k + 1) PROVE Grows(nCalls, nGold, s, try[s])
      <4>1. Deeper(nCalls, nGold, s) \subseteq Level(nCalls, nGold, k) /\ s \in Searches(nCalls, nGold)
        BY LevelsEnd
      <4>2. \A x \in Deeper(nCalls, nGold, s) : Grows(nCalls, nGold, x, try[x])
        BY <2>2, <4>1
      <4>3. Grows(nCalls, nGold, s, Search(ok, nGold, try, s))
        BY <4>1, <4>2, SearchGrows
      <4> QED BY <1>8, <4>1, <4>3 DEF S
    <3>2. k + 1 \in Nat
      OBVIOUS
    <3> QED BY <3>1, <3>2
  <2> DEFINE n == nGold + 1
  <2>3. \A k \in 0..nGold : k \in T => k + 1 \in T
    BY <2>2
  <2>4. n \in Nat /\ 0..(n - 1) = 0..nGold /\ n \in 0..n
    OBVIOUS
  <2>5. n \in T
    <3> HIDE DEF T, n
    <3>1. \A k \in 0..n : k \in T
      BY <2>1, <2>3, <2>4, Induction
    <3> QED BY <2>4, <3>1
  <2> QED BY <2>5, LevelsEnd DEF S
<1> QED BY <1>1, <1>8, <1>9 DEF S, try

-----------------------------------------------------------------------------
(* An assignment of calls to expected calls that is one to one. *)
OneToOne(ok, nGold, given) ==
    /\ \A j \in 1..nGold : given[j] # Free => ok[given[j]][j]
    /\ \A j, k \in 1..nGold : j # k /\ given[j] # Free => given[j] # given[k]

(* A search starts for a call that holds nothing but what was looked at.    *)
Ready(ok, nGold, s) ==
    /\ OneToOne(ok, nGold, s.given)
    /\ \A j \in 1..nGold : s.given[j] = s.call => j \in s.seen

(* It finds a place for its call, and one more expected call is taken...    *)
Augments(ok, nGold, s, given) ==
    /\ \A j \in 1..nGold : given[j] # Free => ok[given[j]][j]
    /\ \A j \in s.seen : given[j] = s.given[j]
    /\ \A j \in 1..nGold : j \notin s.seen /\ given[j] # Free =>
          given[j] = s.call \/ \E k \in 1..nGold : k \notin s.seen /\ given[j] = s.given[k]
    /\ \A j, k \in 1..nGold :
          j \notin s.seen /\ k \notin s.seen /\ j # k /\ given[j] # Free => given[j] # given[k]
    /\ \E e \in 1..nGold :
          /\ e \notin s.seen /\ s.given[e] = Free
          /\ \A j \in 1..nGold : given[j] # Free <=> s.given[j] # Free \/ j = e

(* ... or has looked at all that its call, and those that hold what it has  *)
(* looked at, could have.                                                  *)
Fails(ok, nGold, s, r) ==
    /\ r.given = s.given
    /\ \A k \in 1..nGold : ok[s.call][k] => k \in r.seen
    /\ \A j \in 1..nGold : j \in r.seen /\ j \notin s.seen =>
          s.given[j] # Free /\ \A k \in 1..nGold : ok[s.given[j]][k] => k \in r.seen

Decides(ok, nGold, s, r) ==
    Ready(ok, nGold, s) =>
        IF r.found THEN Augments(ok, nGold, s, r.given) ELSE Fails(ok, nGold, s, r)

(* The three ways a step ends. *)
LEMMA TakesFree ==
    ASSUME NEW nCalls \in Nat, NEW nGold \in Nat, NEW ok, NEW s \in Searches(nCalls, nGold),
           Ready(ok, nGold, s), NEW j \in 1..nGold, j \notin s.seen, ok[s.call][j], s.given[j] = Free
    PROVE  Augments(ok, nGold, s, [s.given EXCEPT ![j] = s.call])
<1> DEFINE h == [s.given EXCEPT ![j] = s.call]  G == s.given  c == s.call
<1>1. c \in 1..nCalls /\ c # Free /\ G \in [1..nGold -> 0..nCalls] /\ s.seen \subseteq 1..nGold
  BY SearchesIs DEF Free
<1>2. h[j] = c /\ \A k \in 1..nGold : k # j => h[k] = G[k]
  BY <1>1
<1>3. /\ \A k \in 1..nGold : G[k] # Free => ok[G[k]][k]
      /\ \A i, k \in 1..nGold : i # k /\ G[i] # Free => G[i] # G[k]
      /\ \A k \in 1..nGold : G[k] = c => k \in s.seen
  BY DEF Ready, OneToOne
<1> HIDE DEF h, G, c
<1>4. \A k \in 1..nGold : h[k] # Free => ok[h[k]][k]
  BY <1>2, <1>3 DEF c
<1>5. \A k \in s.seen : h[k] = G[k]
  BY <1>1, <1>2
<1>6. \A k \in 1..nGold : k \notin s.seen /\ h[k] # Free =>
          h[k] = c \/ \E i \in 1..nGold : i \notin s.seen /\ h[k] = G[i]
  BY <1>2
<1>7. \A i, k \in 1..nGold :
          i \notin s.seen /\ k \notin s.seen /\ i # k /\ h[i] # Free => h[i] # h[k]
  BY <1>2, <1>3
<1>8. \A k \in 1..nGold : h[k] # Free <=> G[k] # Free \/ k = j
  BY <1>1, <1>2
<1>9. G[j] = Free
  BY DEF G
<1> QED BY <1>4, <1>5, <1>6, <1>7, <1>8, <1>9 DEF Augments, h, G, c

LEMMA MovesHolder ==
    ASSUME NEW nCalls \in Nat, NEW nGold \in Nat, NEW ok, NEW s \in Searches(nCalls, nGold),
           Ready(ok, nGold, s), NEW j \in 1..nGold, j \notin s.seen, ok[s.call][j], s.given[j] # Free,
           NEW moved \in [1..nGold -> 0..nCalls], Augments(ok, nGold, Holder(s, j), moved)
    PROVE  Augments(ok, nGold, s, [moved EXCEPT ![j] = s.call])
<1> DEFINE h == [moved EXCEPT ![j] = s.call]  G == s.given  c == s.call
<1>1. c \in 1..nCalls /\ c # Free /\ G \in [1..nGold -> 0..nCalls] /\ s.seen \subseteq 1..nGold
  BY SearchesIs DEF Free
<1>2. h[j] = c /\ \A k \in 1..nGold : k # j => h[k] = moved[k]
  BY <1>1
<1>3. /\ \A i, k \in 1..nGold : i # k /\ G[i] # Free => G[i] # G[k]
      /\ \A k \in 1..nGold : G[k] = c => k \in s.seen
  BY DEF Ready, OneToOne
<1>4. /\ Holder(s, j).call = G[j] /\ Holder(s, j).given = G /\ Holder(s, j).seen = s.seen \cup {j}
  BY DEF Holder
<1>5. /\ \A k \in 1..nGold : moved[k] # Free => ok[moved[k]][k]
      /\ \A k \in s.seen \cup {j} : moved[k] = G[k]
      /\ \A k \in 1..nGold : k \notin s.seen \cup {j} /\ moved[k] # Free =>
            moved[k] = G[j] \/ \E i \in 1..nGold : i \notin s.seen \cup {j} /\ moved[k] = G[i]
      /\ \A i, k \in 1..nGold : i \notin s.seen \cup {j} /\ k \notin s.seen \cup {j} /\ i # k
                                /\ moved[i] # Free => moved[i] # moved[k]
      /\ \E e \in 1..nGold :
            /\ e \notin s.seen \cup {j} /\ G[e] = Free
            /\ \A k \in 1..nGold : moved[k] # Free <=> G[k] # Free \/ k = e
  <2> HIDE DEF G
  <2> QED BY <1>4 DEF Augments
<1>a. ok[c][j] /\ G[j] # Free
  OBVIOUS
<1> HIDE DEF h, G, c
<1>6. \A k \in 1..nGold : h[k] # Free => ok[h[k]][k]
  BY <1>2, <1>5, <1>a
<1>7. \A k \in s.seen : h[k] = G[k]
  BY <1>1, <1>2, <1>5
<1>8. \A k \in 1..nGold : k \notin s.seen /\ h[k] # Free =>
          h[k] = c \/ \E i \in 1..nGold : i \notin s.seen /\ h[k] = G[i]
  BY <1>2, <1>5
<1>9. \A k \in 1..nGold : k \notin s.seen /\ k # j => moved[k] # c
  BY <1>1, <1>3, <1>5
<1>10. \A i, k \in 1..nGold :
          i \notin s.seen /\ k \notin s.seen /\ i # k /\ h[i] # Free => h[i] # h[k]
  BY <1>2, <1>5, <1>9
<1>11. \E e \in 1..nGold : /\ e \notin s.seen /\ G[e] = Free
                           /\ \A k \in 1..nGold : h[k] # Free <=> G[k] # Free \/ k = e
  <2>1. PICK e \in 1..nGold : /\ e \notin s.seen \cup {j} /\ G[e] = Free
                              /\ \A k \in 1..nGold : moved[k] # Free <=> G[k] # Free \/ k = e
    BY <1>5
  <2>2. \A k \in 1..nGold : h[k] # Free <=> G[k] # Free \/ k = e
    BY <1>1, <1>2, <1>a, <2>1
  <2> QED BY <2>1, <2>2
<1> QED BY <1>6, <1>7, <1>8, <1>10, <1>11 DEF Augments, h, G, c

LEMMA TriesAgain ==
    ASSUME NEW nCalls \in Nat, NEW nGold \in Nat, NEW ok, NEW s \in Searches(nCalls, nGold),
           Ready(ok, nGold, s), NEW j \in 1..nGold, j \notin s.seen, s.given[j] # Free,
           NEW r \in Results(nCalls, nGold), s.seen \cup {j} \subseteq r.seen,
           Fails(ok, nGold, Holder(s, j), r),
           NEW q, Grows(nCalls, nGold, Again(s, r), q), Decides(ok, nGold, Again(s, r), q)
    PROVE  IF q.found THEN Augments(ok, nGold, s, q.given) ELSE Fails(ok, nGold, s, q)
<1> DEFINE G == s.given  c == s.call  h == q.given
<1>1. /\ \A k \in 1..nGold : G[k] # Free => ok[G[k]][k]
      /\ \A i, k \in 1..nGold : i # k /\ G[i] # Free => G[i] # G[k]
      /\ \A k \in 1..nGold : G[k] = c => k \in s.seen
      /\ OneToOne(ok, nGold, G)
  BY DEF Ready, OneToOne
<1>2. /\ Holder(s, j).call = G[j] /\ Holder(s, j).given = G /\ Holder(s, j).seen = s.seen \cup {j}
  BY DEF Holder
<1>3. /\ r.given = G
      /\ \A k \in 1..nGold : ok[G[j]][k] => k \in r.seen
      /\ \A i \in 1..nGold : i \in r.seen /\ i \notin s.seen \cup {j} =>
            G[i] # Free /\ \A k \in 1..nGold : ok[G[i]][k] => k \in r.seen
  <2> HIDE DEF G
  <2> QED BY <1>2 DEF Fails
<1>4. Again(s, r).call = c /\ Again(s, r).given = G /\ Again(s, r).seen = r.seen
  BY <1>3 DEF Again
<1>5. r.seen \subseteq q.seen /\ s.seen \subseteq r.seen /\ q.seen \subseteq 1..nGold /\ G[j] # Free
      /\ r.seen \subseteq 1..nGold
  BY <1>4 DEF Grows, Results
<1> HIDE DEF G, c, h
<1>6. Ready(ok, nGold, Again(s, r))
  BY <1>1, <1>4, <1>5 DEF Ready
<1>7. ASSUME q.found PROVE Augments(ok, nGold, s, h)
  <2>1. /\ \A k \in 1..nGold : h[k] # Free => ok[h[k]][k]
        /\ \A k \in r.seen : h[k] = G[k]
        /\ \A k \in 1..nGold : k \notin r.seen /\ h[k] # Free =>
              h[k] = c \/ \E i \in 1..nGold : i \notin r.seen /\ h[k] = G[i]
        /\ \A i, k \in 1..nGold :
              i \notin r.seen /\ k \notin r.seen /\ i # k /\ h[i] # Free => h[i] # h[k]
        /\ \E e \in 1..nGold : /\ e \notin r.seen /\ G[e] = Free
                               /\ \A k \in 1..nGold : h[k] # Free <=> G[k] # Free \/ k = e
    BY <1>4, <1>6, <1>7 DEF Decides, Augments, h
  <2>2. \A k \in s.seen : h[k] = G[k]
    BY <1>5, <2>1
  <2>3. \A k \in 1..nGold : k \notin s.seen /\ h[k] # Free =>
            h[k] = c \/ \E i \in 1..nGold : i \notin s.seen /\ h[k] = G[i]
    BY <1>5, <2>1
  <2>4. ASSUME NEW i \in 1..nGold, NEW k \in 1..nGold, i \in r.seen, k \notin r.seen, i \notin s.seen
        PROVE  h[i] # Free \/ h[k] # Free => h[i] # h[k]
    <3>1. h[i] = G[i] /\ G[i] # c
      BY <1>1, <2>1, <2>4
    <3>2. CASE h[k] = Free
      BY <3>2
    <3>3. CASE h[k] = c
      BY <3>1, <3>3
    <3>4. CASE h[k] # Free /\ \E l \in 1..nGold : l \notin r.seen /\ h[k] = G[l]
      BY <1>1, <2>4, <3>1, <3>4
    <3> QED BY <2>1, <2>4, <3>2, <3>3, <3>4
  <2>5. \A i, k \in 1..nGold :
            i \notin s.seen /\ k \notin s.seen /\ i # k /\ h[i] # Free => h[i] # h[k]
    <3> TAKE i, k \in 1..nGold
    <3> HAVE i \notin s.seen /\ k \notin s.seen /\ i # k /\ h[i] # Free
    <3>1. CASE i \in r.seen /\ k \in r.seen
      BY <1>1, <2>1, <3>1
    <3>2. CASE i \in r.seen /\ k \notin r.seen
      BY <2>4, <3>2
    <3>3. CASE i \notin r.seen /\ k \in r.seen
      BY <2>4, <3>3
    <3>4. CASE i \notin r.seen /\ k \notin r.seen
      BY <2>1, <3>4
    <3> QED BY <3>1, <3>2, <3>3, <3>4
  <2>6. \E e \in 1..nGold : /\ e \notin s.seen /\ G[e] = Free
                            /\ \A k \in 1..nGold : h[k] # Free <=> G[k] # Free \/ k = e
    BY <1>5, <2>1
  <2> QED BY <2>1, <2>2, <2>3, <2>5, <2>6 DEF Augments, G, c
<1>8. ASSUME ~q.found PROVE Fails(ok, nGold, s, q)
  <2>1. /\ q.given = G
        /\ \A k \in 1..nGold : ok[c][k] => k \in q.seen
        /\ \A i \in 1..nGold : i \in q.seen /\ i \notin r.seen =>
              G[i] # Free /\ \A k \in 1..nGold : ok[G[i]][k] => k \in q.seen
    BY <1>4, <1>6, <1>8 DEF Decides, Fails
  <2>2. ASSUME NEW i \in 1..nGold, i \in q.seen, i \notin s.seen
        PROVE  G[i] # Free /\ \A k \in 1..nGold : ok[G[i]][k] => k \in q.seen
    <3>1. CASE i \notin r.seen
      BY <2>1, <2>2, <3>1
    <3>2. CASE i \in r.seen /\ i = j
      BY <1>3, <1>5, <3>2
    <3>3. CASE i \in r.seen /\ i # j
      BY <1>3, <1>5, <2>2, <3>3
    <3> QED BY <3>1, <3>2, <3>3
  <2> QED BY <2>1, <2>2 DEF Fails, G, c
<1> QED BY <1>7, <1>8 DEF h

LEMMA SearchDecides ==
    ASSUME NEW nCalls \in Nat, NEW nGold \in Nat, NEW ok, NEW try, NEW s \in Searches(nCalls, nGold),
           \A x \in Deeper(nCalls, nGold, s) :
               Grows(nCalls, nGold, x, try[x]) /\ Decides(ok, nGold, x, try[x])
    PROVE  Decides(ok, nGold, s, Search(ok, nGold, try, s))
<1> SUFFICES ASSUME Ready(ok, nGold, s)
             PROVE  LET r == Search(ok, nGold, try, s) IN
                    IF r.found THEN Augments(ok, nGold, s, r.given) ELSE Fails(ok, nGold, s, r)
  BY DEF Decides
<1>1. s.call \in 1..nCalls /\ s.given \in [1..nGold -> 0..nCalls] /\ s.seen \subseteq 1..nGold
  BY SearchesIs
<1>2. CASE Untried(ok, nGold, s) = {}
  <2> DEFINE r == [found |-> FALSE, given |-> s.given, seen |-> s.seen]
  <2>1. Search(ok, nGold, try, s) = r
    BY <1>2 DEF Search
  <2>2. \A k \in 1..nGold : ok[s.call][k] => k \in s.seen
    BY <1>2 DEF Untried
  <2>3. Fails(ok, nGold, s, r)
    BY <2>2 DEF Fails
  <2>4. ~r.found
    OBVIOUS
  <2> HIDE DEF r
  <2> QED BY <2>1, <2>3, <2>4
<1>3. CASE Untried(ok, nGold, s) # {}
  <2> DEFINE j == Min(Untried(ok, nGold, s))  r == AskHolder(try, s, j)
  <2>1. j \in 1..nGold /\ j \notin s.seen /\ ok[s.call][j]
    BY <1>3, UntriedIs
  <2>2. Search(ok, nGold, try, s) = SearchFrom(try, s, j)
    BY <1>3 DEF Search
  <2> HIDE DEF j
  <2>3. r \in Results(nCalls, nGold) /\ s.seen \cup {j} \subseteq r.seen
    BY <2>1, AskGrows
  <2>a. ASSUME r.found
        PROVE  /\ SearchFrom(try, s, j).found
               /\ SearchFrom(try, s, j).given = [r.given EXCEPT ![j] = s.call]
    <3>1. SearchFrom(try, s, j) = [r EXCEPT !.given[j] = s.call]
      BY <2>a DEF SearchFrom
    <3> HIDE DEF r
    <3>2. r = [found |-> r.found, given |-> r.given, seen |-> r.seen]
      BY <2>3 DEF Results
    <3>3. [r EXCEPT !.given[j] = s.call] =
             [found |-> r.found, given |-> [r.given EXCEPT ![j] = s.call], seen |-> r.seen]
      BY <3>2
    <3> QED BY <2>a, <3>1, <3>3
  <2>4. CASE s.given[j] = Free
    <3>1. r.found /\ r.given = s.given
      BY <2>4 DEF AskHolder
    <3>2. Augments(ok, nGold, s, [s.given EXCEPT ![j] = s.call])
      BY <2>1, <2>4, TakesFree
    <3> HIDE DEF r
    <3> QED BY <2>2, <2>a, <3>1, <3>2
  <2>5. CASE s.given[j] # Free
    <3>1. r = try[Holder(s, j)] /\ Holder(s, j) \in Deeper(nCalls, nGold, s)
      BY <2>1, <2>5, SearchesIs DEF AskHolder
    <3>2. Decides(ok, nGold, Holder(s, j), r)
      BY <3>1
    <3>3. Ready(ok, nGold, Holder(s, j))
      <4>1. /\ Holder(s, j).call = s.given[j] /\ Holder(s, j).given = s.given
            /\ Holder(s, j).seen = s.seen \cup {j}
        BY DEF Holder
      <4>2. OneToOne(ok, nGold, s.given)
        BY DEF Ready
      <4>3. \A k \in 1..nGold : s.given[k] = s.given[j] => k = j
        BY <2>1, <2>5, <4>2 DEF OneToOne
      <4> QED BY <4>1, <4>2, <4>3 DEF Ready
    <3>4. CASE r.found
      <4>1. Augments(ok, nGold, Holder(s, j), r.given)
        BY <3>2, <3>3, <3>4 DEF Decides
      <4>2. r.given \in [1..nGold -> 0..nCalls]
        BY <2>3 DEF Results
      <4> DEFINE moved == r.given
      <4>3. moved \in [1..nGold -> 0..nCalls] /\ Augments(ok, nGold, Holder(s, j), moved)
        BY <4>1, <4>2
      <4> HIDE DEF moved, r
      <4>4. Augments(ok, nGold, s, [moved EXCEPT ![j] = s.call])
        BY <2>1, <2>5, <4>3, MovesHolder
      <4> QED BY <2>2, <2>a, <3>4, <4>4 DEF moved
    <3>5. CASE ~r.found
      <4>1. Fails(ok, nGold, Holder(s, j), r)
        BY <3>2, <3>3, <3>5 DEF Decides
      <4>2. SearchFrom(try, s, j) = try[Again(s, r)]
        BY <3>5 DEF SearchFrom
      <4> HIDE DEF r
      <4>3. Again(s, r) \in Deeper(nCalls, nGold, s)
        BY <2>1, <2>3, SearchesIs
      <4> DEFINE q == try[Again(s, r)]
      <4>4. Grows(nCalls, nGold, Again(s, r), q) /\ Decides(ok, nGold, Again(s, r), q)
        BY <4>3
      <4> HIDE DEF q
      <4>5. IF q.found THEN Augments(ok, nGold, s, q.given) ELSE Fails(ok, nGold, s, q)
        BY <2>1, <2>3, <2>5, <4>1, <4>4, TriesAgain
      <4> QED BY <2>2, <4>2, <4>5 DEF q
    <3> QED BY <3>4, <3>5
  <2> QED BY <2>4, <2>5
<1> QED BY <1>2, <1>3

(* try_m finds an augmenting path if there is one (tools.py:677-684).       *)
LEMMA TryCallDecides ==
    ASSUME NEW nCalls \in Nat, NEW nGold \in Nat, NEW ok, NEW s \in Searches(nCalls, nGold)
    PROVE  Decides(ok, nGold, s, TryCall(ok, nCalls, nGold)[s])
<1> DEFINE try == TryCall(ok, nCalls, nGold)
           T == {k \in Nat : \A x \in Level(nCalls, nGold, k) : Decides(ok, nGold, x, try[x])}
<1>1. \A x \in Searches(nCalls, nGold) :
         try[x] = Search(ok, nGold, try, x) /\ Grows(nCalls, nGold, x, try[x])
  BY TryCallIs
<1> HIDE DEF try
<1>2. 0 \in T
  BY LevelsEnd
<1>3. ASSUME NEW k \in 0..nGold, k \in T PROVE k + 1 \in T
  <2>1. ASSUME NEW x \in Level(nCalls, nGold, k + 1) PROVE Decides(ok, nGold, x, try[x])
    <3>1. /\ Deeper(nCalls, nGold, x) \subseteq Level(nCalls, nGold, k)
          /\ x \in Searches(nCalls, nGold)
          /\ Level(nCalls, nGold, k) \subseteq Searches(nCalls, nGold)
      BY LevelsEnd
    <3>2. \A y \in Deeper(nCalls, nGold, x) :
             Grows(nCalls, nGold, y, try[y]) /\ Decides(ok, nGold, y, try[y])
      BY <1>1, <1>3, <3>1
    <3>3. Decides(ok, nGold, x, Search(ok, nGold, try, x))
      BY <3>1, <3>2, SearchDecides
    <3> QED BY <1>1, <3>1, <3>3
  <2>2. k + 1 \in Nat
    OBVIOUS
  <2> QED BY <2>1, <2>2
<1> DEFINE n == nGold + 1
<1>4. \A k \in 0..nGold : k \in T => k + 1 \in T
  BY <1>3
<1>5. n \in Nat /\ 0..(n - 1) = 0..nGold /\ n \in 0..n
  OBVIOUS
<1>6. n \in T
  <2> HIDE DEF T, n
  <2>1. \A k \in 0..n : k \in T
    BY <1>2, <1>4, <1>5, Induction
  <2> QED BY <1>5, <2>1
<1> QED BY <1>6, LevelsEnd DEF try

-----------------------------------------------------------------------------
(* The calls one after another, each searching its place. *)
SearchFor(i, m) == [call |-> i, given |-> m.given, seen |-> {}]
AfterCall(ok, nCalls, nGold, i, m) ==
    LET r == TryCall(ok, nCalls, nGold)[SearchFor(i, m)]
    IN  [n |-> IF r.found THEN m.n + 1 ELSE m.n, given |-> r.given]

Matches(nCalls, nGold) == [n : Nat, given : [1..nGold -> 0..nCalls]]
NoMatch(nGold) == [n |-> 0, given |-> [j \in 1..nGold |-> Free]]

MatchedAfter(ok, nCalls, nGold, after) ==
    /\ after \in [0..nCalls -> Matches(nCalls, nGold)]
    /\ after[0] = NoMatch(nGold)
    /\ \A i \in 1..nCalls : after[i] = AfterCall(ok, nCalls, nGold, i, after[i - 1])
    /\ MaxMatching(ok, nCalls, nGold) = after[nCalls].n

LEMMA AfterCallIs ==
    ASSUME NEW nCalls \in Nat, NEW nGold \in Nat, NEW ok, NEW i \in 1..nCalls,
           NEW m \in Matches(nCalls, nGold)
    PROVE  /\ SearchFor(i, m) \in Searches(nCalls, nGold)
           /\ AfterCall(ok, nCalls, nGold, i, m) \in Matches(nCalls, nGold)
<1> DEFINE s == SearchFor(i, m)  r == TryCall(ok, nCalls, nGold)[s]
<1>1. s \in Searches(nCalls, nGold)
  BY DEF SearchFor, Searches, Matches
<1> HIDE DEF s
<1>2. r \in Results(nCalls, nGold)
  BY <1>1, TryCallIs DEF Grows
<1>3. AfterCall(ok, nCalls, nGold, i, m) =
         [n |-> IF r.found THEN m.n + 1 ELSE m.n, given |-> r.given]
  BY DEF AfterCall, s
<1> HIDE DEF r
<1>4. m.n \in Nat /\ r.given \in [1..nGold -> 0..nCalls]
  BY <1>2 DEF Matches, Results
<1> QED BY <1>1, <1>3, <1>4 DEF Matches, s

LEMMA MaxMatchingIs ==
    ASSUME NEW nCalls \in Nat, NEW nGold \in Nat, NEW ok
    PROVE  \E after : MatchedAfter(ok, nCalls, nGold, after)
<1> DEFINE V == Matches(nCalls, nGold)
           step == [x \in (1..nCalls) \X V |-> AfterCall(ok, nCalls, nGold, x[1], x[2])]
           Eq(g) == g = [i \in 0..nCalls |->
              IF i = 0 THEN [n |-> 0, given |-> [j \in 1..nGold |-> Free]]
              ELSE LET m == g[i - 1]
                       r == TryCall(ok, nCalls, nGold)[[call |-> i, given |-> m.given, seen |-> {}]]
                   IN  [n |-> IF r.found THEN m.n + 1 ELSE m.n, given |-> r.given]]
           Also(g) == g = [i \in 0..nCalls |-> IF i = 0 THEN NoMatch(nGold)
                                               ELSE AfterCall(ok, nCalls, nGold, i, g[i - 1])]
<1>1. MaxMatching(ok, nCalls, nGold) = (CHOOSE g : Eq(g))[nCalls].n
  BY DEF MaxMatching
<1>2. \A g : Eq(g) <=> Also(g)
  BY DEF AfterCall, SearchFor, NoMatch
<1>3. step \in [(1..nCalls) \X V -> V] /\ NoMatch(nGold) \in V
  <2>1. \A i \in 1..nCalls, m \in V : AfterCall(ok, nCalls, nGold, i, m) \in V
    BY AfterCallIs
  <2>2. NoMatch(nGold) \in V
    BY DEF NoMatch, Matches, Free
  <2> HIDE DEF V
  <2> QED BY <2>1, <2>2
<1> HIDE DEF V
<1>4. \A i \in 1..nCalls, m \in V : step[<<i, m>>] = AfterCall(ok, nCalls, nGold, i, m)
  OBVIOUS
<1> HIDE DEF step, Eq
<1>5. PICK f \in [0..nCalls -> V] : Computes(f, NoMatch(nGold), step, nCalls)
  BY <1>3, LoopExists
<1>6. ASSUME NEW i \in 0..nCalls
      PROVE  f[i] = IF i = 0 THEN NoMatch(nGold) ELSE AfterCall(ok, nCalls, nGold, i, f[i - 1])
  <2>1. CASE i = 0
    BY <1>5, <2>1 DEF Computes
  <2>2. CASE i # 0
    <3>1. i \in 1..nCalls /\ i - 1 \in 0..nCalls
      BY <2>2
    <3>2. f[i] = step[<<i, f[i - 1]>>] /\ f[i - 1] \in V
      BY <1>5, <3>1 DEF Computes
    <3> QED BY <1>4, <2>2, <3>1, <3>2
  <2> QED BY <2>1, <2>2
<1>7. Eq(f)
  <2>1. Also(f)
    BY <1>6
  <2> QED BY <1>2, <2>1
<1> DEFINE after == CHOOSE g : Eq(g)
<1>8. Eq(after)
  BY <1>7
<1>9. MaxMatching(ok, nCalls, nGold) = after[nCalls].n
  BY <1>1
<1> HIDE DEF after
<1>10. Also(after)
  BY <1>2, <1>8
<1>11. after[0] = NoMatch(nGold)
       /\ \A i \in 1..nCalls : after[i] = AfterCall(ok, nCalls, nGold, i, after[i - 1])
  <2>1. \A i \in 0..nCalls : after[i] = IF i = 0 THEN NoMatch(nGold)
                                        ELSE AfterCall(ok, nCalls, nGold, i, after[i - 1])
    BY <1>10
  <2>2. 0 \in 0..nCalls /\ \A i \in 1..nCalls : i \in 0..nCalls /\ i # 0
    OBVIOUS
  <2> QED BY <2>1, <2>2
<1>12. \A i \in 0..nCalls : after[i] \in V
  <2> DEFINE T == {i \in Nat : i \in 0..nCalls => after[i] \in V}
  <2>1. 0 \in T
    BY <1>3, <1>11
  <2>2. ASSUME NEW i \in 0..(nCalls - 1), i \in T PROVE i + 1 \in T
    <3>1. i \in 0..nCalls /\ i + 1 \in 1..nCalls /\ (i + 1) - 1 = i
      OBVIOUS
    <3>2. after[i] \in V
      BY <2>2, <3>1
    <3>3. after[i + 1] = AfterCall(ok, nCalls, nGold, i + 1, after[i])
      BY <1>11, <3>1
    <3>4. after[i + 1] \in V
      BY <3>1, <3>2, <3>3, AfterCallIs DEF V
    <3> QED BY <3>4
  <2>3. \A i \in 0..(nCalls - 1) : i \in T => i + 1 \in T
    BY <2>2
  <2>4. \A i \in 0..nCalls : i \in T
    <3> HIDE DEF T
    <3> QED BY <2>1, <2>3, Induction
  <2> QED BY <2>4
<1>13. after \in [0..nCalls -> V]
  <2>1. after = [i \in 0..nCalls |-> after[i]]
    BY <1>10
  <2> QED BY <1>12, <2>1
<1>14. MatchedAfter(ok, nCalls, nGold, after)
  BY <1>9, <1>11, <1>13 DEF MatchedAfter, V
<1> QED BY <1>14

-----------------------------------------------------------------------------
(* What is matched is counted, and every call that found no place has been   *)
(* shown to have none.                                                     *)
Held(nGold, given) == {j \in 1..nGold : given[j] # Free}

CallsCounted(ok, nGold, i, m) ==
    /\ OneToOne(ok, nGold, m.given)
    /\ \A j \in 1..nGold : m.given[j] <= i
    /\ m.n = Cardinality(Held(nGold, m.given)) /\ m.n <= i

LEMMA HeldIs ==
    ASSUME NEW nGold \in Nat, NEW given
    PROVE  /\ IsFiniteSet(Held(nGold, given)) /\ Cardinality(Held(nGold, given)) \in Nat
           /\ Cardinality(Held(nGold, given)) = nGold => \A j \in 1..nGold : given[j] # Free
<1>1. IsFiniteSet(1..nGold) /\ Cardinality(1..nGold) = nGold
  BY FS_Interval
<1> DEFINE H == Held(nGold, given)
<1>2. H \in SUBSET (1..nGold)
  BY DEF Held
<1> HIDE DEF H
<1>3. IsFiniteSet(H) /\ (Cardinality(1..nGold) = Cardinality(H) => 1..nGold = H)
  BY <1>1, <1>2, FS_Subset
<1>4. Cardinality(H) \in Nat
  BY <1>3, FS_CardinalityType
<1>5. \A j \in H : given[j] # Free
  BY DEF H, Held
<1> QED BY <1>1, <1>3, <1>4, <1>5 DEF H

LEMMA CallCounted ==
    ASSUME NEW nCalls \in Nat, NEW nGold \in Nat, NEW ok, NEW i \in Nat, i + 1 \in 1..nCalls,
           NEW m \in Matches(nCalls, nGold), CallsCounted(ok, nGold, i, m)
    PROVE  LET s == SearchFor(i + 1, m)  r == TryCall(ok, nCalls, nGold)[s] IN
           /\ CallsCounted(ok, nGold, i + 1, AfterCall(ok, nCalls, nGold, i + 1, m))
           /\ AfterCall(ok, nCalls, nGold, i + 1, m).n = IF r.found THEN m.n + 1 ELSE m.n
           /\ ~r.found => Fails(ok, nGold, s, r)
<1> DEFINE c == i + 1  s == SearchFor(c, m)  r == TryCall(ok, nCalls, nGold)[s]
           a == AfterCall(ok, nCalls, nGold, c, m)
<1>1. s \in Searches(nCalls, nGold) /\ a \in Matches(nCalls, nGold)
  BY AfterCallIs
<1>2. s.call = c /\ s.given = m.given /\ s.seen = {}
  BY DEF SearchFor
<1>3. a.n = (IF r.found THEN m.n + 1 ELSE m.n) /\ a.given = r.given
  BY DEF AfterCall
<1>4. Decides(ok, nGold, s, r)
  <2> HIDE DEF s
  <2> QED BY <1>1, TryCallDecides
<1>5. /\ OneToOne(ok, nGold, m.given) /\ m.given \in [1..nGold -> 0..nCalls] /\ m.n \in Nat
      /\ \A j \in 1..nGold : m.given[j] <= i
      /\ m.n = Cardinality(Held(nGold, m.given)) /\ m.n <= i
  BY DEF CallsCounted, Matches
<1> DEFINE G == m.given  h == r.given
<1>g. G \in [1..nGold -> 0..nCalls] /\ (\A j \in 1..nGold : G[j] <= i) /\ OneToOne(ok, nGold, G)
  BY <1>5
<1> HIDE DEF s, r, a
<1>6. Ready(ok, nGold, s)
  <2>1. \A j \in 1..nGold : G[j] # c
    <3> HIDE DEF G
    <3> TAKE j \in 1..nGold
    <3>1. G[j] \in Int /\ G[j] <= i
      BY <1>g
    <3> QED BY <3>1
  <2> QED BY <1>2, <1>g, <2>1 DEF Ready
<1>7. CASE r.found
  <2>1. Augments(ok, nGold, s, h)
    BY <1>4, <1>6, <1>7 DEF Decides
  <2> HIDE DEF G, h, c
  <2>2. s.given = G /\ s.call = c /\ s.seen = {}
    BY <1>2 DEF G, c
  <2>3. /\ \A j \in 1..nGold : h[j] # Free => ok[h[j]][j]
        /\ \A j \in 1..nGold : h[j] # Free => h[j] = c \/ \E k \in 1..nGold : h[j] = G[k]
        /\ \A j, k \in 1..nGold : j # k /\ h[j] # Free => h[j] # h[k]
        /\ \E e \in 1..nGold : /\ G[e] = Free
                               /\ \A j \in 1..nGold : h[j] # Free <=> G[j] # Free \/ j = e
    BY <2>1, <2>2 DEF Augments
  <2>4. OneToOne(ok, nGold, h)
    BY <2>3 DEF OneToOne
  <2>5. \A j \in 1..nGold : h[j] <= c
    <3> TAKE j \in 1..nGold
    <3>1. CASE h[j] = Free
      BY <3>1 DEF Free, c
    <3>2. CASE h[j] = c
      BY <3>2 DEF c
    <3>3. CASE \E k \in 1..nGold : h[j] = G[k]
      <4>1. PICK k \in 1..nGold : h[j] = G[k]
        BY <3>3
      <4>2. G[k] \in Int /\ G[k] <= i
        BY <1>g
      <4> QED BY <4>1, <4>2 DEF c
    <3> QED BY <2>3, <3>1, <3>2, <3>3
  <2>6. Cardinality(Held(nGold, h)) = Cardinality(Held(nGold, G)) + 1
    <3>1. PICK e \in 1..nGold : /\ G[e] = Free
                                /\ \A j \in 1..nGold : h[j] # Free <=> G[j] # Free \/ j = e
      BY <2>3
    <3>2. Held(nGold, h) = Held(nGold, G) \cup {e} /\ e \notin Held(nGold, G)
      BY <3>1 DEF Held
    <3> QED BY <3>2, HeldIs, FS_AddElement
  <2>7. a.n = m.n + 1 /\ a.given = h /\ m.n = Cardinality(Held(nGold, G))
    BY <1>3, <1>5, <1>7 DEF G, h
  <2>8. a.n = Cardinality(Held(nGold, h)) /\ a.n <= c
    BY <1>5, <2>6, <2>7 DEF c
  <2>9. CallsCounted(ok, nGold, c, a)
    BY <2>4, <2>5, <2>7, <2>8 DEF CallsCounted
  <2> QED BY <1>3, <1>7, <2>9 DEF c, s, r, a
<1>8. CASE ~r.found
  <2>1. Fails(ok, nGold, s, r)
    BY <1>4, <1>6, <1>8 DEF Decides
  <2>2. a.given = m.given /\ a.n = m.n
    BY <1>2, <1>3, <1>8, <2>1 DEF Fails
  <2>3. \A j \in 1..nGold : G[j] <= c
    <3> HIDE DEF G
    <3> TAKE j \in 1..nGold
    <3>1. G[j] \in Int /\ G[j] <= i
      BY <1>g
    <3> QED BY <3>1
  <2>4. m.n <= c
    BY <1>5
  <2> HIDE DEF c
  <2>5. CallsCounted(ok, nGold, c, a)
    BY <1>5, <2>2, <2>3, <2>4 DEF CallsCounted
  <2> QED BY <1>3, <1>8, <2>1, <2>5 DEF s, r, a, c
<1> QED BY <1>7, <1>8

LEMMA AllCounted ==
    ASSUME NEW nCalls \in Nat, NEW nGold \in Nat, NEW ok, NEW after,
           MatchedAfter(ok, nCalls, nGold, after), NEW i \in 0..nCalls
    PROVE  CallsCounted(ok, nGold, i, after[i])
<1> DEFINE T == {k \in Nat : k \in 0..nCalls => CallsCounted(ok, nGold, k, after[k])}
<1>1. /\ \A k \in 0..nCalls : after[k] \in Matches(nCalls, nGold)
      /\ after[0] = NoMatch(nGold)
      /\ \A k \in 1..nCalls : after[k] = AfterCall(ok, nCalls, nGold, k, after[k - 1])
  BY DEF MatchedAfter
<1>2. 0 \in T
  <2> DEFINE none == [j \in 1..nGold |-> Free]
  <2>1. NoMatch(nGold).n = 0 /\ NoMatch(nGold).given = none /\ \A j \in 1..nGold : none[j] = 0
    BY DEF NoMatch, Free
  <2> HIDE DEF none
  <2>2. Held(nGold, none) = {} /\ OneToOne(ok, nGold, none) /\ \A j \in 1..nGold : none[j] <= 0
    BY <2>1 DEF Held, OneToOne, Free
  <2>3. Cardinality(Held(nGold, none)) = 0
    BY <2>2, FS_EmptySet
  <2>4. CallsCounted(ok, nGold, 0, NoMatch(nGold))
    BY <2>1, <2>2, <2>3 DEF CallsCounted
  <2> QED BY <1>1, <2>4
<1>3. ASSUME NEW k \in 0..(nCalls - 1), k \in T PROVE k + 1 \in T
  <2>1. k \in Nat /\ k \in 0..nCalls /\ k + 1 \in 1..nCalls /\ (k + 1) - 1 = k
    OBVIOUS
  <2>2. CallsCounted(ok, nGold, k, after[k]) /\ after[k] \in Matches(nCalls, nGold)
    BY <1>1, <1>3, <2>1
  <2>3. CallsCounted(ok, nGold, k + 1, AfterCall(ok, nCalls, nGold, k + 1, after[k]))
    BY <2>1, <2>2, CallCounted
  <2>4. after[k + 1] = AfterCall(ok, nCalls, nGold, k + 1, after[k])
    BY <1>1, <2>1
  <2> QED BY <2>3, <2>4
<1>4. \A k \in 0..(nCalls - 1) : k \in T => k + 1 \in T
  BY <1>3
<1>5. i \in T
  <2> HIDE DEF T
  <2>1. \A k \in 0..nCalls : k \in T
    BY <1>2, <1>4, Induction
  <2> QED BY <2>1
<1> QED BY <1>5

(* If all calls can be placed, none fails: else the calls that hold what was *)
(* looked at, and the one that failed, would be one too many for it.       *)
Placing(ok, n, p) ==
    /\ p \in [1..n -> 1..n]
    /\ \A j, k \in 1..n : j # k => p[j] # p[k]
    /\ \A j \in 1..n : ok[p[j]][j]

LEMMA NoneFails ==
    ASSUME NEW n \in Nat, NEW ok, NEW p, Placing(ok, n, p),
           NEW c \in 1..n, NEW given \in [1..n -> 0..n], OneToOne(ok, n, given),
           \A j \in 1..n : given[j] # c,
           NEW r, Fails(ok, n, [call |-> c, given |-> given, seen |-> {}], r)
    PROVE  FALSE
<1> DEFINE N == {j \in 1..n : j \in r.seen}
           X == {given[j] : j \in N} \cup {c}
           P == {p[j] : j \in N}
<1>1. /\ \A k \in 1..n : ok[c][k] => k \in N
      /\ \A j \in N : given[j] # Free /\ \A k \in 1..n : ok[given[j]][k] => k \in N
  <2> DEFINE s == [call |-> c, given |-> given, seen |-> {}]
  <2>1. s.call = c /\ s.given = given /\ s.seen = {}
    OBVIOUS
  <2> HIDE DEF s
  <2> QED BY <2>1 DEF Fails, s
<1>2. IsFiniteSet(1..n) /\ Cardinality(1..n) = n
  BY FS_Interval
<1>3. N \in SUBSET (1..n)
  OBVIOUS
<1> HIDE DEF N
<1>4. IsFiniteSet(N)
  BY <1>2, <1>3, FS_Subset
<1>p. /\ p \in [1..n -> 1..n] /\ \A j, k \in 1..n : j # k => p[j] # p[k]
      /\ \A j \in 1..n : ok[p[j]][j]
  BY DEF Placing
<1>5. \A x \in 1..n : \E j \in 1..n : p[j] = x
  <2>1. p \in Injection(1..n, 1..n)
    BY <1>p DEF Injection, IsInjective
  <2>2. p \in Surjection(1..n, 1..n)
    BY <1>2, <2>1, FS_Injection
  <2> QED BY <2>2 DEF Surjection
<1>6. X \subseteq P
  <2> SUFFICES ASSUME NEW x \in X PROVE x \in P
    OBVIOUS
  <2>1. x \in 1..n /\ \A k \in 1..n : ok[x][k] => k \in N
    <3>1. CASE x = c
      BY <1>1, <3>1
    <3>2. CASE x # c
      <4>1. PICK j \in N : x = given[j]
        BY <3>2
      <4>2. given[j] \in 0..n /\ given[j] # Free
        BY <1>1, <1>3
      <4> QED BY <1>1, <4>1, <4>2 DEF Free
    <3> QED BY <3>1, <3>2
  <2>2. PICK j \in 1..n : p[j] = x
    BY <1>5, <2>1
  <2>3. j \in N
    BY <1>p, <2>1, <2>2
  <2> QED BY <2>2, <2>3
<1>7. IsFiniteSet(P) /\ Cardinality(P) = Cardinality(N)
  <2> DEFINE q == [j \in N |-> p[j]]
  <2>1. q \in Surjection(N, P) /\ q \in Injection(N, P)
    <3>1. q \in [N -> P]
      OBVIOUS
    <3>2. \A j, k \in N : q[j] = q[k] => j = k
      BY <1>3, <1>p
    <3>3. \A x \in P : \E j \in N : q[j] = x
      OBVIOUS
    <3> QED BY <3>1, <3>2, <3>3 DEF Surjection, Injection, IsInjective
  <2> HIDE DEF q, P
  <2> QED BY <1>4, <2>1, FS_Surjection
<1> DEFINE Y == {given[j] : j \in N}
<1>8. IsFiniteSet(Y) /\ Cardinality(Y) = Cardinality(N)
  <2> DEFINE q == [j \in N |-> given[j]]
  <2>1. q \in Surjection(N, Y) /\ q \in Injection(N, Y)
    <3>1. q \in [N -> Y]
      OBVIOUS
    <3>2. \A j, k \in N : q[j] = q[k] => j = k
      BY <1>1, <1>3 DEF OneToOne
    <3>3. \A x \in Y : \E j \in N : q[j] = x
      OBVIOUS
    <3> QED BY <3>1, <3>2, <3>3 DEF Surjection, Injection, IsInjective
  <2> HIDE DEF q, Y
  <2> QED BY <1>4, <2>1, FS_Surjection
<1>9. c \notin Y /\ X = Y \cup {c}
  BY <1>3
<1>10. Cardinality(N) \in Nat
  BY <1>4, FS_CardinalityType
<1> HIDE DEF X, Y, P
<1>11. Cardinality(X) = Cardinality(N) + 1
  BY <1>8, <1>9, FS_AddElement
<1>12. Cardinality(X) <= Cardinality(P)
  BY <1>6, <1>7, FS_Subset
<1> QED BY <1>7, <1>10, <1>11, <1>12

(* The size _max_matching counts is n exactly if all n calls can be placed  *)
(* (tools.py:671-686).                                                      *)
LEMMA MatchingIsPlacing ==
    ASSUME NEW n \in Nat, NEW ok
    PROVE  MaxMatching(ok, n, n) = n <=> \E p : Placing(ok, n, p)
<1>1. PICK after : MatchedAfter(ok, n, n, after)
  BY MaxMatchingIs
<1>2. /\ \A k \in 0..n : after[k] \in Matches(n, n)
      /\ after[0] = NoMatch(n)
      /\ \A k \in 1..n : after[k] = AfterCall(ok, n, n, k, after[k - 1])
      /\ MaxMatching(ok, n, n) = after[n].n
  BY <1>1 DEF MatchedAfter
<1>3. \A k \in 0..n : CallsCounted(ok, n, k, after[k])
  BY <1>1, AllCounted
<1>4. ASSUME MaxMatching(ok, n, n) = n PROVE \E p : Placing(ok, n, p)
  <2> DEFINE given == after[n].given
  <2>1. CallsCounted(ok, n, n, after[n]) /\ after[n] \in Matches(n, n)
    BY <1>2, <1>3
  <2>2. /\ given \in [1..n -> 0..n] /\ OneToOne(ok, n, given)
        /\ Cardinality(Held(n, given)) = n
    BY <1>2, <1>4, <2>1 DEF CallsCounted, Matches
  <2> HIDE DEF given
  <2>3. \A j \in 1..n : given[j] # Free
    BY <2>2, HeldIs
  <2>4. given \in [1..n -> 1..n]
    BY <2>2, <2>3 DEF Free
  <2>5. Placing(ok, n, given)
    BY <2>2, <2>3, <2>4 DEF Placing, OneToOne
  <2> QED BY <2>5
<1>5. ASSUME NEW p, Placing(ok, n, p) PROVE MaxMatching(ok, n, n) = n
  <2> DEFINE T == {k \in Nat : k \in 0..n => after[k].n = k}
  <2>1. 0 \in T
    BY <1>2 DEF NoMatch
  <2>2. ASSUME NEW k \in 0..(n - 1), k \in T PROVE k + 1 \in T
    <3>1. k \in Nat /\ k \in 0..n /\ k + 1 \in 1..n /\ (k + 1) - 1 = k
      OBVIOUS
    <3> DEFINE m == after[k]  c == k + 1  s == SearchFor(c, m)  r == TryCall(ok, n, n)[s]
    <3>2. CallsCounted(ok, n, k, m) /\ m \in Matches(n, n) /\ m.n = k
      BY <1>2, <1>3, <2>2, <3>1
    <3>3. after[c] = AfterCall(ok, n, n, c, m)
      BY <1>2, <3>1
    <3> HIDE DEF m
    <3>4. /\ AfterCall(ok, n, n, c, m).n = IF r.found THEN m.n + 1 ELSE m.n
          /\ ~r.found => Fails(ok, n, s, r)
      BY <3>1, <3>2, CallCounted
    <3>5. r.found
      <4> SUFFICES ASSUME ~r.found PROVE FALSE
        OBVIOUS
      <4> DEFINE G == m.given
      <4>1. Fails(ok, n, [call |-> c, given |-> G, seen |-> {}], r)
        BY <3>4 DEF SearchFor
      <4>2. G \in [1..n -> 0..n] /\ OneToOne(ok, n, G) /\ \A j \in 1..n : G[j] <= k
        BY <3>2 DEF CallsCounted, Matches
      <4> HIDE DEF G, r
      <4>3. \A j \in 1..n : G[j] # c
        <5> TAKE j \in 1..n
        <5>1. G[j] \in Int /\ G[j] <= k
          BY <4>2
        <5> QED BY <5>1
      <4>4. c \in 1..n
        BY <3>1
      <4> HIDE DEF c
      <4> QED BY <1>5, <4>1, <4>2, <4>3, <4>4, NoneFails
    <3>6. after[c].n = c
      <4> HIDE DEF s, r
      <4> QED BY <3>2, <3>3, <3>4, <3>5
    <3> QED BY <3>1, <3>6
  <2>3. n \in T
    <3>1. \A k \in 0..(n - 1) : k \in T => k + 1 \in T
      BY <2>2
    <3> HIDE DEF T
    <3>2. \A k \in 0..n : k \in T
      BY <2>1, <3>1, Induction
    <3> QED BY <3>2
  <2> QED BY <1>2, <2>3
<1> QED BY <1>4, <1>5

-----------------------------------------------------------------------------
(* Calls are matched one to one. *)
LEMMA AstIsAssignable ==
    ASSUME NEW native, NEW text, NEW nGold \in Nat, native.n \in Nat, native.n > 0
    PROVE  ScoreTools("native", "ast", text, native, nGold).correct <=> Assignable(native, nGold)
<1> DEFINE n == native.n  ok == native.ok
<1>1. native # NoCalls
  <2>1. NoCalls.n = -1
    BY DEF NoCalls
  <2> QED BY <2>1
<1>2. ScoreTools("native", "ast", text, native, nGold) =
         Verdict(n = nGold /\ MaxMatching(ok, n, nGold) = nGold)
  <2>1. ScoreTools("native", "ast", text, native, nGold) = ScoreCalls("ast", native, nGold)
    BY <1>1 DEF ScoreTools
  <2>2. native.n # 0
    OBVIOUS
  <2> QED BY <2>1, <2>2 DEF ScoreCalls
<1>3. Assignable(native, nGold) <=> n = nGold /\ \E p : Placing(ok, nGold, p)
  BY DEF Assignable, Placing
<1> HIDE DEF n, ok
<1>4. n = nGold => (MaxMatching(ok, n, nGold) = nGold <=> \E p : Placing(ok, nGold, p))
  BY MatchingIsPlacing
<1>5. Verdict(n = nGold /\ MaxMatching(ok, n, nGold) = nGold).correct
         <=> n = nGold /\ MaxMatching(ok, n, nGold) = nGold
  BY VerdictIs
<1> QED BY <1>2, <1>3, <1>4, <1>5

LEMMA IrrelevantIsCredited ==
    ASSUME NEW mode \in {"native", "prompt"}, NEW text, NEW native, NEW nGold,
           text = NoCalls \/ text.n \in Nat, native = NoCalls \/ native.n \in Nat,
           ScoreTools(mode, "irrelevance", text, native, nGold).correct
    PROVE  /\ text.n <= 0
           /\ native.n > 0 => mode = "prompt" /\ text.n = 0
<1>1. NoCalls.n = -1
  BY DEF NoCalls
<1>2. text.n \in Int /\ native.n \in Int /\ (text.n >= 0 => text # NoCalls)
      /\ (native.n >= 0 => native # NoCalls)
  BY <1>1
<1>3. \A calls : ScoreCalls("irrelevance", calls, nGold) = Verdict(calls.n = 0)
  BY DEF ScoreCalls
<1>4. \A calls : Verdict(calls.n = 0).correct <=> calls.n = 0
  BY VerdictIs
<1> DEFINE calls == IF mode = "native" THEN (IF native.n > 0 THEN native ELSE NoCalls)
                    ELSE IF text = NoCalls /\ native.n > 0 THEN native ELSE text
<1>5. ScoreTools(mode, "irrelevance", text, native, nGold) =
         IF calls # NoCalls THEN Verdict(calls.n = 0)
         ELSE IF text.n > 0 THEN Verdict(text.n = 0)
         ELSE Verdict(TRUE)
  BY <1>3 DEF ScoreTools
<1>6. calls # NoCalls => calls.n = 0
  <2> HIDE DEF calls
  <2> QED BY <1>4, <1>5
<1>7. calls = NoCalls => ~(text.n > 0)
  <2> HIDE DEF calls
  <2> SUFFICES ASSUME calls = NoCalls, text.n > 0 PROVE FALSE
    OBVIOUS
  <2>1. text.n = 0
    BY <1>4, <1>5
  <2> QED BY <2>1
<1>8. CASE mode = "native"
  <2>1. ~(native.n > 0)
    BY <1>2, <1>6, <1>8
  <2>2. calls = NoCalls
    BY <1>8, <2>1
  <2> QED BY <1>2, <1>7, <2>1, <2>2
<1>9. CASE mode = "prompt"
  <2>1. mode # "native"
    BY <1>9
  <2>2. CASE text = NoCalls
    <3>1. ~(native.n > 0)
      BY <1>2, <1>6, <2>1, <2>2
    <3> QED BY <1>1, <2>2, <3>1
  <2>3. CASE text # NoCalls
    <3>1. calls = text
      BY <2>1, <2>3
    <3>2. text.n = 0
      BY <1>6, <2>3, <3>1
    <3> QED BY <1>9, <3>2
  <2> QED BY <2>2, <2>3
<1> QED BY <1>8, <1>9

-----------------------------------------------------------------------------
(* The states of an item. *)
ItemOK ==
    \/ item.family \in Texts /\ IsReply(item)
    \/ IsCallItem(item)
    \/ IsPartsItem(item)

Readable == norm.status = "ok" \/ CallsInstead

Outcome ==
    \/ ~Readable /\ rec = [status |-> norm.status, correct |-> FALSE]
    \/ Readable /\ rec = ApplyVerdict(Score)
    \/ rec.status \in {"cancelled", "error"} /\ rec.correct = FALSE

ScoringInv ==
    /\ ItemOK
    /\ stage \in {"answered", "scoring", "recorded"}
    /\ degenerate \in BOOLEAN /\ (degenerate => item.finish = "length")
    /\ stage = "answered" => norm = NoNorm
    /\ stage # "answered" => norm = Normalize(item.text, item.field, item.finish)
    /\ stage = "scoring" => Readable
    /\ stage # "recorded" => rec = NoRec
    /\ stage = "recorded" => Outcome

LEMMA ScoringInit == Init => ScoringInv
<1> SUFFICES ASSUME Init PROVE ScoringInv
  OBVIOUS
<1>1. ItemOK
  <2>1. ASSUME NEW f \in Texts, NEW t \in Written[f], NEW r \in Fields, NEW e \in {"stop", "length"},
               item = [family |-> f, text |-> t, field |-> r, finish |-> e]
        PROVE  ItemOK
    <3>1. t \in Seq(Marks) /\ r \in Seq(Marks)
      BY ScoringAssumption
    <3>2. item.family = f /\ item.text = t /\ item.field = r /\ item.finish = e
      BY <2>1
    <3> QED BY <3>1, <3>2 DEF ItemOK, IsReply
  <2>2. item \in Called => ItemOK
    BY ScoringAssumption DEF ItemOK
  <2>3. item \in Listed => ItemOK
    BY ScoringAssumption DEF ItemOK
  <2> QED BY <2>1, <2>2, <2>3 DEF Init
<1>2. stage = "answered" /\ norm = NoNorm /\ degenerate = FALSE /\ rec = NoRec
  BY DEF Init
<1> QED BY <1>1, <1>2 DEF ScoringInv

LEMMA ScoringNext == ScoringInv /\ [Next]_vars => ScoringInv'
<1> SUFFICES ASSUME ScoringInv, [Next]_vars PROVE ScoringInv'
  OBVIOUS
<1> USE DEF ScoringInv
<1>1. CASE Split
  <2>1. /\ stage = "answered" /\ rec = NoRec /\ item' = item
        /\ norm' = Normalize(item.text, item.field, item.finish)
        /\ degenerate' \in (IF item.finish = "length" THEN BOOLEAN ELSE {FALSE})
    BY <1>1 DEF Split, Record
  <2>2. ItemOK' /\ CallsInstead' = CallsInstead
    BY <2>1 DEF ItemOK, CallsInstead
  <2>3. degenerate' \in BOOLEAN /\ (degenerate' => item'.finish = "length")
    BY <2>1
  <2>4. CASE norm'.status # "ok" /\ ~CallsInstead
    <3>1. stage' = "recorded" /\ rec' = [status |-> norm'.status, correct |-> FALSE]
      BY <1>1, <2>4 DEF Split, Record
    <3>2. Outcome'
      BY <2>2, <2>4, <3>1 DEF Outcome, Readable
    <3> QED BY <2>1, <2>2, <2>3, <3>1, <3>2
  <2>5. CASE ~(norm'.status # "ok" /\ ~CallsInstead)
    <3>1. stage' = "scoring" /\ rec' = rec
      BY <1>1, <2>5 DEF Split
    <3>2. Readable'
      BY <2>2, <2>5 DEF Readable
    <3> QED BY <2>1, <2>2, <2>3, <3>1, <3>2
  <2> QED BY <2>4, <2>5
<1>2. CASE Scored
  <2>1. /\ stage = "scoring" /\ stage' = "recorded" /\ rec' = ApplyVerdict(Score)
        /\ UNCHANGED <<item, norm, degenerate>>
    BY <1>2 DEF Scored, Record
  <2>2. ItemOK' = ItemOK /\ Readable' = Readable /\ ApplyVerdict(Score)' = ApplyVerdict(Score)
    <3>1. Score' = Score
      BY <2>1 DEF Score
    <3> QED BY <2>1, <3>1 DEF ItemOK, Readable, CallsInstead, ApplyVerdict, Degenerate
  <2>3. Outcome'
    BY <2>1, <2>2 DEF Outcome
  <2> QED BY <2>1, <2>2, <2>3
<1>3. CASE Lost
  <2>1. /\ stage = "scoring" /\ stage' = "recorded"
        /\ rec'.status \in {"cancelled", "error"} /\ rec'.correct = FALSE
        /\ UNCHANGED <<item, norm, degenerate>>
    BY <1>3 DEF Lost, Record
  <2>2. ItemOK' = ItemOK
    BY <2>1 DEF ItemOK
  <2>3. Outcome'
    BY <2>1 DEF Outcome
  <2> QED BY <2>1, <2>2, <2>3
<1>4. CASE UNCHANGED vars
  <2>1. UNCHANGED <<item, stage, norm, degenerate, rec>>
    BY <1>4 DEF vars
  <2>2. ItemOK' = ItemOK /\ Readable' = Readable /\ Outcome' = Outcome
    <3>1. Score' = Score
      BY <2>1 DEF Score
    <3> QED BY <2>1, <3>1 DEF ItemOK, Readable, CallsInstead, ApplyVerdict, Degenerate, Outcome
  <2> QED BY <2>1, <2>2
<1> QED BY <1>1, <1>2, <1>3, <1>4 DEF Next

(* The strengthening holds of every reachable state: what was split is what *)
(* Normalize makes of the item, and what is recorded is what came of it.    *)
THEOREM ScoringInvariant == Spec => []ScoringInv
<1>1. Init => ScoringInv
  BY ScoringInit
<1>2. ScoringInv /\ [Next]_vars => ScoringInv'
  BY ScoringNext
<1> QED BY <1>1, <1>2, PTL DEF Spec

-----------------------------------------------------------------------------
(* What is recorded, from the verdict. *)
LEMMA ItemsAreReplies ==
    ASSUME ItemOK
    PROVE  /\ item.text \in Seq(Marks) /\ item.field \in Seq(Marks) /\ item.finish \in {"stop", "length"}
           /\ item.family \in Families
           /\ item.family \in Texts => item.family # "tools" /\ item.family # "parts"
           /\ item.family = "tools" => IsCallItem(item)
           /\ item.family = "parts" => IsPartsItem(item)
BY DEF ItemOK, IsCallItem, IsPartsItem, IsReply, Families, Texts

LEMMA ScoreOf ==
    /\ item.family = "mcq" => Score = ScoreMcq(norm.visible)
    /\ item.family = "simpleqa" => Score = ScoreSimpleqa(norm.visible)
    /\ item.family = "math" => Score = ScoreMath(norm.visible)
    /\ item.family = "parts" => Score = Verdict(Equivalent(item.cand, item.gold, item.ordered))
    /\ item.family = "numeric" => Score = ScoreNumeric(norm.visible)
    /\ item.family = "text" => Score = ScoreText(norm.visible)
    /\ item.family = "tools" =>
          Score = ScoreTools(item.mode, item.sub,
                             IF Places(norm.visible, {Call}) # {} THEN item.written ELSE NoCalls,
                             item.native, item.nGold)
BY DEF Score

Verdicts == {Verdict(TRUE), Verdict(FALSE), Unparsed}

LEMMA ScoreIsVerdict ==
    ASSUME item.family \in Families
    PROVE  Score \in Verdicts
<1>1. \A ok \in BOOLEAN : Verdict(ok) \in Verdicts
  BY DEF Verdicts
<1>2. Unparsed \in Verdicts
  BY DEF Verdicts
<1>3. CASE item.family = "mcq"
  BY <1>1, <1>2, <1>3, ScoreOf DEF ScoreMcq
<1>4. CASE item.family = "simpleqa"
  BY <1>1, <1>2, <1>4, ScoreOf DEF ScoreSimpleqa
<1>5. CASE item.family = "math"
  BY <1>1, <1>2, <1>5, ScoreOf DEF ScoreMath
<1>6. CASE item.family = "parts"
  BY <1>1, <1>2, <1>6, ScoreOf DEF Equivalent, SetEqual
<1>7. CASE item.family = "numeric"
  BY <1>1, <1>2, <1>7, ScoreOf DEF ScoreNumeric
<1>8. CASE item.family = "text"
  BY <1>1, <1>2, <1>8, ScoreOf DEF ScoreText
<1>9. CASE item.family = "tools"
  BY <1>1, <1>2, <1>9, ScoreOf DEF ScoreTools, ScoreCalls
<1> QED BY <1>3, <1>4, <1>5, <1>6, <1>7, <1>8, <1>9 DEF Families, Texts

LEMMA VerdictsAre ==
    ASSUME NEW v \in Verdicts
    PROVE  /\ v = [correct |-> v.correct, status |-> v.status] /\ v.correct \in BOOLEAN
           /\ v.status \in {"correct", "wrong", "unparsed"}
           /\ v.correct = (v.status = "correct")
<1>1. CASE v = Verdict(TRUE)
  BY <1>1 DEF Verdict
<1>2. CASE v = Verdict(FALSE)
  BY <1>2 DEF Verdict
<1>3. CASE v = Unparsed
  BY <1>3 DEF Unparsed
<1> QED BY <1>1, <1>2, <1>3 DEF Verdicts

LEMMA AppliedIs ==
    ASSUME NEW v \in Verdicts, degenerate \in BOOLEAN
    PROVE  LET a == ApplyVerdict(v) IN
           /\ a.status \in {"correct", "wrong", "unparsed", "truncated"}
           /\ a.correct = (a.status = "correct")
           /\ a.correct <=> ~degenerate /\ v.correct
           /\ item.finish = "length" => a.status \in {"correct", "truncated"}
<1>1. CASE degenerate
  <2>1. ApplyVerdict(v) = Degenerate
    BY <1>1 DEF ApplyVerdict
  <2>2. /\ Degenerate.correct = FALSE /\ Degenerate.status \in {"truncated", "wrong"}
        /\ item.finish = "length" => Degenerate.status = "truncated"
    BY DEF Degenerate
  <2>3. Degenerate.status # "correct"
    BY <2>2
  <2> QED BY <1>1, <2>1, <2>2, <2>3
<1>2. CASE ~degenerate /\ item.finish = "length" /\ ~v.correct
  <2>1. ApplyVerdict(v) = [v EXCEPT !.status = "truncated"]
    BY <1>2 DEF ApplyVerdict
  <2>2. [v EXCEPT !.status = "truncated"] = [correct |-> v.correct, status |-> "truncated"]
    BY VerdictsAre
  <2>3. ApplyVerdict(v).correct = v.correct /\ ApplyVerdict(v).status = "truncated"
    BY <2>1, <2>2
  <2>4. v.correct = FALSE
    BY <1>2, VerdictsAre
  <2> QED BY <1>2, <2>3, <2>4
<1>3. CASE ~degenerate /\ ~(item.finish = "length" /\ ~v.correct)
  <2>1. ApplyVerdict(v) = v
    BY <1>3 DEF ApplyVerdict
  <2> QED BY <1>3, <2>1, VerdictsAre
<1> QED BY <1>1, <1>2, <1>3

(* A record that says correct, and one that was scored. *)
LEMMA RecordIs ==
    ASSUME ScoringInv, stage = "recorded"
    PROVE  /\ rec.correct = (rec.status = "correct")
           /\ rec.status \in {"correct", "wrong", "unparsed", "truncated", "empty", "cancelled", "error"}
           /\ rec.correct => Readable /\ Score.correct
           /\ Readable /\ ~degenerate /\ rec.status \notin {"cancelled", "error"} =>
                 (rec.correct <=> Score.correct)
           /\ item.finish = "length" => rec.status \in {"correct", "truncated", "cancelled", "error"}
           /\ Norm(item.text, item.field, item.finish)
           /\ norm = Normalize(item.text, item.field, item.finish)
<1>1. item.text \in Seq(Marks) /\ item.field \in Seq(Marks) /\ item.family \in Families
  BY ItemsAreReplies DEF ScoringInv
<1>2. Norm(item.text, item.field, item.finish) /\ norm = Normalize(item.text, item.field, item.finish)
  BY <1>1, NormalizeIs DEF ScoringInv
<1>3. /\ norm.status \in {"ok", "truncated", "empty"}
      /\ item.finish = "length" => norm.status # "empty"
  BY <1>2 DEF Norm
<1>4. Outcome /\ degenerate \in BOOLEAN
  BY DEF ScoringInv
<1>5. CASE ~Readable /\ rec = [status |-> norm.status, correct |-> FALSE]
  <2>1. norm.status \in {"truncated", "empty"} /\ rec.status = norm.status /\ rec.correct = FALSE
    BY <1>3, <1>5 DEF Readable
  <2> QED BY <1>2, <1>3, <1>5, <2>1
<1>6. CASE Readable /\ rec = ApplyVerdict(Score)
  <2> DEFINE v == Score
  <2>1. v \in Verdicts
    BY <1>1, ScoreIsVerdict
  <2> HIDE DEF v
  <2>2. /\ ApplyVerdict(v).status \in {"correct", "wrong", "unparsed", "truncated"}
        /\ ApplyVerdict(v).correct = (ApplyVerdict(v).status = "correct")
        /\ ApplyVerdict(v).correct <=> ~degenerate /\ v.correct
        /\ item.finish = "length" => ApplyVerdict(v).status \in {"correct", "truncated"}
    BY <1>4, <2>1, AppliedIs
  <2>3. rec = ApplyVerdict(v) /\ v = Score
    BY <1>6 DEF v
  <2> QED BY <1>2, <1>6, <2>2, <2>3
<1>7. CASE rec.status \in {"cancelled", "error"} /\ rec.correct = FALSE
  BY <1>2, <1>7
<1> QED BY <1>4, <1>5, <1>6, <1>7 DEF Outcome

-----------------------------------------------------------------------------
(* Every property follows from the strengthening.  First: a text of marks  *)
(* was scored, and credited only if it shows the gold answer. *)
LEMMA RecordedText ==
    ASSUME ScoringInv, stage = "recorded", item.family \in Texts, Readable
    PROVE  /\ norm.visible \in Seq(Marks) /\ norm.visible # <<>>
           /\ norm.answer_from_reasoning \/ \E k, m : Slice(Blocks(item.text).left, norm.visible, k, m)
<1>1. Norm(item.text, item.field, item.finish) /\ norm = Normalize(item.text, item.field, item.finish)
  BY RecordIs
<1>2. item.family # "tools"
  BY ItemsAreReplies DEF ScoringInv
<1>3. norm.status = "ok"
  BY <1>2 DEF Readable, CallsInstead
<1> QED BY <1>1, <1>3 DEF Norm

LEMMA CreditedShow ==
    ASSUME NEW v \in Seq(Marks), v # <<>>, v = norm.visible, item.family \in Texts, Score.correct
    PROVE  Shows(v)
<1>1. CASE item.family = "mcq"
  BY <1>1, ScoreOf, McqShows
<1>2. CASE item.family = "simpleqa"
  BY <1>2, ScoreOf, SimpleqaShows
<1>3. CASE item.family = "math"
  BY <1>3, ScoreOf, MathShows
<1>4. CASE item.family = "numeric"
  BY <1>4, ScoreOf, NumericShows
<1>5. CASE item.family = "text"
  BY <1>5, ScoreOf, TextShows
<1> QED BY <1>1, <1>2, <1>3, <1>4, <1>5 DEF Texts

LEMMA InvIsCredit == ScoringInv => CreditFromVisible
<1> SUFFICES ASSUME ScoringInv, stage = "recorded", rec.correct, item.family \in Texts,
                    ~norm.answer_from_reasoning
             PROVE  GoldShown(item.text)
  BY DEF CreditFromVisible, Credited
<1>1. Readable /\ Score.correct
  BY RecordIs
<1> DEFINE v == norm.visible
<1>2. /\ v \in Seq(Marks) /\ v # <<>>
      /\ \E k, m : Slice(Blocks(item.text).left, v, k, m)
  BY <1>1, RecordedText
<1>3. v = norm.visible
  OBVIOUS
<1> HIDE DEF v
<1>4. Shows(v)
  BY <1>1, <1>2, <1>3, CreditedShow
<1>5. PICK k, m : Slice(Blocks(item.text).left, v, k, m)
  BY <1>2
<1>6. item.text \in Seq(Marks)
  BY ItemsAreReplies DEF ScoringInv
<1> QED BY <1>4, <1>5, <1>6, VisibleIsShown

LEMMA InvIsCut == ScoringInv => CutIsNotWrong
BY RecordIs DEF CutIsNotWrong

LEMMA AlternativesFail ==
    ASSUME NEW v \in Seq(Marks), v = norm.visible, Score.correct
    PROVE  /\ item.family = "mcq" => ~Alternatives(v, {"boxed", "phrase", "bare"}, {"boxed", "bare"})
           /\ item.family = "math" => /\ ~Alternatives(v, {"boxed"}, {"boxed"})
                                      /\ ~Alternatives(v, {"phrase"}, {"bare"})
           /\ item.family \in {"simpleqa", "numeric", "text"} =>
                 ~Alternatives(v, {"phrase", "bare"}, {"bare"})
<1>1. CASE item.family = "mcq"
  <2>1. {"boxed", "bare"} \subseteq {"boxed", "bare"} /\ ScoreMcq(v).correct
    BY <1>1, ScoreOf
  <2> QED BY <1>1, <2>1, McqHedged
<1>2. CASE item.family = "math"
  <2>1. ScoreMath(v).correct
    BY <1>2, ScoreOf
  <2> QED BY <1>2, <2>1, MathHedged
<1>3. CASE item.family \in {"simpleqa", "numeric", "text"}
  <2>1. ScoreSimpleqa(v).correct \/ ScoreNumeric(v).correct \/ ScoreText(v).correct
    BY <1>3, ScoreOf
  <2> QED BY <1>3, <2>1, OthersHedged
<1> QED BY <1>1, <1>2, <1>3

LEMMA InvIsAlternatives == ScoringInv => AlternativesNotCredited
<1> SUFFICES ASSUME ScoringInv, stage = "recorded", rec.correct PROVE
        CASE item.family = "mcq" ->
                 /\ ~Alternatives(norm.visible, {"boxed", "phrase", "bare"}, {"boxed", "bare"})
          [] item.family = "math" ->
                 /\ ~Alternatives(norm.visible, {"boxed"}, {"boxed"})
                 /\ ~Alternatives(norm.visible, {"phrase"}, {"bare"})
          [] item.family \in {"simpleqa", "numeric", "text"} ->
                 ~Alternatives(norm.visible, {"phrase", "bare"}, {"bare"})
          [] OTHER -> TRUE
  BY DEF AlternativesNotCredited, Credited
<1>1. Score.correct
  BY RecordIs
<1> DEFINE v == norm.visible
<1>2. v \in Seq(Marks) /\ v = norm.visible
  BY RecordIs DEF Norm
<1> HIDE DEF v
<1>3. /\ item.family = "mcq" => ~Alternatives(v, {"boxed", "phrase", "bare"}, {"boxed", "bare"})
      /\ item.family = "math" => /\ ~Alternatives(v, {"boxed"}, {"boxed"})
                                 /\ ~Alternatives(v, {"phrase"}, {"bare"})
      /\ item.family \in {"simpleqa", "numeric", "text"} =>
            ~Alternatives(v, {"phrase", "bare"}, {"bare"})
  BY <1>1, <1>2, AlternativesFail
<1>4. CASE item.family = "mcq"
  BY <1>2, <1>3, <1>4
<1>5. CASE item.family = "math"
  BY <1>2, <1>3, <1>5
<1>6. CASE item.family \in {"simpleqa", "numeric", "text"}
  BY <1>2, <1>3, <1>6
<1> QED BY <1>4, <1>5, <1>6

LEMMA BoxesCredit ==
    ASSUME NEW v \in Seq(Marks), v = norm.visible, item.family \in Texts,
           EndsOnBox(v), LineStart(v, Len(v)) = Len(v),
           item.family = "mcq" => Places(v, {Or}) = {}
    PROVE  Score.correct
<1>1. CASE item.family = "mcq"
  BY <1>1, ScoreOf, McqBox
<1>2. CASE item.family = "simpleqa"
  BY <1>2, ScoreOf, SimpleqaBox
<1>3. CASE item.family = "math"
  BY <1>3, ScoreOf, MathBox
<1>4. CASE item.family = "numeric"
  BY <1>4, ScoreOf, NumericBox
<1>5. CASE item.family = "text"
  BY <1>5, ScoreOf, TextBox
<1> QED BY <1>1, <1>2, <1>3, <1>4, <1>5 DEF Texts

LEMMA InvIsFinalBox == ScoringInv => FinalBoxCredited
<1> DEFINE v == norm.visible
<1> SUFFICES ASSUME ScoringInv, stage = "recorded", item.family \in Texts, v # <<>>,
                    item.family = "mcq" => Places(v, {Or}) = {},
                    v[Len(v)] = <<"boxed", Gold>>, LineStart(v, Len(v)) = Len(v),
                    ~degenerate, rec.status \notin {"cancelled", "error"}
             PROVE  rec.correct
  BY DEF FinalBoxCredited
<1>1. v \in Seq(Marks) /\ norm.status = "ok"
  BY RecordIs DEF Norm
<1>2. EndsOnBox(v)
  BY DEF EndsOnBox, GoldBox
<1>3. v = norm.visible
  OBVIOUS
<1> HIDE DEF v
<1>4. Score.correct
  BY <1>1, <1>2, <1>3, BoxesCredit
<1>5. Readable
  BY <1>1 DEF Readable
<1> QED BY <1>4, <1>5, RecordIs

LEMMA InvIsAssignable == ScoringInv => AssignableIsCredited
<1> SUFFICES ASSUME ScoringInv, stage = "recorded", item.family = "tools", item.sub = "ast",
                    item.mode = "native", item.native.n > 0,
                    ~degenerate, rec.status \notin {"cancelled", "error"}
             PROVE  rec.correct <=> Assignable(item.native, item.nGold)
  BY DEF AssignableIsCredited
<1>1. Readable
  BY DEF Readable, CallsInstead
<1>2. rec.correct <=> Score.correct
  BY <1>1, RecordIs
<1>3. IsCallItem(item)
  BY ItemsAreReplies DEF ScoringInv
<1>4. item.nGold \in Nat /\ item.native.n \in Nat
  <2>1. NoCalls.n = -1
    BY DEF NoCalls
  <2> QED BY <1>3, <2>1 DEF IsCallItem, IsCalls
<1>5. Score.correct <=> Assignable(item.native, item.nGold)
  BY <1>4, ScoreOf, AstIsAssignable
<1> QED BY <1>2, <1>5

LEMMA InvIsIrrelevance == ScoringInv => IrrelevanceCallsNothing
<1> DEFINE called == Places(norm.visible, {Call}) # {}
<1> SUFFICES ASSUME ScoringInv, stage = "recorded", rec.correct,
                    item.family = "tools", item.sub = "irrelevance"
             PROVE  /\ called => item.written.n <= 0
                    /\ item.native.n > 0 => item.mode = "prompt" /\ item.written.n = 0
  BY DEF IrrelevanceCallsNothing, Credited
<1>1. Score.correct
  BY RecordIs
<1>2. IsCallItem(item)
  BY ItemsAreReplies DEF ScoringInv
<1> DEFINE text == IF called THEN item.written ELSE NoCalls
           native == item.native
<1>3. ScoreTools(item.mode, "irrelevance", text, native, item.nGold).correct
  BY <1>1, ScoreOf
<1>4. /\ text = NoCalls \/ text.n \in Nat
      /\ native = NoCalls \/ native.n \in Nat
      /\ item.mode \in {"native", "prompt"}
  BY <1>2 DEF IsCallItem, IsCalls
<1> HIDE DEF text, native
<1>5. text.n <= 0 /\ (native.n > 0 => item.mode = "prompt" /\ text.n = 0)
  BY <1>3, <1>4, IrrelevantIsCredited
<1>6. NoCalls.n = -1
  BY DEF NoCalls
<1>7. CASE called
  <2>1. text = item.written
    BY <1>7 DEF text
  <2> QED BY <1>5, <2>1 DEF native
<1>8. CASE ~called
  <2>1. text = NoCalls
    BY <1>8 DEF text
  <2>2. ~(native.n > 0)
    BY <1>5, <1>6, <2>1
  <2> QED BY <1>8, <2>2 DEF native
<1> QED BY <1>7, <1>8

LEMMA InvIsBags == ScoringInv => SetsCompareAsBags
<1> SUFFICES ASSUME ScoringInv, stage = "recorded", item.family = "parts", ~item.ordered,
                    norm.visible # <<>>, ~degenerate, rec.status \notin {"cancelled", "error"}
             PROVE  rec.correct <=> SameBag(item.cand, item.gold)
  BY DEF SetsCompareAsBags, SameBag
<1>1. norm.status = "ok"
  BY RecordIs DEF Norm
<1>2. rec.correct <=> Score.correct
  BY <1>1, RecordIs DEF Readable
<1>3. IsPartsItem(item)
  BY ItemsAreReplies DEF ScoringInv
<1> DEFINE D == Range(item.cand) \cup Range(item.gold)
<1>4. item.cand \in Seq(D) /\ item.gold \in Seq(D) /\ item.ordered = FALSE
  BY <1>3 DEF IsPartsItem
<1> HIDE DEF D
<1>5. Equivalent(item.cand, item.gold, FALSE) <=> SameBag(item.cand, item.gold)
  <2> DEFINE c == item.cand  g == item.gold
  <2>1. c \in Seq(D) /\ g \in Seq(D)
    BY <1>4
  <2> HIDE DEF c, g
  <2>2. Equivalent(c, g, FALSE) <=> SameBag(c, g)
    BY <2>1, EquivalentIsSameBag
  <2> QED BY <2>2 DEF c, g
<1>6. Score = Verdict(Equivalent(item.cand, item.gold, FALSE))
  BY <1>4, ScoreOf
<1>7. Verdict(Equivalent(item.cand, item.gold, FALSE)).correct
         <=> Equivalent(item.cand, item.gold, FALSE)
  BY VerdictIs DEF Equivalent
<1> QED BY <1>2, <1>5, <1>6, <1>7

LEMMA InvIsTyped == ScoringInv => TypeOK
<1> SUFFICES ASSUME ScoringInv PROVE TypeOK
  OBVIOUS
<1>1. item.family \in Families /\ item.text \in Seq(Marks) /\ item.field \in Seq(Marks)
  BY ItemsAreReplies DEF ScoringInv
<1>2. norm.status \in {"none", "ok", "truncated", "empty"}
  <2>1. CASE stage = "answered"
    BY <2>1 DEF ScoringInv, NoNorm
  <2>2. CASE stage # "answered"
    BY <1>1, <2>2, NormalizeIs DEF ScoringInv, Norm
  <2> QED BY <2>1, <2>2
<1>3. /\ rec.status \in {"correct", "wrong", "unparsed", "truncated", "empty", "cancelled", "error"}
      /\ rec.correct = (rec.status = "correct")
  <2>1. CASE stage = "recorded"
    BY <2>1, RecordIs
  <2>2. CASE stage # "recorded"
    <3>1. rec.status = "error" /\ rec.correct = FALSE
      BY <2>2 DEF ScoringInv, NoRec
    <3> QED BY <3>1
  <2> QED BY <2>1, <2>2
<1> QED BY <1>1, <1>2, <1>3 DEF ScoringInv, TypeOK

(* An item keeps its kind on its way, and its record says correct in its    *)
(* status exactly if it does in its flag (run_eval.py:354-374).             *)
THEOREM ScoringTypeCorrect == Spec => []TypeOK
BY ScoringInvariant, InvIsTyped, PTL

(* Whatever the reply and the reasoning beside it, credit is for an answer  *)
(* outside of all reasoning, or the record says it is not                   *)
(* (common.py:341-414, and the scorers of five families).                   *)
THEOREM CreditNeedsAnAnswer == Spec => []CreditFromVisible
BY ScoringInvariant, InvIsCredit, PTL

(* Of alternatives joined by an "or" none is picked, and a final box counts *)
(* (knowledge.py:501-608, 959-1016; math.py:511-608; longctx.py:932-1215).  *)
THEOREM CommitmentIsCredited == Spec => []OnlyCommittedCredited
<1>1. ScoringInv => OnlyCommittedCredited
  BY InvIsAlternatives, InvIsFinalBox DEF OnlyCommittedCredited
<1> QED BY <1>1, ScoringInvariant, PTL

(* A reply cut at the token cap is never counted as wrong, unparsed or      *)
(* empty (common.py:394-409, run_eval.py:354-364).                          *)
THEOREM CutRepliesAreApart == Spec => []CutIsNotWrong
BY ScoringInvariant, InvIsCut, PTL

(* Calls are credited exactly if they can be assigned one to one, parts     *)
(* exactly if they are the same bag, for any number of them                 *)
(* (tools.py:671-718, 721-764; math.py:465-476).                            *)
THEOREM MatchingIsOneToOne == Spec => []MatchedOneToOne
<1>1. ScoringInv => MatchedOneToOne
  BY InvIsAssignable, InvIsBags, InvIsIrrelevance DEF MatchedOneToOne
<1> QED BY <1>1, ScoringInvariant, PTL
=============================================================================
