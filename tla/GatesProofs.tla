------------------------------ MODULE GatesProofs ------------------------------
(***************************************************************************)
(* Proofs about the correctness gates, for any texts, prompt sets, limits  *)
(* and number of invocations: what a gate says it has measured itself, a   *)
(* script that ends by itself leaves no server behind, and a comparison    *)
(* passes exactly if the answers earn it.                                  *)
(***************************************************************************)
EXTENDS Gates, FiniteSetTheorems, WellFoundedInduction, TLAPS

(* Where run_kv_diff.sh and gsm8k.sh stand. *)
KvPc  == {"launch", "health", "record", "capture", "stopA", "selfcheck", "endB", "compare"}
GsmPc == {"lm_eval", "gsm8k"}

Captures == [kind : {"capture"}, run : 1..MaxRuns, by : Server \cup {Nobody},
             out : UNION {Answers(P) : P \in PromptSets}]

(* Side s was captured, or the attempt was made, in this run. *)
Tried(s) == IF s = "A" THEN side = "B" \/ pc \in {"stopA", "selfcheck", "endB", "compare"}
                       ELSE pc \in {"selfcheck", "endB", "compare"}

(* What the capture of a side that is not unsure holds: answers of the      *)
(* server of that side, or nothing but errors.                              *)
CapturedBy(s) ==
    /\ cap[s].kind = "capture" /\ cap[s].run = runs
    /\ \/ cap[s].by = [run |-> runs, kv |-> s]
       \/ \A p \in DOMAIN cap[s].out : cap[s].out[p].error

(* A server on the port that this run started is the one of its side. *)
ServerInv ==
    /\ listening.run \in 0..runs
    /\ pc # "off" => runs > 0
    /\ pc \in {"launch", "lm_eval", "gsm8k"} => listening.run # runs
    /\ pc \in KvPc /\ listening.run = runs => listening.kv = side
    /\ pc = "capture" => side \in unsure \/ listening \in {Nobody, Own}

(* Until the trap is taken back, or there is none, it can stop whatever the *)
(* script has started; what it cannot stop any more is side B's server.     *)
TrapInv ==
    /\ pc \in KvPc \ {"compare"} => trap
    /\ pc \in GsmPc \cup {"off"} => ~trap
    /\ pc \in {"selfcheck", "endB", "compare"} => side = "B"
    /\ pc = "stopA" => side = "A"
    /\ trap /\ ~viaLauncher /\ listening.run = runs => proc = "up"
    /\ pc # "off" /\ ~trap =>
          /\ proc = "none"
          /\ listening.run = runs => cfg.keepB /\ listening.kv = "B"
          /\ pc = "exit" => rc # 6

(* A launcher that outlived its script, or its script's shell, was called   *)
(* by an invocation that is over, but for what its trap has still to do.    *)
OrphanInv == \A o \in orphans :
    /\ viaLauncher /\ o.run \in 1..runs
    /\ o.run = runs => /\ pc \in {"exit", "off"} /\ rc \in {137, 143}
                       /\ pc = "exit" => trap

CaptureInv == pc \in KvPc => \A s \in Side \ unsure : Tried(s) => CapturedBy(s)

(* What is known when a script has ended or is about to. *)
StatusInv ==
    /\ pc \in {"exit", "off"} /\ runs > 0 /\ rc = 0 =>
          \/ diff.kind = "compared" /\ diff.pass /\ diff.run = runs
          \/ gsm.kind = "ok" /\ gsm.pass # "no" /\ gsm.run = runs
    /\ pc = "gsm8k" /\ rc = 0 => raw.kind = "results" /\ raw.run = runs

GatesInv == /\ TypeOK /\ cap \in [Side -> Captures \cup {None}]
            /\ ServerInv /\ OrphanInv /\ TrapInv /\ CaptureInv /\ StatusInv
            /\ PassIsOwn /\ NoServerLeft

-----------------------------------------------------------------------------
(* What a capture and a comparison leave, as far as the proofs need it.     *)
LEMMA CaptureEffect ==
    ASSUME GatesInv, CaptureSide
    PROVE  /\ pc = "capture" /\ pc' = AfterCapture
           /\ UNCHANGED <<serverVars, side, cfg, trap, rc, runs, diff, gsmFiles, selfdiff>>
           /\ \/ \E c \in Captures :
                    /\ cap' = [cap EXCEPT ![side] = c] /\ unsure' = unsure
                    /\ c.run = runs /\ c.by = listening
                    /\ listening = Nobody => \A p \in DOMAIN c.out : c.out[p].error
              \/ /\ unsure' = unsure \cup {side}
                 /\ cap' \in {cap, [cap EXCEPT ![side] = None]}
<1>1. ASSUME NEW c \in Captured
      PROVE  /\ c \in Captures /\ c.run = runs /\ c.by = listening
             /\ listening = Nobody => \A p \in DOMAIN c.out : c.out[p].error
  <2>1. pc = "capture" /\ runs \in 1..MaxRuns /\ listening \in Server \cup {Nobody}
        /\ cfg.prompts \in PromptSets
    BY DEF CaptureSide, GatesInv, ServerInv, TypeOK, Config
  <2>2. PICK o \in Answers(cfg.prompts) :
            /\ c = [kind |-> "capture", run |-> runs, by |-> listening, out |-> o]
            /\ listening = Nobody => \A p \in cfg.prompts : o[p] = Failed
    BY <1>1 DEF Captured
  <2>3. c \in Captures
    BY <2>1, <2>2 DEF Captures
  <2>4. DOMAIN o = cfg.prompts
    BY DEF Answers
  <2> QED BY <2>2, <2>3, <2>4 DEF Failed
<1> QED BY <1>1 DEF CaptureSide, Goto

LEMMA CapturesTyped ==
    ASSUME NEW f \in [Side -> Captures \cup {None}]
    PROVE  \A s \in Side :
              \/ f[s] = None
              \/ /\ f[s].kind = "capture" /\ f[s].run \in 1..MaxRuns
                 /\ f[s].by \in Server \cup {Nobody} /\ DOMAIN f[s].out \in PromptSets
BY DEF Captures, Answers

LEMMA GoneTyped ==
    ASSUME ProcessGone, TypeOK
    PROVE  /\ cfg' \in Config /\ pc' = "off" /\ side' \in Side /\ trap' \in BOOLEAN
           /\ selfdiff' \in BOOLEAN /\ unsure' \subseteq Side
BY GatesAssumption DEF ProcessGone, TypeOK, NoOptions, Config, Side

(* A comparison that passes had a prompt in common, and no error.           *)
LEMMA CleanVerdict ==
    ASSUME NEW oa, NEW ob, FailReasons(oa, ob) = {}
    PROVE  Common(oa, ob) # {} /\ \A p \in Common(oa, ob) : ~oa[p].error /\ ~ob[p].error
<1>1. Common(oa, ob) # {}
  BY DEF FailReasons
<1>2. ~ \E p \in Common(oa, ob) : oa[p].error \/ ob[p].error
  BY DEF FailReasons
<1> QED BY <1>1, <1>2

LEMMA CompareEffect ==
    ASSUME CompareSides
    PROVE  /\ pc = "compare" /\ pc' = "exit"
           /\ UNCHANGED <<serverVars, side, cfg, trap, runs, cap, gsmFiles, selfdiff, unsure>>
           /\ \/ /\ Readable /\ Verdict /\ rc' = 0
                 /\ diff' = [kind |-> "compared", pass |-> TRUE, run |-> runs, unsure |-> unsure,
                             from |-> [s \in Side |-> [run |-> cap[s].run, by |-> cap[s].by]]]
              \/ rc' = 1 /\ diff' = [kind |-> "compared", pass |-> FALSE, run |-> runs]
              \/ rc' = 1 /\ diff' \in {diff, None}
BY DEF CompareSides, Compared, Traceback, Exit

-----------------------------------------------------------------------------
(* The types, and what a capture holds when there is one. *)
LEMMA TypeKept == GatesInv /\ [Next]_vars => TypeOK' /\ (cap \in [Side -> Captures \cup {None}])'
<1> SUFFICES ASSUME GatesInv, [Next]_vars PROVE TypeOK' /\ (cap \in [Side -> Captures \cup {None}])'
  OBVIOUS
<1> USE GatesAssumption DEF GatesInv, vars, serverVars, kvFiles, gsmFiles, TypeOK, Stop,
       Own, Server, Nobody, None, Config, Side, Exit, Goto, ProcessGone, FilesLeft,
       LauncherOutlives, OrphanInv
<1>1. CASE LaunchCell
  BY <1>1 DEF LaunchCell
<1>2. CASE LaunchCommand
  BY <1>2 DEF LaunchCommand
<1>3. CASE AskHealth
  <2>1. pc' \in {"capture", "record"} /\ unsure' \subseteq Side
        /\ UNCHANGED <<serverVars, side, cfg, trap, rc, runs, kvFiles, gsmFiles, selfdiff>>
    BY <1>3 DEF AskHealth
  <2> QED BY <2>1
<1>4. CASE RecordFailure
  BY <1>4 DEF RecordFailure
<1>5. CASE CaptureSide
  <2>1. cap' \in [Side -> Captures \cup {None}]
    BY <1>5, CaptureEffect
  <2>2. /\ pc' \in {"stopA", "selfcheck", "endB"} /\ unsure' \subseteq Side
        /\ UNCHANGED <<serverVars, side, cfg, trap, rc, runs, diff, gsmFiles, selfdiff>>
    BY <1>5, CaptureEffect DEF AfterCapture
  <2> QED BY <2>1, <2>2, CapturesTyped
<1>6. CASE StopA
  BY <1>6 DEF StopA
<1>7. CASE SelfCheck
  BY <1>7 DEF SelfCheck
<1>8. CASE EndB
  BY <1>8 DEF EndB
<1>9. CASE CompareSides
  <2>1. /\ pc' = "exit" /\ rc' \in Nat /\ diff'.kind \in {"none", "launch_failed", "compared"}
        /\ UNCHANGED <<serverVars, side, cfg, trap, runs, cap, gsmFiles, selfdiff, unsure>>
    BY <1>9, CompareEffect
  <2> QED BY <2>1
<1>10. CASE ScriptExits
  BY <1>10, GoneTyped DEF ScriptExits
<1>11. CASE Unhealthy
  BY <1>11 DEF Unhealthy
<1>12. CASE LmEval
  BY <1>12 DEF LmEval
<1>13. CASE WriteGsm8k
  BY <1>13 DEF WriteGsm8k, Gsm8kStatus
<1>14. CASE \E c \in Config : Invoke(c)
  BY <1>14 DEF Invoke
<1>15. CASE StartGsm8k
  BY <1>15 DEF StartGsm8k
<1>16. CASE ServerUp
  BY <1>16 DEF ServerUp
<1>17. CASE ServerDies
  BY <1>17 DEF ServerDies
<1>18. CASE Interrupt
  BY <1>18 DEF Interrupt
<1>19. CASE Kill
  <2>1. /\ cfg' \in Config /\ pc' = "off" /\ side' \in Side /\ trap' \in BOOLEAN
        /\ selfdiff' \in BOOLEAN /\ unsure' \subseteq Side
    BY <1>19, GoneTyped DEF Kill
  <2>2. /\ diff' \in {diff, None} /\ gsm' \in {gsm, None} /\ UNCHANGED <<cap, raw>>
    BY <1>19 DEF Kill
  <2>3. /\ viaLauncher' = viaLauncher /\ runs' = runs /\ rc' \in Nat
        /\ listening' \in {listening, Nobody} /\ proc' = "none"
    BY <1>19 DEF Kill
  <2>4. orphans' \subseteq Server
    BY <1>19 DEF Kill
  <2> QED BY <2>1, <2>2, <2>3, <2>4
<1>20. CASE HostStops
  <2>1. /\ cfg' \in Config /\ pc' = "off" /\ side' \in Side /\ trap' \in BOOLEAN
        /\ selfdiff' \in BOOLEAN /\ unsure' \subseteq Side
    BY <1>20, GoneTyped DEF HostStops
  <2>2. /\ diff' \in {diff, None} /\ gsm' \in {gsm, None} /\ UNCHANGED <<cap, raw>>
    BY <1>20 DEF HostStops
  <2>3. /\ viaLauncher' = viaLauncher /\ runs' = runs /\ rc' \in Nat
        /\ listening' \in {listening, Nobody} /\ proc' = "none"
    BY <1>20 DEF HostStops
  <2>4. orphans' \subseteq Server
    BY <1>20 DEF HostStops
  <2> QED BY <2>1, <2>2, <2>3, <2>4
<1>21. CASE UNCHANGED vars
  BY <1>21
<1>22. CASE OrphanServes
  BY <1>22 DEF OrphanServes
<1> QED
  BY <1>1, <1>2, <1>3, <1>4, <1>5, <1>6, <1>7, <1>8, <1>9, <1>10, <1>11, <1>12, <1>13,
     <1>14, <1>15, <1>16, <1>17, <1>18, <1>19, <1>20, <1>21, <1>22
     DEF Next, KvStep, ServeAndCapture, GsmStep

(* The server on the port stays that of the side the script is at. *)
LEMMA ServerKept == GatesInv /\ [Next]_vars => ServerInv'
<1> SUFFICES ASSUME GatesInv, [Next]_vars PROVE ServerInv'
  OBVIOUS
<1> USE GatesAssumption DEF GatesInv, vars, serverVars, kvFiles, gsmFiles, TypeOK,
       ServerInv, TrapInv, Stop, Own, Nobody, KvPc, AfterCapture, Server, Exit, Goto,
       ProcessGone, FilesLeft, LauncherOutlives, OrphanInv
<1>1. CASE LaunchCell
  BY <1>1 DEF LaunchCell
<1>2. CASE LaunchCommand
  BY <1>2 DEF LaunchCommand
<1>3. CASE AskHealth
  BY <1>3 DEF AskHealth
<1>4. CASE RecordFailure
  BY <1>4 DEF RecordFailure
<1>5. CASE CaptureSide
  BY <1>5, CaptureEffect
<1>6. CASE StopA
  BY <1>6 DEF StopA
<1>7. CASE SelfCheck
  BY <1>7 DEF SelfCheck
<1>8. CASE EndB
  <2>1. CASE cfg.keepB
    BY <1>8, <2>1 DEF EndB
  <2>2. CASE ~cfg.keepB
    BY <1>8, <2>2 DEF EndB
  <2> QED BY <2>1, <2>2
<1>9. CASE CompareSides
  BY <1>9, CompareEffect DEF None
<1>10. CASE ScriptExits
  BY <1>10 DEF ScriptExits
<1>11. CASE Unhealthy
  BY <1>11 DEF Unhealthy
<1>12. CASE LmEval
  BY <1>12 DEF LmEval
<1>13. CASE WriteGsm8k
  BY <1>13 DEF WriteGsm8k
<1>14. CASE \E c \in Config : Invoke(c)
  BY <1>14 DEF Invoke
<1>15. CASE StartGsm8k
  BY <1>15 DEF StartGsm8k
<1>16. CASE ServerUp
  BY <1>16 DEF ServerUp
<1>17. CASE ServerDies
  BY <1>17 DEF ServerDies
<1>18. CASE Interrupt
  BY <1>18 DEF Interrupt
<1>19. CASE Kill
  BY <1>19 DEF Kill
<1>20. CASE HostStops
  BY <1>20 DEF HostStops
<1>21. CASE UNCHANGED vars
  BY <1>21
<1>22. CASE OrphanServes
  BY <1>22 DEF OrphanServes
<1> QED
  BY <1>1, <1>2, <1>3, <1>4, <1>5, <1>6, <1>7, <1>8, <1>9, <1>10, <1>11, <1>12, <1>13,
     <1>14, <1>15, <1>16, <1>17, <1>18, <1>19, <1>20, <1>21, <1>22
     DEF Next, KvStep, ServeAndCapture, GsmStep

(* What the script has started stays within reach of its trap. *)
LEMMA TrapKept == GatesInv /\ [Next]_vars => TrapInv'
<1> SUFFICES ASSUME GatesInv, [Next]_vars PROVE TrapInv'
  OBVIOUS
<1> USE GatesAssumption DEF GatesInv, vars, serverVars, kvFiles, gsmFiles, TypeOK,
       ServerInv, TrapInv, Stop, Own, Nobody, KvPc, GsmPc, AfterCapture, Side, Exit,
       Goto, ProcessGone, FilesLeft, LauncherOutlives, OrphanInv
<1>1. CASE LaunchCell
  BY <1>1 DEF LaunchCell
<1>2. CASE LaunchCommand
  BY <1>2 DEF LaunchCommand
<1>3. CASE AskHealth
  BY <1>3 DEF AskHealth
<1>4. CASE RecordFailure
  BY <1>4 DEF RecordFailure
<1>5. CASE CaptureSide
  BY <1>5 DEF CaptureSide
<1>6. CASE StopA
  BY <1>6 DEF StopA
<1>7. CASE SelfCheck
  BY <1>7 DEF SelfCheck
<1>8. CASE EndB
  <2>1. CASE cfg.keepB
    BY <1>8, <2>1 DEF EndB
  <2>2. CASE ~cfg.keepB
    BY <1>8, <2>2 DEF EndB
  <2> QED BY <2>1, <2>2
<1>9. CASE CompareSides
  BY <1>9, CompareEffect DEF None
<1>10. CASE ScriptExits
  BY <1>10 DEF ScriptExits
<1>11. CASE Unhealthy
  BY <1>11 DEF Unhealthy
<1>12. CASE LmEval
  BY <1>12 DEF LmEval
<1>13. CASE WriteGsm8k
  BY <1>13 DEF WriteGsm8k
<1>14. CASE \E c \in Config : Invoke(c)
  BY <1>14 DEF Invoke
<1>15. CASE StartGsm8k
  BY <1>15 DEF StartGsm8k
<1>16. CASE ServerUp
  BY <1>16 DEF ServerUp
<1>17. CASE ServerDies
  BY <1>17 DEF ServerDies
<1>18. CASE Interrupt
  BY <1>18 DEF Interrupt
<1>19. CASE Kill
  BY <1>19 DEF Kill
<1>20. CASE HostStops
  BY <1>20 DEF HostStops
<1>21. CASE UNCHANGED vars
  BY <1>21
<1>22. CASE OrphanServes
  BY <1>22 DEF OrphanServes
<1> QED
  BY <1>1, <1>2, <1>3, <1>4, <1>5, <1>6, <1>7, <1>8, <1>9, <1>10, <1>11, <1>12, <1>13,
     <1>14, <1>15, <1>16, <1>17, <1>18, <1>19, <1>20, <1>21, <1>22
     DEF Next, KvStep, ServeAndCapture, GsmStep

(* Launchers that outlive their scripts stay told apart. *)
LEMMA OrphansKept == GatesInv /\ [Next]_vars => OrphanInv'
<1> SUFFICES ASSUME GatesInv, [Next]_vars PROVE OrphanInv'
  OBVIOUS
<1> USE GatesAssumption DEF GatesInv, vars, serverVars, kvFiles, gsmFiles, TypeOK,
       ServerInv, TrapInv, Stop, Own, Nobody, KvPc, GsmPc, AfterCapture, Side, Exit,
       Goto, ProcessGone, FilesLeft, LauncherOutlives, OrphanInv
<1>1. CASE LaunchCell
  BY <1>1 DEF LaunchCell
<1>2. CASE LaunchCommand
  BY <1>2 DEF LaunchCommand
<1>3. CASE AskHealth
  BY <1>3 DEF AskHealth
<1>4. CASE RecordFailure
  BY <1>4 DEF RecordFailure
<1>5. CASE CaptureSide
  BY <1>5 DEF CaptureSide
<1>6. CASE StopA
  BY <1>6 DEF StopA
<1>7. CASE SelfCheck
  BY <1>7 DEF SelfCheck
<1>8. CASE EndB
  <2>1. CASE cfg.keepB
    BY <1>8, <2>1 DEF EndB
  <2>2. CASE ~cfg.keepB
    BY <1>8, <2>2 DEF EndB
  <2> QED BY <2>1, <2>2
<1>9. CASE CompareSides
  BY <1>9, CompareEffect DEF None
<1>10. CASE ScriptExits
  BY <1>10 DEF ScriptExits
<1>11. CASE Unhealthy
  BY <1>11 DEF Unhealthy
<1>12. CASE LmEval
  BY <1>12 DEF LmEval
<1>13. CASE WriteGsm8k
  BY <1>13 DEF WriteGsm8k
<1>14. CASE \E c \in Config : Invoke(c)
  BY <1>14 DEF Invoke
<1>15. CASE StartGsm8k
  BY <1>15 DEF StartGsm8k
<1>16. CASE ServerUp
  BY <1>16 DEF ServerUp
<1>17. CASE ServerDies
  BY <1>17 DEF ServerDies
<1>18. CASE Interrupt
  BY <1>18 DEF Interrupt
<1>19. CASE Kill
  BY <1>19 DEF Kill
<1>20. CASE HostStops
  BY <1>20 DEF HostStops
<1>21. CASE UNCHANGED vars
  BY <1>21
<1>22. CASE OrphanServes
  BY <1>22 DEF OrphanServes
<1> QED
  BY <1>1, <1>2, <1>3, <1>4, <1>5, <1>6, <1>7, <1>8, <1>9, <1>10, <1>11, <1>12, <1>13,
     <1>14, <1>15, <1>16, <1>17, <1>18, <1>19, <1>20, <1>21, <1>22
     DEF Next, KvStep, ServeAndCapture, GsmStep

(* What a side was answered by stays known until the verdict. *)
LEMMA CapturesKept == GatesInv /\ [Next]_vars => CaptureInv'
<1> SUFFICES ASSUME GatesInv, [Next]_vars PROVE CaptureInv'
  OBVIOUS
<1> USE GatesAssumption DEF GatesInv, vars, serverVars, kvFiles, gsmFiles, TypeOK,
       ServerInv, TrapInv, CaptureInv, CapturedBy, Tried, Stop, Own, Nobody, KvPc,
       AfterCapture, Side, Exit, Goto, ProcessGone, FilesLeft,
       LauncherOutlives, OrphanInv
<1>1. CASE LaunchCell
  BY <1>1 DEF LaunchCell
<1>2. CASE LaunchCommand
  BY <1>2 DEF LaunchCommand
<1>3. CASE AskHealth
  BY <1>3 DEF AskHealth
<1>4. CASE RecordFailure
  BY <1>4 DEF RecordFailure
<1>5. CASE CaptureSide
  <2>1. /\ pc = "capture" /\ pc' = AfterCapture /\ side' = side /\ runs' = runs
        /\ listening = Nobody \/ listening = Own \/ side \in unsure
    BY <1>5, CaptureEffect
  <2>2. CASE \E c \in Captures :
                /\ cap' = [cap EXCEPT ![side] = c] /\ unsure' = unsure
                /\ c.run = runs /\ c.by = listening
                /\ listening = Nobody => \A p \in DOMAIN c.out : c.out[p].error
    <3>1. PICK c \in Captures :
                /\ cap' = [cap EXCEPT ![side] = c] /\ unsure' = unsure
                /\ c.run = runs /\ c.by = listening
                /\ listening = Nobody => \A p \in DOMAIN c.out : c.out[p].error
      BY <2>2
    <3>2. c.kind = "capture"
      BY DEF Captures
    <3>3. ASSUME side \notin unsure PROVE CapturedBy(side)'
      BY <2>1, <3>1, <3>2, <3>3
    <3>4. ASSUME NEW s \in Side \ unsure, s # side, Tried(s)' PROVE CapturedBy(s)'
      BY <2>1, <3>1, <3>4
    <3> QED BY <2>1, <3>1, <3>3, <3>4
  <2>3. CASE /\ unsure' = unsure \cup {side}
             /\ cap' \in {cap, [cap EXCEPT ![side] = None]}
    BY <2>1, <2>3
  <2> QED BY <1>5, <2>2, <2>3, CaptureEffect
<1>6. CASE StopA
  BY <1>6 DEF StopA
<1>7. CASE SelfCheck
  BY <1>7 DEF SelfCheck
<1>8. CASE EndB
  BY <1>8 DEF EndB
<1>9. CASE CompareSides
  BY <1>9 DEF CompareSides
<1>10. CASE ScriptExits
  BY <1>10 DEF ScriptExits
<1>11. CASE Unhealthy
  BY <1>11 DEF Unhealthy
<1>12. CASE LmEval
  BY <1>12 DEF LmEval
<1>13. CASE WriteGsm8k
  BY <1>13 DEF WriteGsm8k
<1>14. CASE \E c \in Config : Invoke(c)
  BY <1>14 DEF Invoke
<1>15. CASE StartGsm8k
  BY <1>15 DEF StartGsm8k
<1>16. CASE ServerUp
  BY <1>16 DEF ServerUp
<1>17. CASE ServerDies
  BY <1>17 DEF ServerDies
<1>18. CASE Interrupt
  BY <1>18 DEF Interrupt
<1>19. CASE Kill
  BY <1>19 DEF Kill
<1>20. CASE HostStops
  BY <1>20 DEF HostStops
<1>21. CASE UNCHANGED vars
  BY <1>21
<1>22. CASE OrphanServes
  BY <1>22 DEF OrphanServes
<1> QED
  BY <1>1, <1>2, <1>3, <1>4, <1>5, <1>6, <1>7, <1>8, <1>9, <1>10, <1>11, <1>12, <1>13,
     <1>14, <1>15, <1>16, <1>17, <1>18, <1>19, <1>20, <1>21, <1>22
     DEF Next, KvStep, ServeAndCapture, GsmStep

(* Exit status 0 and a record of the same run come together. *)
LEMMA StatusKept == GatesInv /\ [Next]_vars => StatusInv'
<1> SUFFICES ASSUME GatesInv, [Next]_vars PROVE StatusInv'
  OBVIOUS
<1> USE GatesAssumption DEF GatesInv, vars, serverVars, kvFiles, gsmFiles, TypeOK,
       ServerInv, StatusInv, AfterCapture, Exit, Goto, ProcessGone, FilesLeft,
       LauncherOutlives, OrphanInv
<1>1. CASE LaunchCell
  BY <1>1 DEF LaunchCell
<1>2. CASE LaunchCommand
  BY <1>2 DEF LaunchCommand
<1>3. CASE AskHealth
  BY <1>3 DEF AskHealth
<1>4. CASE RecordFailure
  BY <1>4 DEF RecordFailure
<1>5. CASE CaptureSide
  BY <1>5, CaptureEffect
<1>6. CASE StopA
  BY <1>6 DEF StopA
<1>7. CASE SelfCheck
  BY <1>7 DEF SelfCheck
<1>8. CASE EndB
  BY <1>8 DEF EndB
<1>9. CASE CompareSides
  BY <1>9, CompareEffect DEF None
<1>10. CASE ScriptExits
  BY <1>10 DEF ScriptExits
<1>11. CASE Unhealthy
  BY <1>11 DEF Unhealthy
<1>12. CASE LmEval
  BY <1>12 DEF LmEval
<1>13. CASE WriteGsm8k
  BY <1>13 DEF WriteGsm8k
<1>14. CASE \E c \in Config : Invoke(c)
  BY <1>14 DEF Invoke
<1>15. CASE StartGsm8k
  BY <1>15 DEF StartGsm8k
<1>16. CASE ServerUp
  BY <1>16 DEF ServerUp
<1>17. CASE ServerDies
  BY <1>17 DEF ServerDies
<1>18. CASE Interrupt
  BY <1>18 DEF Interrupt
<1>19. CASE Kill
  BY <1>19 DEF Kill
<1>20. CASE HostStops
  BY <1>20 DEF HostStops
<1>21. CASE UNCHANGED vars
  BY <1>21
<1>22. CASE OrphanServes
  BY <1>22 DEF OrphanServes
<1> QED
  BY <1>1, <1>2, <1>3, <1>4, <1>5, <1>6, <1>7, <1>8, <1>9, <1>10, <1>11, <1>12, <1>13,
     <1>14, <1>15, <1>16, <1>17, <1>18, <1>19, <1>20, <1>21, <1>22
     DEF Next, KvStep, ServeAndCapture, GsmStep

(* A pass is written over nothing but captures of its own run. *)
LEMMA PassKept == GatesInv /\ [Next]_vars => PassIsOwn'
<1> SUFFICES ASSUME GatesInv, [Next]_vars PROVE PassIsOwn'
  OBVIOUS
<1> USE GatesAssumption DEF GatesInv, vars, serverVars, kvFiles, gsmFiles, TypeOK,
       ServerInv, StatusInv, PassIsOwn, None, AfterCapture, Exit, Goto, ProcessGone,
       FilesLeft, LauncherOutlives, OrphanInv
<1>1. CASE LaunchCell
  BY <1>1 DEF LaunchCell
<1>2. CASE LaunchCommand
  BY <1>2 DEF LaunchCommand
<1>3. CASE AskHealth
  BY <1>3 DEF AskHealth
<1>4. CASE RecordFailure
  BY <1>4 DEF RecordFailure
<1>5. CASE CaptureSide
  BY <1>5, CaptureEffect
<1>6. CASE StopA
  BY <1>6 DEF StopA
<1>7. CASE SelfCheck
  BY <1>7 DEF SelfCheck
<1>8. CASE EndB
  BY <1>8 DEF EndB
<1>9. CASE CompareSides
  <2>1. CASE rc' = 1
    BY <1>9, <2>1, CompareEffect DEF CompareSides, None
  <2>2. CASE rc' = 0
    <3>1. /\ pc = "compare" /\ pc' = "exit" /\ gsm' = gsm /\ Readable /\ Verdict
          /\ diff' = [kind |-> "compared", pass |-> TRUE, run |-> runs, unsure |-> unsure,
                      from |-> [s \in Side |-> [run |-> cap[s].run, by |-> cap[s].by]]]
      BY <1>9, <2>2, CompareEffect
    <3>2. ASSUME NEW s \in Side \ unsure
          PROVE  diff'.from[s] = [run |-> runs, by |-> [run |-> runs, kv |-> s]]
      <4>1. CapturedBy(s)
        BY <3>1 DEF CaptureInv, Tried, KvPc, TrapInv, Side
      <4>2. /\ Common(cap["A"].out, cap["B"].out) # {}
            /\ \A p \in Common(cap["A"].out, cap["B"].out) :
                  ~cap["A"].out[p].error /\ ~cap["B"].out[p].error
        BY <3>1, CleanVerdict DEF Verdict
      <4>3. cap[s].by = [run |-> runs, kv |-> s]
        BY <4>1, <4>2 DEF CapturedBy, Common, Side
      <4> QED BY <3>1, <4>1, <4>3 DEF CapturedBy
    <3> QED BY <3>1, <3>2
  <2> QED BY <1>9, <2>1, <2>2, CompareEffect
<1>10. CASE ScriptExits
  BY <1>10 DEF ScriptExits
<1>11. CASE Unhealthy
  BY <1>11 DEF Unhealthy
<1>12. CASE LmEval
  BY <1>12 DEF LmEval
<1>13. CASE WriteGsm8k
  BY <1>13 DEF WriteGsm8k, Gsm8kStatus
<1>14. CASE \E c \in Config : Invoke(c)
  BY <1>14 DEF Invoke
<1>15. CASE StartGsm8k
  BY <1>15 DEF StartGsm8k
<1>16. CASE ServerUp
  BY <1>16 DEF ServerUp
<1>17. CASE ServerDies
  BY <1>17 DEF ServerDies
<1>18. CASE Interrupt
  BY <1>18 DEF Interrupt
<1>19. CASE Kill
  BY <1>19 DEF Kill
<1>20. CASE HostStops
  BY <1>20 DEF HostStops
<1>21. CASE UNCHANGED vars
  BY <1>21
<1>22. CASE OrphanServes
  BY <1>22 DEF OrphanServes
<1> QED
  BY <1>1, <1>2, <1>3, <1>4, <1>5, <1>6, <1>7, <1>8, <1>9, <1>10, <1>11, <1>12, <1>13,
     <1>14, <1>15, <1>16, <1>17, <1>18, <1>19, <1>20, <1>21, <1>22
     DEF Next, KvStep, ServeAndCapture, GsmStep

(* No step that ends a script leaves a server it can stop. *)
LEMMA LeftKept == GatesInv /\ [Next]_vars => NoServerLeft'
<1> SUFFICES ASSUME GatesInv, [Next]_vars PROVE NoServerLeft'
  OBVIOUS
<1> USE GatesAssumption DEF GatesInv, vars, serverVars, kvFiles, gsmFiles, TypeOK,
       ServerInv, TrapInv, NoServerLeft, Stop, Nobody, AfterCapture, Exit, Goto,
       ProcessGone, FilesLeft, LauncherOutlives, OrphanInv
<1>1. CASE LaunchCell
  BY <1>1 DEF LaunchCell
<1>2. CASE LaunchCommand
  BY <1>2 DEF LaunchCommand
<1>3. CASE AskHealth
  BY <1>3 DEF AskHealth
<1>4. CASE RecordFailure
  BY <1>4 DEF RecordFailure
<1>5. CASE CaptureSide
  BY <1>5, CaptureEffect
<1>6. CASE StopA
  BY <1>6 DEF StopA
<1>7. CASE SelfCheck
  BY <1>7 DEF SelfCheck
<1>8. CASE EndB
  BY <1>8 DEF EndB
<1>9. CASE CompareSides
  BY <1>9, CompareEffect DEF None
<1>10. CASE ScriptExits
  BY <1>10 DEF ScriptExits
<1>11. CASE Unhealthy
  BY <1>11 DEF Unhealthy
<1>12. CASE LmEval
  BY <1>12 DEF LmEval
<1>13. CASE WriteGsm8k
  BY <1>13 DEF WriteGsm8k
<1>14. CASE \E c \in Config : Invoke(c)
  BY <1>14 DEF Invoke
<1>15. CASE StartGsm8k
  BY <1>15 DEF StartGsm8k
<1>16. CASE ServerUp
  BY <1>16 DEF ServerUp
<1>17. CASE ServerDies
  BY <1>17 DEF ServerDies
<1>18. CASE Interrupt
  BY <1>18 DEF Interrupt
<1>19. CASE Kill
  BY <1>19 DEF Kill
<1>20. CASE HostStops
  BY <1>20 DEF HostStops
<1>21. CASE UNCHANGED vars
  BY <1>21
<1>22. CASE OrphanServes
  BY <1>22 DEF OrphanServes
<1> QED
  BY <1>1, <1>2, <1>3, <1>4, <1>5, <1>6, <1>7, <1>8, <1>9, <1>10, <1>11, <1>12, <1>13,
     <1>14, <1>15, <1>16, <1>17, <1>18, <1>19, <1>20, <1>21, <1>22
     DEF Next, KvStep, ServeAndCapture, GsmStep

-----------------------------------------------------------------------------
LEMMA GatesInit == Init => GatesInv
<1> SUFFICES ASSUME Init PROVE GatesInv
  OBVIOUS
<1> USE GatesAssumption DEF Init
<1>1. TypeOK /\ cap \in [Side -> Captures \cup {None}]
  <2>1. cap \in [Side -> Captures \cup {None}] /\ \A s \in Side : cap[s] = None
    OBVIOUS
  <2>2. cfg \in Config
    BY DEF Config, NoOptions
  <2>3. listening \in Server \cup {Nobody} /\ runs \in 0..MaxRuns /\ side \in Side
    BY DEF Server, Side
  <2> QED BY <2>1, <2>2, <2>3 DEF TypeOK, None
<1>2. ServerInv /\ OrphanInv /\ TrapInv
  BY DEF ServerInv, OrphanInv, TrapInv, KvPc, GsmPc, Nobody
<1>3. CaptureInv /\ StatusInv /\ PassIsOwn /\ NoServerLeft
  BY DEF CaptureInv, StatusInv, PassIsOwn, NoServerLeft, KvPc, None
<1> QED BY <1>1, <1>2, <1>3 DEF GatesInv

LEMMA GatesInvariant == Spec => []GatesInv
<1>1. GatesInv /\ [Next]_vars => GatesInv'
  BY TypeKept, ServerKept, TrapKept, OrphansKept, CapturesKept, StatusKept, PassKept, LeftKept DEF GatesInv
<1> QED BY GatesInit, <1>1, PTL DEF Spec

(* The state of the gates has the types the scripts' variables and files    *)
(* have, whatever was left by runs that were cut off.                       *)
THEOREM GatesTyped == Spec => []TypeOK
<1>1. GatesInv => TypeOK
  BY DEF GatesInv
<1> QED BY <1>1, GatesInvariant, PTL

(* Whatever was interrupted, killed or left lying before: a gate that       *)
(* passes, and one that exits with 0, speaks of servers of its own run      *)
(* (run_kv_diff.sh and gsm8k.sh).                                           *)
THEOREM GatesPassIsOwn == Spec => []PassIsOwn
<1>1. GatesInv => PassIsOwn
  BY DEF GatesInv
<1> QED BY <1>1, GatesInvariant, PTL

(* Whichever step failed: a script that was not killed has stopped what it  *)
(* started, but side B's server when it was asked to keep it.               *)
THEOREM GatesNoServerLeft == Spec => []NoServerLeft
<1>1. GatesInv => NoServerLeft
  BY DEF GatesInv
<1> QED BY <1>1, GatesInvariant, PTL

-----------------------------------------------------------------------------
(* What a comparison finds, for any two texts. *)

(* Induction over sets of naturals. *)
Less == {p \in Nat \X Nat : p[1] < p[2]}

LEMMA LeastElement ==
    ASSUME NEW T, T \subseteq Nat, T # {}
    PROVE  \E n \in T : \A m \in T : n <= m
<1>1. OpToRel(<, Nat) = Less
  BY DEF OpToRel, Less
<1>2. PICK n \in T : \A m \in T : <<m, n>> \notin Less
  BY <1>1, NatLessThanWellFounded, WFMin
<1>3. \A m \in T : ~(m < n)
  <2> TAKE m \in T
  <2>1. <<m, n>> \in Nat \X Nat /\ <<m, n>> \notin Less
    BY <1>2
  <2> QED BY <2>1 DEF Less
<1> QED BY <1>3

LEMMA Induction ==
    ASSUME NEW T, 0 \in T, \A n \in Nat : n \in T => n + 1 \in T
    PROVE  Nat \subseteq T
<1> SUFFICES ASSUME ~(Nat \subseteq T) PROVE FALSE
  OBVIOUS
<1>1. PICK n \in Nat \ T : \A m \in Nat \ T : n <= m
  BY LeastElement
<1>2. n # 0 /\ n - 1 \in Nat /\ n - 1 \in T
  BY <1>1
<1> QED BY <1>1, <1>2

(* A loop that computes one value from the one before, step[i, value],      *)
(* computes a sequence of them.                                            *)
Computes(f, first, step, n) ==
    f[0] = first /\ \A i \in 1..n : f[i] = step[<<i, f[i - 1]>>]

LEMMA LoopExists ==
    ASSUME NEW V, NEW first \in V, NEW N \in Nat, NEW step \in [(1..N) \X V -> V]
    PROVE  \E f \in [0..N -> V] : Computes(f, first, step, N)
<1> DEFINE T == {n \in Nat : n <= N => \E f \in [0..n -> V] : Computes(f, first, step, n)}
<1>1. 0 \in T
  <2> DEFINE f == [i \in 0..0 |-> first]
  <2>1. f \in [0..0 -> V] /\ Computes(f, first, step, 0)
    BY DEF Computes
  <2> QED BY <2>1
<1>2. ASSUME NEW n \in Nat, n \in T, n + 1 <= N PROVE n + 1 \in T
  <2>1. PICK f \in [0..n -> V] : Computes(f, first, step, n)
    BY <1>2
  <2>2. <<n + 1, f[n]>> \in (1..N) \X V
    BY <1>2
  <2> DEFINE g == [i \in 0..(n + 1) |-> IF i = n + 1 THEN step[<<n + 1, f[n]>>] ELSE f[i]]
  <2>3. g \in [0..(n + 1) -> V]
    BY <2>2
  <2>4. \A i \in 0..n : g[i] = f[i]
    OBVIOUS
  <2>5. g[n + 1] = step[<<n + 1, g[n]>>]
    <3>1. n \in 0..n /\ n + 1 \in 0..(n + 1)
      OBVIOUS
    <3> QED BY <2>4, <3>1
  <2> HIDE DEF g
  <2>6. ASSUME NEW i \in 1..(n + 1) PROVE g[i] = step[<<i, g[i - 1]>>]
    <3>1. CASE i = n + 1
      BY <2>5, <3>1
    <3>2. CASE i # n + 1
      <4>1. i \in 1..n /\ i \in 0..n /\ i - 1 \in 0..n
        BY <3>2
      <4> QED BY <2>1, <2>4, <4>1 DEF Computes
    <3> QED BY <3>1, <3>2
  <2>7. g[0] = first
    BY <2>1, <2>4 DEF Computes
  <2>8. Computes(g, first, step, n + 1)
    BY <2>6, <2>7 DEF Computes
  <2> QED BY <2>3, <2>8
<1>3. \A n \in Nat : n \in T => n + 1 \in T
  BY <1>2
<1>4. N \in T
  <2> HIDE DEF T
  <2> QED BY <1>1, <1>3, Induction
<1> QED BY <1>4

(* The least and the greatest of a few integers. *)
LEMMA LeastIs ==
    ASSUME NEW S, S \subseteq Int, NEW v \in S, \A y \in S : v <= y
    PROVE  Min(S) = v
<1>1. \A x \in S : (\A y \in S : x <= y) => x = v
  OBVIOUS
<1> QED BY <1>1 DEF Min

LEMMA LeastOfThree ==
    ASSUME NEW x \in Int, NEW y \in Int, NEW z \in Int
    PROVE  /\ Min({x, y, z}) \in {x, y, z}
           /\ Min({x, y, z}) <= x /\ Min({x, y, z}) <= y /\ Min({x, y, z}) <= z
<1> DEFINE S == {x, y, z}
<1>1. \E v \in S : \A w \in S : v <= w
  OBVIOUS
<1>2. Min(S) \in S /\ \A w \in S : Min(S) <= w
  BY <1>1 DEF Min
<1> QED BY <1>2

-----------------------------------------------------------------------------
(* Levenshtein's table.  Turned or not, each place of it follows from the   *)
(* three in front of it.                                                   *)
Table(t, a, b) ==
    /\ t \in [(0..Len(a)) \X (0..Len(b)) -> Nat]
    /\ \A i \in 0..Len(a) : t[<<i, 0>>] = i
    /\ \A j \in 0..Len(b) : t[<<0, j>>] = j
    /\ \A i \in 1..Len(a) : \A j \in 1..Len(b) :
          LET d == IF a[i] = b[j] THEN 0 ELSE 1
          IN  /\ t[<<i, j>>] \in {t[<<i - 1, j>>] + 1, t[<<i, j - 1>>] + 1, t[<<i - 1, j - 1>>] + d}
              /\ t[<<i, j>>] <= t[<<i - 1, j>>] + 1
              /\ t[<<i, j>>] <= t[<<i, j - 1>>] + 1
              /\ t[<<i, j>>] <= t[<<i - 1, j - 1>>] + d

Follows(cur, a, b, prev, i) ==
    /\ cur \in [0..Len(b) -> Nat] /\ cur[0] = i
    /\ \A j \in 1..Len(b) :
          cur[j] = Min({prev[j] + 1, cur[j - 1] + 1,
                        prev[j - 1] + (IF a[i] = b[j] THEN 0 ELSE 1)})

LEMMA RowIs ==
    ASSUME NEW a \in Seq(Words), NEW b \in Seq(Words),
           NEW prev \in [0..Len(b) -> Nat], NEW i \in Nat
    PROVE  Follows(NextRow(a, b, prev, i), a, b, prev, i)
<1> DEFINE N == Len(b)
           E(j, v) == Min({prev[j] + 1, v + 1, prev[j - 1] + (IF a[i] = b[j] THEN 0 ELSE 1)})
           step == [x \in (1..N) \X Nat |-> E(x[1], x[2])]
           Eq(f) == f = [j \in 0..N |-> IF j = 0 THEN i ELSE E(j, f[j - 1])]
<1>1. N \in Nat
  OBVIOUS
<1>2. ASSUME NEW j \in 1..N, NEW v \in Nat PROVE E(j, v) \in Nat
  <2> DEFINE x == prev[j] + 1  y == v + 1  z == prev[j - 1] + (IF a[i] = b[j] THEN 0 ELSE 1)
  <2>1. x \in Nat /\ y \in Nat /\ z \in Nat
    <3>1. j \in 0..N /\ j - 1 \in 0..N
      BY <1>1
    <3>2. prev[j] \in Nat /\ prev[j - 1] \in Nat
      BY <3>1
    <3> QED BY <3>2
  <2> HIDE DEF x, y, z
  <2>2. Min({x, y, z}) \in Nat
    BY <2>1, LeastOfThree
  <2> QED BY <2>2 DEF x, y, z
<1> HIDE DEF N, E
<1>3. step \in [(1..N) \X Nat -> Nat]
  BY <1>2
<1>4. \A j \in 1..N, v \in Nat : step[<<j, v>>] = E(j, v)
  OBVIOUS
<1> HIDE DEF step
<1>5. PICK f \in [0..N -> Nat] : Computes(f, i, step, N)
  BY <1>1, <1>3, LoopExists
<1>6. Eq(f)
  <2>1. ASSUME NEW j \in 0..N PROVE f[j] = IF j = 0 THEN i ELSE E(j, f[j - 1])
    <3>1. CASE j = 0
      BY <1>5, <3>1 DEF Computes
    <3>2. CASE j # 0
      <4>1. j \in 1..N /\ j - 1 \in 0..N
        BY <1>1, <3>2
      <4>2. f[j] = step[<<j, f[j - 1]>>] /\ f[j - 1] \in Nat
        BY <1>5, <4>1 DEF Computes
      <4> QED BY <1>4, <3>2, <4>1, <4>2
    <3> QED BY <3>1, <3>2
  <2> QED BY <2>1
<1> DEFINE cur == CHOOSE g : Eq(g)
<1>7. Eq(cur)
  <2> HIDE DEF Eq
  <2> QED BY <1>6
<1>8. cur = NextRow(a, b, prev, i)
  BY DEF NextRow, Eq, E, N
<1> HIDE DEF cur
<1>9. cur[0] = i /\ \A j \in 1..N : cur[j] = E(j, cur[j - 1])
  <2>1. 0 \in 0..N /\ \A j \in 1..N : j \in 0..N /\ j # 0
    BY <1>1
  <2> QED BY <1>7, <2>1
<1>10. ASSUME NEW k \in 0..N PROVE cur[k] \in Nat
  <2> DEFINE T == {n \in Nat : n <= N => cur[n] \in Nat}
  <2>1. 0 \in T
    BY <1>9
  <2>2. ASSUME NEW n \in Nat, n \in T PROVE n + 1 \in T
    <3>1. CASE n + 1 <= N
      <4>1. n + 1 \in 1..N /\ (n + 1) - 1 = n /\ cur[n] \in Nat
        BY <1>1, <2>2, <3>1
      <4>2. cur[n + 1] = E(n + 1, cur[n])
        BY <1>9, <4>1
      <4>3. E(n + 1, cur[n]) \in Nat
        BY <1>2, <4>1
      <4> QED BY <4>2, <4>3
    <3> QED BY <3>1
  <2>3. k \in T
    <3>1. k \in Nat /\ \A n \in Nat : n \in T => n + 1 \in T
      BY <1>1, <2>2
    <3> HIDE DEF T
    <3> QED BY <2>1, <3>1, Induction
  <2> QED BY <1>1, <2>3
<1>11. cur \in [0..N -> Nat]
  BY <1>7, <1>10
<1> QED BY <1>8, <1>9, <1>11 DEF Follows, E, N

LEMMA RowsAre ==
    ASSUME NEW a \in Seq(Words), NEW b \in Seq(Words)
    PROVE  LET row == Rows(a, b)
           IN  /\ \A i \in 0..Len(a) : row[i] \in [0..Len(b) -> Nat]
               /\ row[0] = [j \in 0..Len(b) |-> j]
               /\ \A i \in 1..Len(a) : row[i] = NextRow(a, b, row[i - 1], i)
<1> DEFINE N == Len(a)
           V == [0..Len(b) -> Nat]
           first == [j \in 0..Len(b) |-> j]
           step == [x \in (1..N) \X V |-> NextRow(a, b, x[2], x[1])]
           Eq(f) == f = [i \in 0..N |-> IF i = 0 THEN first ELSE NextRow(a, b, f[i - 1], i)]
<1>1. N \in Nat /\ first \in V
  OBVIOUS
<1>2. ASSUME NEW i \in 1..N, NEW v \in V PROVE NextRow(a, b, v, i) \in V
  BY RowIs DEF Follows
<1> HIDE DEF N, V, first
<1>3. step \in [(1..N) \X V -> V]
  BY <1>2
<1>4. \A i \in 1..N, v \in V : step[<<i, v>>] = NextRow(a, b, v, i)
  OBVIOUS
<1> HIDE DEF step
<1>5. PICK f \in [0..N -> V] : Computes(f, first, step, N)
  BY <1>1, <1>3, LoopExists
<1>6. Eq(f)
  <2>1. ASSUME NEW i \in 0..N PROVE f[i] = IF i = 0 THEN first ELSE NextRow(a, b, f[i - 1], i)
    <3>1. CASE i = 0
      BY <1>5, <3>1 DEF Computes
    <3>2. CASE i # 0
      <4>1. i \in 1..N /\ i - 1 \in 0..N
        BY <1>1, <3>2
      <4>2. f[i] = step[<<i, f[i - 1]>>] /\ f[i - 1] \in V
        BY <1>5, <4>1 DEF Computes
      <4> QED BY <1>4, <3>2, <4>1, <4>2
    <3> QED BY <3>1, <3>2
  <2> QED BY <2>1
<1> DEFINE row == CHOOSE g : Eq(g)
<1>7. Eq(row)
  <2> HIDE DEF Eq
  <2> QED BY <1>6
<1>8. row = Rows(a, b)
  BY DEF Rows, Eq, N, first
<1> HIDE DEF row
<1>9. row[0] = first /\ \A i \in 1..N : row[i] = NextRow(a, b, row[i - 1], i)
  <2>1. 0 \in 0..N /\ \A i \in 1..N : i \in 0..N /\ i # 0
    BY <1>1
  <2> QED BY <1>7, <2>1
<1>10. ASSUME NEW k \in 0..N PROVE row[k] \in V
  <2> DEFINE T == {n \in Nat : n <= N => row[n] \in V}
  <2>1. 0 \in T
    BY <1>1, <1>9
  <2>2. ASSUME NEW n \in Nat, n \in T PROVE n + 1 \in T
    <3>1. CASE n + 1 <= N
      <4>1. n + 1 \in 1..N /\ (n + 1) - 1 = n /\ row[n] \in V
        BY <1>1, <2>2, <3>1
      <4> QED BY <1>2, <1>9, <4>1
    <3> QED BY <3>1
  <2>3. k \in T
    <3>1. k \in Nat /\ \A n \in Nat : n \in T => n + 1 \in T
      BY <1>1, <2>2
    <3> HIDE DEF T
    <3> QED BY <2>1, <3>1, Induction
  <2> QED BY <1>1, <2>3
<1> QED BY <1>8, <1>9, <1>10 DEF N, V, first

LEMMA RowsAreATable ==
    ASSUME NEW a \in Seq(Words), NEW b \in Seq(Words)
    PROVE  Table([x \in (0..Len(a)) \X (0..Len(b)) |-> Rows(a, b)[x[1]][x[2]]], a, b)
<1> DEFINE N == Len(a)  M == Len(b)  row == Rows(a, b)
           t == [x \in (0..N) \X (0..M) |-> row[x[1]][x[2]]]
<1>1. /\ N \in Nat /\ M \in Nat
      /\ \A i \in 0..N : row[i] \in [0..M -> Nat]
      /\ row[0] = [j \in 0..M |-> j]
      /\ \A i \in 1..N : row[i] = NextRow(a, b, row[i - 1], i)
  BY RowsAre
<1> HIDE DEF row
<1>2. ASSUME NEW i \in 1..N
      PROVE  /\ row[i][0] = i
             /\ \A j \in 1..M : row[i][j] = Min({row[i - 1][j] + 1, row[i][j - 1] + 1,
                                   row[i - 1][j - 1] + (IF a[i] = b[j] THEN 0 ELSE 1)})
  <2>1. i - 1 \in 0..N /\ i \in Nat
    BY <1>1
  <2>2. row[i - 1] \in [0..M -> Nat] /\ row[i] = NextRow(a, b, row[i - 1], i)
    BY <1>1, <2>1
  <2>3. Follows(row[i], a, b, row[i - 1], i)
    BY <2>1, <2>2, RowIs
  <2> QED BY <2>3 DEF Follows
<1> HIDE DEF N, M
<1>3. \A i \in 0..N, j \in 0..M : t[<<i, j>>] = row[i][j] /\ row[i][j] \in Nat
  BY <1>1
<1>4. t \in [(0..N) \X (0..M) -> Nat]
  BY <1>3
<1>5. \A i \in 0..N : t[<<i, 0>>] = i
  <2> TAKE i \in 0..N
  <2>1. t[<<i, 0>>] = row[i][0] /\ 0 \in 0..M
    BY <1>1, <1>3
  <2>2. CASE i = 0
    BY <1>1, <2>1, <2>2
  <2>3. CASE i # 0
    <3>1. i \in 1..N
      BY <1>1, <2>3
    <3> QED BY <1>2, <2>1, <3>1
  <2> QED BY <2>2, <2>3
<1>6. \A j \in 0..M : t[<<0, j>>] = j
  <2>1. 0 \in 0..N
    BY <1>1
  <2> QED BY <1>1, <1>3, <2>1
<1> HIDE DEF t
<1>7. ASSUME NEW i \in 1..N, NEW j \in 1..M
      PROVE  LET d == IF a[i] = b[j] THEN 0 ELSE 1
             IN  /\ t[<<i, j>>] \in {t[<<i - 1, j>>] + 1, t[<<i, j - 1>>] + 1,
                                     t[<<i - 1, j - 1>>] + d}
                 /\ t[<<i, j>>] <= t[<<i - 1, j>>] + 1
                 /\ t[<<i, j>>] <= t[<<i, j - 1>>] + 1
                 /\ t[<<i, j>>] <= t[<<i - 1, j - 1>>] + d
  <2> DEFINE d == IF a[i] = b[j] THEN 0 ELSE 1
             x == row[i - 1][j] + 1  y == row[i][j - 1] + 1  z == row[i - 1][j - 1] + d
  <2>1. i \in 0..N /\ i - 1 \in 0..N /\ j \in 0..M /\ j - 1 \in 0..M
    BY <1>1
  <2>2. x = t[<<i - 1, j>>] + 1 /\ y = t[<<i, j - 1>>] + 1 /\ z = t[<<i - 1, j - 1>>] + d
    BY <1>3, <2>1
  <2>3. x \in Int /\ y \in Int /\ z \in Int
    <3>1. row[i - 1][j] \in Nat /\ row[i][j - 1] \in Nat /\ row[i - 1][j - 1] \in Nat
      BY <1>3, <2>1
    <3>2. d \in Nat /\ 1 \in Nat /\ \A u, v \in Nat : u + v \in Int
      OBVIOUS
    <3> HIDE DEF d
    <3> QED BY <3>1, <3>2, Zenon
  <2>4. t[<<i, j>>] = Min({x, y, z})
    BY <1>2, <1>3, <2>1
  <2> HIDE DEF x, y, z
  <2>5. /\ Min({x, y, z}) \in {x, y, z}
        /\ Min({x, y, z}) <= x /\ Min({x, y, z}) <= y /\ Min({x, y, z}) <= z
    BY <2>3, LeastOfThree
  <2> QED BY <2>2, <2>4, <2>5
<1> QED BY <1>4, <1>5, <1>6, <1>7 DEF Table, t, N, M, row

LEMMA TurnedTable ==
    ASSUME NEW a \in Seq(Words), NEW b \in Seq(Words), NEW t, Table(t, a, b)
    PROVE  Table([x \in (0..Len(b)) \X (0..Len(a)) |-> t[<<x[2], x[1]>>]], b, a)
<1> DEFINE u == [x \in (0..Len(b)) \X (0..Len(a)) |-> t[<<x[2], x[1]>>]]
<1>1. \A j \in 0..Len(b), i \in 0..Len(a) : u[<<j, i>>] = t[<<i, j>>]
  OBVIOUS
<1>2. u \in [(0..Len(b)) \X (0..Len(a)) -> Nat]
  BY DEF Table
<1> HIDE DEF u
<1>3. Len(a) \in Nat /\ Len(b) \in Nat
  OBVIOUS
<1>4. /\ \A j \in 0..Len(b) : u[<<j, 0>>] = j
      /\ \A i \in 0..Len(a) : u[<<0, i>>] = i
  <2>1. 0 \in 0..Len(a) /\ 0 \in 0..Len(b)
    BY <1>3
  <2>2. /\ \A j \in 0..Len(b) : t[<<0, j>>] = j
        /\ \A i \in 0..Len(a) : t[<<i, 0>>] = i
    BY DEF Table
  <2> QED BY <1>1, <2>1, <2>2
<1>6. ASSUME NEW j \in 1..Len(b), NEW i \in 1..Len(a)
      PROVE  LET d == IF b[j] = a[i] THEN 0 ELSE 1
             IN  /\ u[<<j, i>>] \in {u[<<j - 1, i>>] + 1, u[<<j, i - 1>>] + 1,
                                     u[<<j - 1, i - 1>>] + d}
                 /\ u[<<j, i>>] <= u[<<j - 1, i>>] + 1
                 /\ u[<<j, i>>] <= u[<<j, i - 1>>] + 1
                 /\ u[<<j, i>>] <= u[<<j - 1, i - 1>>] + d
  <2>1. i \in 0..Len(a) /\ i - 1 \in 0..Len(a) /\ j \in 0..Len(b) /\ j - 1 \in 0..Len(b)
    BY <1>3
  <2>2. /\ u[<<j, i>>] = t[<<i, j>>] /\ u[<<j - 1, i>>] = t[<<i, j - 1>>]
        /\ u[<<j, i - 1>>] = t[<<i - 1, j>>] /\ u[<<j - 1, i - 1>>] = t[<<i - 1, j - 1>>]
    BY <1>1, <2>1
  <2> DEFINE d == IF a[i] = b[j] THEN 0 ELSE 1
  <2>3. /\ t[<<i, j>>] \in {t[<<i - 1, j>>] + 1, t[<<i, j - 1>>] + 1, t[<<i - 1, j - 1>>] + d}
        /\ t[<<i, j>>] <= t[<<i - 1, j>>] + 1
        /\ t[<<i, j>>] <= t[<<i, j - 1>>] + 1
        /\ t[<<i, j>>] <= t[<<i - 1, j - 1>>] + d
    BY DEF Table
  <2>4. d = IF b[j] = a[i] THEN 0 ELSE 1
    OBVIOUS
  <2> HIDE DEF d
  <2> QED BY <2>2, <2>3, <2>4
<1> QED BY <1>2, <1>4, <1>6 DEF Table, u

-----------------------------------------------------------------------------
(* Alignments of the first p words of one text and the first q of another. *)
LEMMA AlignmentIs ==
    ASSUME NEW p \in Nat, NEW q \in Nat, NEW m
    PROVE  m \in Alignments(p, q) <=> /\ DOMAIN m \subseteq 1..p
                                      /\ m \in [DOMAIN m -> 1..q] /\ Ordered(m)
BY DEF Alignments

LEMMA EditsAreNumbers ==
    ASSUME NEW a, NEW b, NEW p \in Nat, NEW q \in Nat, NEW m \in Alignments(p, q)
    PROVE  /\ IsFiniteSet(DOMAIN m) /\ Cardinality(DOMAIN m) \in Nat
           /\ IsFiniteSet(Replaced(a, b, m))
           /\ Cardinality(Replaced(a, b, m)) \in Nat
           /\ Edits(a, b, p, q, m) \in Int
<1> DEFINE D == DOMAIN m  X == Replaced(a, b, m)
<1>1. D \subseteq 1..p
  BY AlignmentIs
<1>2. IsFiniteSet(1..p)
  <2>1. 1 \in Int /\ p \in Int
    OBVIOUS
  <2> QED BY <2>1, FS_Interval
<1>3. IsFiniteSet(D) /\ IsFiniteSet(X)
  <2>1. X \subseteq D
    BY DEF Replaced
  <2> HIDE DEF D, X
  <2> QED BY <1>1, <1>2, <2>1, FS_Subset
<1>4. Cardinality(D) \in Nat /\ Cardinality(X) \in Nat
  <2> HIDE DEF D, X
  <2> QED BY <1>3, FS_CardinalityType
<1>5. Edits(a, b, p, q, m) = p + q - 2 * Cardinality(D) + Cardinality(X)
  BY DEF Edits
<1>6. Edits(a, b, p, q, m) \in Int
  <2> HIDE DEF D, X
  <2> QED BY <1>4, <1>5
<1> QED BY <1>3, <1>4, <1>6

(* A word more without a partner is one edit more. *)
LEMMA Unpaired ==
    ASSUME NEW a, NEW b, NEW p \in Nat, NEW q \in Nat, NEW m \in Alignments(p, q)
    PROVE  /\ m \in Alignments(p + 1, q) /\ m \in Alignments(p, q + 1)
           /\ Edits(a, b, p + 1, q, m) = Edits(a, b, p, q, m) + 1
           /\ Edits(a, b, p, q + 1, m) = Edits(a, b, p, q, m) + 1
<1>1. DOMAIN m \subseteq 1..p /\ m \in [DOMAIN m -> 1..q] /\ Ordered(m)
  BY AlignmentIs
<1>2. m \in Alignments(p + 1, q) /\ m \in Alignments(p, q + 1)
  <2>1. 1..p \subseteq 1..(p + 1) /\ 1..q \subseteq 1..(q + 1)
    OBVIOUS
  <2>2. m \in [DOMAIN m -> 1..(q + 1)] /\ DOMAIN m \subseteq 1..(p + 1)
    BY <1>1, <2>1
  <2>3. p + 1 \in Nat /\ q + 1 \in Nat
    OBVIOUS
  <2> QED BY <1>1, <2>2, <2>3, AlignmentIs
<1>3. Cardinality(DOMAIN m) \in Nat /\ Cardinality(Replaced(a, b, m)) \in Nat
  BY EditsAreNumbers
<1> DEFINE c == Cardinality(DOMAIN m)  x == Cardinality(Replaced(a, b, m))
<1>4. /\ Edits(a, b, p + 1, q, m) = (p + 1) + q - 2 * c + x
      /\ Edits(a, b, p, q + 1, m) = p + (q + 1) - 2 * c + x
      /\ Edits(a, b, p, q, m) = p + q - 2 * c + x
  BY DEF Edits
<1>5. /\ Edits(a, b, p + 1, q, m) = Edits(a, b, p, q, m) + 1
      /\ Edits(a, b, p, q + 1, m) = Edits(a, b, p, q, m) + 1
  <2>1. c \in Nat /\ x \in Nat
    BY <1>3
  <2> HIDE DEF c, x
  <2> QED BY <1>4, <2>1
<1> QED BY <1>2, <1>5

(* Two last words that are paired cost one edit if they differ. *)
Without(m, i) == [j \in DOMAIN m \ {i} |-> m[j]]

LEMMA LastPaired ==
    ASSUME NEW a, NEW b, NEW p \in Nat, NEW q \in Nat, NEW m \in Alignments(p + 1, q + 1),
           p + 1 \in DOMAIN m, m[p + 1] = q + 1
    PROVE  /\ Without(m, p + 1) \in Alignments(p, q)
           /\ Edits(a, b, p + 1, q + 1, m) = Edits(a, b, p, q, Without(m, p + 1))
                                             + (IF a[p + 1] = b[q + 1] THEN 0 ELSE 1)
<1> DEFINE D == DOMAIN m  E == D \ {p + 1}
           r == [i \in E |-> m[i]]
           d == IF a[p + 1] = b[q + 1] THEN 0 ELSE 1
           X == Replaced(a, b, m)  Y == Replaced(a, b, r)
<1>1. D \subseteq 1..(p + 1) /\ m \in [D -> 1..(q + 1)] /\ Ordered(m)
  BY AlignmentIs
<1>2. r \in Alignments(p, q)
  <2>1. \A i \in E : i \in 1..p /\ i < p + 1 /\ i \in D
    BY <1>1
  <2>2. ASSUME NEW i \in E PROVE r[i] \in 1..q
    <3>1. m[i] < q + 1 /\ m[i] \in 1..(q + 1)
      BY <1>1, <2>1 DEF Ordered
    <3> QED BY <3>1
  <2>3. DOMAIN r = E /\ r \in [E -> 1..q] /\ Ordered(r)
    BY <1>1, <2>2 DEF Ordered
  <2>4. E \subseteq 1..p
    BY <2>1
  <2> HIDE DEF r, E
  <2> QED BY <2>3, <2>4, AlignmentIs
<1>3. /\ IsFiniteSet(D) /\ Cardinality(D) \in Nat /\ IsFiniteSet(X) /\ Cardinality(X) \in Nat
  <2>1. p + 1 \in Nat /\ q + 1 \in Nat
    OBVIOUS
  <2> QED BY <2>1, EditsAreNumbers
<1>4. DOMAIN r = E /\ E = D \ {p + 1} /\ p + 1 \in D
  OBVIOUS
<1>5. Cardinality(E) = Cardinality(D) - 1
  <2> HIDE DEF D, E
  <2> QED BY <1>3, <1>4, FS_RemoveElement
<1>6. Cardinality(Y) = Cardinality(X) - d
  <2>1. CASE a[p + 1] = b[q + 1]
    <3>1. X = Y /\ d = 0
      BY <2>1 DEF Replaced
    <3> HIDE DEF X, Y, d
    <3> QED BY <1>3, <3>1
  <2>2. CASE a[p + 1] # b[q + 1]
    <3>1. Y = X \ {p + 1} /\ p + 1 \in X /\ d = 1
      BY <2>2 DEF Replaced
    <3> HIDE DEF X, Y, d
    <3> QED BY <1>3, <3>1, FS_RemoveElement
  <2> QED BY <2>1, <2>2
<1>7. Edits(a, b, p + 1, q + 1, m) = (p + 1) + (q + 1) - 2 * Cardinality(D) + Cardinality(X)
  BY DEF Edits
<1>8. Edits(a, b, p, q, r) = p + q - 2 * Cardinality(E) + Cardinality(Y)
  <2> HIDE DEF E
  <2>1. DOMAIN r = E
    OBVIOUS
  <2> HIDE DEF r
  <2> QED BY <2>1 DEF Edits
<1>9. d \in Nat
  OBVIOUS
<1>10. Edits(a, b, p + 1, q + 1, m) = Edits(a, b, p, q, r) + d
  <2> HIDE DEF D, E, X, Y, d, r
  <2> QED BY <1>3, <1>5, <1>6, <1>7, <1>8, <1>9
<1>11. r = Without(m, p + 1)
  BY DEF Without
<1> HIDE DEF r
<1> QED BY <1>2, <1>10, <1>11 DEF d

(* Any alignment can be continued by a pair. *)
LEMMA PairAdded ==
    ASSUME NEW a, NEW b, NEW p \in Nat, NEW q \in Nat, NEW r \in Alignments(p, q)
    PROVE  \E m \in Alignments(p + 1, q + 1) :
              Edits(a, b, p + 1, q + 1, m)
                = Edits(a, b, p, q, r) + (IF a[p + 1] = b[q + 1] THEN 0 ELSE 1)
<1> DEFINE D == DOMAIN r \cup {p + 1}
           m == [i \in D |-> IF i = p + 1 THEN q + 1 ELSE r[i]]
<1>1. DOMAIN r \subseteq 1..p /\ r \in [DOMAIN r -> 1..q] /\ Ordered(r)
  BY AlignmentIs
<1>2. p + 1 \notin DOMAIN r
  BY <1>1
<1>3. D \subseteq 1..(p + 1) /\ DOMAIN m = D /\ m \in [D -> 1..(q + 1)]
  <2>1. ASSUME NEW i \in D PROVE i \in 1..(p + 1) /\ m[i] \in 1..(q + 1)
    <3>1. CASE i = p + 1
      BY <3>1
    <3>2. CASE i # p + 1
      <4>1. i \in DOMAIN r /\ r[i] \in 1..q /\ i \in 1..p
        BY <1>1, <3>2
      <4> QED BY <3>2, <4>1
    <3> QED BY <3>1, <3>2
  <2> QED BY <2>1
<1>4. Ordered(m)
  <2>1. ASSUME NEW i \in D, NEW j \in D, i < j PROVE m[i] < m[j]
    <3>1. i \in 1..(p + 1) /\ j \in 1..(p + 1)
      BY <1>3
    <3>2. i # p + 1 /\ i \in DOMAIN r /\ r[i] \in 1..q
      BY <1>1, <2>1, <3>1
    <3>3. CASE j = p + 1
      BY <3>2, <3>3
    <3>4. CASE j # p + 1
      BY <1>1, <2>1, <3>2, <3>4 DEF Ordered
    <3> QED BY <3>3, <3>4
  <2> QED BY <1>3, <2>1 DEF Ordered
<1>5. m \in Alignments(p + 1, q + 1) /\ p + 1 \in DOMAIN m /\ m[p + 1] = q + 1
  <2>1. p + 1 \in Nat /\ q + 1 \in Nat
    OBVIOUS
  <2>2. p + 1 \in D /\ m[p + 1] = q + 1
    OBVIOUS
  <2> HIDE DEF m, D
  <2> QED BY <1>3, <1>4, <2>1, <2>2, AlignmentIs
<1>6. r = Without(m, p + 1)
  <2>1. DOMAIN m \ {p + 1} = DOMAIN r
    BY <1>2
  <2>2. \A i \in DOMAIN r : m[i] = r[i]
    BY <1>2
  <2>3. r = [i \in DOMAIN r |-> r[i]]
    BY <1>1
  <2> HIDE DEF m
  <2> QED BY <2>1, <2>2, <2>3 DEF Without
<1> HIDE DEF m
<1>7. Edits(a, b, p + 1, q + 1, m)
        = Edits(a, b, p, q, r) + (IF a[p + 1] = b[q + 1] THEN 0 ELSE 1)
  BY <1>5, <1>6, LastPaired
<1> QED BY <1>5, <1>7

(* A place of a table holds the least number of edits. *)
Exact(t, a, b, i, j) ==
    /\ \E m \in Alignments(i, j) : Edits(a, b, i, j, m) = t[<<i, j>>]
    /\ \A m \in Alignments(i, j) : t[<<i, j>>] <= Edits(a, b, i, j, m)

LEMMA EdgeExact ==
    ASSUME NEW a \in Seq(Words), NEW b \in Seq(Words), NEW t, Table(t, a, b)
    PROVE  /\ \A i \in 0..Len(a) : Exact(t, a, b, i, 0)
           /\ \A j \in 0..Len(b) : Exact(t, a, b, 0, j)
<1> DEFINE none == [x \in {} |-> 0]
<1>1. Len(a) \in Nat /\ Len(b) \in Nat
  OBVIOUS
<1>2. \A p \in Nat, q \in Nat : none \in Alignments(p, q)
  <2>1. \A q \in Nat : DOMAIN none = {} /\ none \in [{} -> 1..q] /\ Ordered(none)
    BY DEF Ordered
  <2> QED BY <2>1, AlignmentIs
<1>3. ASSUME NEW p \in Nat, NEW q \in Nat, p = 0 \/ q = 0, NEW m \in Alignments(p, q)
      PROVE  Edits(a, b, p, q, m) = p + q
  <2>1. DOMAIN m \subseteq 1..p /\ m \in [DOMAIN m -> 1..q]
    BY AlignmentIs
  <2>2. DOMAIN m = {}
    <3>1. CASE p = 0
      <4>1. 1..p = {}
        BY <3>1
      <4> QED BY <2>1, <4>1
    <3>2. CASE q = 0
      <4>1. 1..q = {}
        BY <3>2
      <4> QED BY <2>1, <4>1
    <3> QED BY <1>3, <3>1, <3>2
  <2>3. Replaced(a, b, m) = {}
    BY <2>2 DEF Replaced
  <2> QED BY <2>2, <2>3, FS_EmptySet DEF Edits
<1> HIDE DEF none
<1>4. ASSUME NEW i \in 0..Len(a) PROVE Exact(t, a, b, i, 0)
  <2>1. t[<<i, 0>>] = i /\ i \in Nat
    BY <1>1 DEF Table
  <2>2. \A m \in Alignments(i, 0) : Edits(a, b, i, 0, m) = i
    <3> TAKE m \in Alignments(i, 0)
    <3>1. Edits(a, b, i, 0, m) = i + 0
      BY <1>3, <2>1
    <3> QED BY <2>1, <3>1
  <2>3. none \in Alignments(i, 0)
    BY <1>2, <2>1
  <2> QED BY <2>1, <2>2, <2>3 DEF Exact
<1>5. ASSUME NEW j \in 0..Len(b) PROVE Exact(t, a, b, 0, j)
  <2>1. t[<<0, j>>] = j /\ j \in Nat
    BY <1>1 DEF Table
  <2>2. \A m \in Alignments(0, j) : Edits(a, b, 0, j, m) = j
    <3> TAKE m \in Alignments(0, j)
    <3>1. Edits(a, b, 0, j, m) = 0 + j
      BY <1>3, <2>1
    <3> QED BY <2>1, <3>1
  <2>3. none \in Alignments(0, j)
    BY <1>2, <2>1
  <2> QED BY <2>1, <2>2, <2>3 DEF Exact
<1> QED BY <1>4, <1>5

LEMMA InnerExact ==
    ASSUME NEW a \in Seq(Words), NEW b \in Seq(Words), NEW t, Table(t, a, b),
           NEW p \in Nat, NEW q \in Nat, p + 1 <= Len(a), q + 1 <= Len(b),
           Exact(t, a, b, p, q), Exact(t, a, b, p + 1, q), Exact(t, a, b, p, q + 1)
    PROVE  Exact(t, a, b, p + 1, q + 1)
<1> DEFINE d == IF a[p + 1] = b[q + 1] THEN 0 ELSE 1
           v == t[<<p + 1, q + 1>>]
           x == t[<<p, q + 1>>]  y == t[<<p + 1, q>>]  z == t[<<p, q>>]
<1>1. Len(a) \in Nat /\ Len(b) \in Nat
  OBVIOUS
<1>2. /\ p \in 0..Len(a) /\ p + 1 \in 1..Len(a) /\ p + 1 \in 0..Len(a) /\ (p + 1) - 1 = p
      /\ q \in 0..Len(b) /\ q + 1 \in 1..Len(b) /\ q + 1 \in 0..Len(b) /\ (q + 1) - 1 = q
  BY <1>1
<1>3. v \in Nat /\ x \in Nat /\ y \in Nat /\ z \in Nat /\ d \in Nat
  BY <1>2 DEF Table
<1>4. v \in {x + 1, y + 1, z + d} /\ v <= x + 1 /\ v <= y + 1 /\ v <= z + d
  <2>1. LET i == p + 1
            j == q + 1
        IN  /\ t[<<i, j>>] \in {t[<<i - 1, j>>] + 1, t[<<i, j - 1>>] + 1, t[<<i - 1, j - 1>>] + d}
            /\ t[<<i, j>>] <= t[<<i - 1, j>>] + 1
            /\ t[<<i, j>>] <= t[<<i, j - 1>>] + 1
            /\ t[<<i, j>>] <= t[<<i - 1, j - 1>>] + d
    BY <1>2 DEF Table
  <2> QED BY <1>2, <2>1
<1> HIDE DEF v, x, y, z, d
<1>5. \E m \in Alignments(p + 1, q + 1) : Edits(a, b, p + 1, q + 1, m) = v
  <2>1. CASE v = x + 1
    <3>1. PICK m \in Alignments(p, q + 1) : Edits(a, b, p, q + 1, m) = x
      BY DEF Exact, x
    <3>2. m \in Alignments(p + 1, q + 1) /\ Edits(a, b, p + 1, q + 1, m) = x + 1
      BY <1>2, <3>1, Unpaired
    <3> QED BY <2>1, <3>2
  <2>2. CASE v = y + 1
    <3>1. PICK m \in Alignments(p + 1, q) : Edits(a, b, p + 1, q, m) = y
      BY DEF Exact, y
    <3>2. m \in Alignments(p + 1, q + 1) /\ Edits(a, b, p + 1, q + 1, m) = y + 1
      BY <1>2, <3>1, Unpaired
    <3> QED BY <2>2, <3>2
  <2>3. CASE v = z + d
    <3>1. PICK r \in Alignments(p, q) : Edits(a, b, p, q, r) = z
      BY DEF Exact, z
    <3>2. PICK m \in Alignments(p + 1, q + 1) :
              Edits(a, b, p + 1, q + 1, m) = Edits(a, b, p, q, r) + d
      BY PairAdded DEF d
    <3> QED BY <2>3, <3>1, <3>2
  <2> QED BY <1>4, <2>1, <2>2, <2>3
<1>6. ASSUME NEW m \in Alignments(p + 1, q + 1) PROVE v <= Edits(a, b, p + 1, q + 1, m)
  <2>1. DOMAIN m \subseteq 1..(p + 1) /\ m \in [DOMAIN m -> 1..(q + 1)] /\ Ordered(m)
    BY <1>2, AlignmentIs
  <2>2. CASE p + 1 \notin DOMAIN m
    <3>1. m \in Alignments(p, q + 1)
      <4>1. DOMAIN m \subseteq 1..p
        BY <2>1, <2>2
      <4> QED BY <1>2, <2>1, <4>1, AlignmentIs
    <3>2. x <= Edits(a, b, p, q + 1, m)
      BY <3>1 DEF Exact, x
    <3>3. /\ Edits(a, b, p + 1, q + 1, m) = Edits(a, b, p, q + 1, m) + 1
          /\ Edits(a, b, p, q + 1, m) \in Int
      BY <1>2, <3>1, Unpaired, EditsAreNumbers
    <3> QED BY <1>3, <1>4, <3>2, <3>3
  <2>3. CASE p + 1 \in DOMAIN m /\ m[p + 1] # q + 1
    <3>1. m \in Alignments(p + 1, q)
      <4>1. ASSUME NEW i \in DOMAIN m PROVE m[i] \in 1..q
        <5>1. m[i] \in 1..(q + 1) /\ m[p + 1] \in 1..(q + 1) /\ i \in 1..(p + 1)
          BY <2>1, <2>3
        <5>2. i = p + 1 \/ m[i] < m[p + 1]
          BY <2>1, <2>3, <5>1 DEF Ordered
        <5> QED BY <2>3, <5>1, <5>2
      <4>2. m \in [DOMAIN m -> 1..q]
        BY <2>1, <4>1
      <4>3. p + 1 \in Nat
        OBVIOUS
      <4> QED BY <2>1, <4>2, <4>3, AlignmentIs
    <3>2. y <= Edits(a, b, p + 1, q, m)
      BY <3>1 DEF Exact, y
    <3>3. /\ Edits(a, b, p + 1, q + 1, m) = Edits(a, b, p + 1, q, m) + 1
          /\ Edits(a, b, p + 1, q, m) \in Int
      BY <1>2, <3>1, Unpaired, EditsAreNumbers
    <3> QED BY <1>3, <1>4, <3>2, <3>3
  <2>4. CASE p + 1 \in DOMAIN m /\ m[p + 1] = q + 1
    <3> DEFINE r == Without(m, p + 1)
    <3>1. r \in Alignments(p, q) /\ Edits(a, b, p + 1, q + 1, m) = Edits(a, b, p, q, r) + d
      BY <2>4, LastPaired DEF d
    <3> HIDE DEF r
    <3>2. z <= Edits(a, b, p, q, r) /\ Edits(a, b, p, q, r) \in Int
      BY <3>1, EditsAreNumbers DEF Exact, z
    <3> QED BY <1>3, <1>4, <3>1, <3>2
  <2> QED BY <2>2, <2>3, <2>4
<1> QED BY <1>5, <1>6 DEF Exact, v

LEMMA TableExact ==
    ASSUME NEW a \in Seq(Words), NEW b \in Seq(Words), NEW t, Table(t, a, b)
    PROVE  \A i \in 0..Len(a), j \in 0..Len(b) : Exact(t, a, b, i, j)
<1> DEFINE N == Len(a)  M == Len(b)
           Line(i) == \A j \in 0..M : Exact(t, a, b, i, j)
           T == {i \in Nat : i <= N => Line(i)}
<1>1. N \in Nat /\ M \in Nat
  OBVIOUS
<1>2. 0 \in T
  BY EdgeExact
<1>3. ASSUME NEW i \in Nat, i \in T, i + 1 <= N PROVE Line(i + 1)
  <2> DEFINE U == {j \in Nat : j <= M => Exact(t, a, b, i + 1, j)}
  <2>1. 0 \in U
    <3>1. i + 1 \in 0..N
      BY <1>1, <1>3
    <3> QED BY <3>1, EdgeExact
  <2>2. ASSUME NEW j \in Nat, j \in U, j + 1 <= M PROVE Exact(t, a, b, i + 1, j + 1)
    <3>1. Exact(t, a, b, i, j) /\ Exact(t, a, b, i, j + 1) /\ Exact(t, a, b, i + 1, j)
      <4>1. j \in 0..M /\ j + 1 \in 0..M
        BY <1>1, <2>2
      <4> QED BY <1>1, <1>3, <2>2, <4>1
    <3> QED BY <1>3, <2>2, <3>1, InnerExact
  <2>3. \A j \in Nat : j \in U => j + 1 \in U
    BY <2>2
  <2>4. Nat \subseteq U
    <3> HIDE DEF U
    <3> QED BY <2>1, <2>3, Induction
  <2> QED BY <1>1, <2>4
<1>4. \A i \in Nat : i \in T => i + 1 \in T
  BY <1>3
<1>5. Nat \subseteq T
  <2> HIDE DEF T
  <2> QED BY <1>2, <1>4, Induction
<1> QED BY <1>1, <1>5

(* What a table has in its last place is the least number of edits. *)
LEMMA TableIsLeast ==
    ASSUME NEW a \in Seq(Words), NEW b \in Seq(Words), NEW t, Table(t, a, b)
    PROVE  t[<<Len(a), Len(b)>>] = LeastEdits(a, b) /\ LeastEdits(a, b) \in Nat
<1> DEFINE p == Len(a)  q == Len(b)  v == t[<<p, q>>]
           S == {Edits(a, b, p, q, m) : m \in Alignments(p, q)}
<1>1. p \in Nat /\ q \in Nat /\ p \in 0..p /\ q \in 0..q
  OBVIOUS
<1>2. Exact(t, a, b, p, q) /\ v \in Nat
  BY <1>1, TableExact DEF Table
<1>3. LeastEdits(a, b) = Min(S)
  BY DEF LeastEdits
<1> HIDE DEF p, q
<1>4. S \subseteq Int
  BY <1>1, EditsAreNumbers
<1>5. v \in S /\ \A y \in S : v <= y
  BY <1>2 DEF Exact
<1> HIDE DEF S, v
<1>6. Min(S) = v
  BY <1>4, <1>5, LeastIs
<1> QED BY <1>2, <1>3, <1>6 DEF v, p, q

(* The distance of two texts is the least number of edits by which one      *)
(* becomes the other (levenshtein of kv_diff.py).                          *)
THEOREM LevenshteinIsLeast ==
    ASSUME NEW a \in Seq(Words), NEW b \in Seq(Words)
    PROVE  Levenshtein(a, b) = LeastEdits(a, b)
<1> DEFINE tab == [x \in (0..Len(a)) \X (0..Len(b)) |-> Rows(a, b)[x[1]][x[2]]]
           tba == [x \in (0..Len(b)) \X (0..Len(a)) |-> Rows(b, a)[x[1]][x[2]]]
           turned == [x \in (0..Len(a)) \X (0..Len(b)) |-> tba[<<x[2], x[1]>>]]
<1>1. Len(a) \in Nat /\ Len(b) \in Nat
  OBVIOUS
<1>2. /\ tab[<<Len(a), Len(b)>>] = Rows(a, b)[Len(a)][Len(b)]
      /\ turned[<<Len(a), Len(b)>>] = Rows(b, a)[Len(b)][Len(a)]
  BY <1>1
<1>3. Table(tab, a, b) /\ Table(tba, b, a)
  BY RowsAreATable
<1> HIDE DEF tab, tba
<1>4. Table(turned, a, b)
  BY <1>3, TurnedTable
<1> HIDE DEF turned
<1>5. /\ Rows(a, b)[Len(a)][Len(b)] = LeastEdits(a, b)
      /\ Rows(b, a)[Len(b)][Len(a)] = LeastEdits(a, b)
  BY <1>2, <1>3, <1>4, TableIsLeast
<1>6. ASSUME a = b PROVE LeastEdits(a, b) = 0
  <2> DEFINE p == Len(a)  m == [i \in 1..p |-> i]
  <2>1. p \in Nat /\ Len(b) = p
    BY <1>6
  <2>2. m \in Alignments(p, p)
    <3>1. DOMAIN m \subseteq 1..p /\ m \in [DOMAIN m -> 1..p] /\ Ordered(m)
      BY DEF Ordered
    <3> HIDE DEF m, p
    <3> QED BY <2>1, <3>1, AlignmentIs
  <2>3. Edits(a, b, p, p, m) = 0
    <3>1. Replaced(a, b, m) = {}
      BY <1>6 DEF Replaced
    <3>2. Cardinality(DOMAIN m) = p
      <4>1. DOMAIN m = 1..p /\ 1 \in Int /\ p \in Int /\ ~(1 > p) => p - 1 + 1 = p
        BY <2>1
      <4>2. DOMAIN m = 1..p /\ 1 \in Int /\ p \in Int
        BY <2>1
      <4>3. Cardinality(1..p) = IF 1 > p THEN 0 ELSE p - 1 + 1
        BY <4>2, FS_Interval
      <4> HIDE DEF m, p
      <4> QED BY <2>1, <4>2, <4>3
    <3> HIDE DEF m, p
    <3>3. Edits(a, b, p, p, m) = p + p - 2 * p + 0
      BY <3>1, <3>2, FS_EmptySet DEF Edits
    <3> QED BY <2>1, <3>3
  <2> HIDE DEF m
  <2>4. Exact(tab, a, b, p, p) /\ tab[<<p, p>>] \in Nat
    <3>1. p \in 0..Len(a) /\ p \in 0..Len(b)
      BY <2>1
    <3> QED BY <1>3, <3>1, TableExact DEF Table
  <2>5. tab[<<p, p>>] = 0
    BY <2>2, <2>3, <2>4 DEF Exact
  <2>6. tab[<<p, p>>] = LeastEdits(a, b)
    BY <1>2, <1>5, <2>1
  <2> QED BY <2>5, <2>6
<1> QED BY <1>5, <1>6 DEF Levenshtein

-----------------------------------------------------------------------------
(* The loop of corruption_flags that counts equal words in a row. *)
LEMMA RunsAre ==
    ASSUME NEW t \in Seq(Words)
    PROVE  \A i \in 1..Len(t) :
              /\ RunLengths(t)[i] \in Nat
              /\ RunLengths(t)[i] = IF i > 1 /\ t[i] = t[i - 1]
                                    THEN RunLengths(t)[i - 1] + 1 ELSE 1
<1> DEFINE N == Len(t)
           step == [x \in (1..N) \X Nat |->
                       IF x[1] > 1 /\ t[x[1]] = t[x[1] - 1] THEN x[2] + 1 ELSE 1]
           Eq(g) == g = [i \in DOMAIN t |-> IF i > 1 /\ t[i] = t[i - 1] THEN g[i - 1] + 1 ELSE 1]
<1>1. N \in Nat /\ DOMAIN t = 1..N
  OBVIOUS
<1> HIDE DEF N
<1>2. step \in [(1..N) \X Nat -> Nat]
  OBVIOUS
<1>3. \A i \in 1..N, v \in Nat : step[<<i, v>>] = IF i > 1 /\ t[i] = t[i - 1] THEN v + 1 ELSE 1
  OBVIOUS
<1> HIDE DEF step
<1>4. PICK f \in [0..N -> Nat] : Computes(f, 0, step, N)
  BY <1>1, <1>2, LoopExists
<1> DEFINE g == [i \in 1..N |-> f[i]]
<1>5. \A i \in 1..N : g[i] = f[i] /\ i \in 0..N /\ i - 1 \in 0..N /\ (i > 1 => i - 1 \in 1..N)
  BY <1>1
<1>6. g = [i \in 1..N |-> g[i]]
  OBVIOUS
<1> HIDE DEF g
<1>7. ASSUME NEW i \in 1..N
      PROVE  g[i] = IF i > 1 /\ t[i] = t[i - 1] THEN g[i - 1] + 1 ELSE 1
  <2>1. f[i] = step[<<i, f[i - 1]>>] /\ f[i - 1] \in Nat
    BY <1>4, <1>5 DEF Computes
  <2>2. f[i] = IF i > 1 /\ t[i] = t[i - 1] THEN f[i - 1] + 1 ELSE 1
    BY <1>3, <2>1
  <2> QED BY <1>5, <2>2
<1>8. Eq(g)
  BY <1>1, <1>6, <1>7
<1> DEFINE run == CHOOSE h : Eq(h)
<1>9. Eq(run)
  <2> HIDE DEF Eq
  <2> QED BY <1>8
<1>10. run = RunLengths(t)
  BY DEF RunLengths, Eq
<1> HIDE DEF run
<1>11. \A i \in 1..N : run[i] = IF i > 1 /\ t[i] = t[i - 1] THEN run[i - 1] + 1 ELSE 1
  BY <1>1, <1>9
<1>12. \A i \in 1..N : run[i] \in Nat
  <2> DEFINE T == {n \in Nat : n \in 1..N => run[n] \in Nat}
  <2>1. 0 \in T
    OBVIOUS
  <2>2. ASSUME NEW n \in Nat, n \in T PROVE n + 1 \in T
    <3>1. CASE n + 1 \in 1..N
      <4>1. run[n + 1] = IF n + 1 > 1 /\ t[n + 1] = t[n] THEN run[n] + 1 ELSE 1
        BY <1>11, <3>1
      <4>2. n + 1 > 1 => n \in 1..N
        BY <1>1, <3>1
      <4>3. run[n + 1] \in Nat
        BY <2>2, <4>1, <4>2
      <4> QED BY <4>3
    <3> QED BY <3>1
  <2>3. Nat \subseteq T
    <3>1. \A n \in Nat : n \in T => n + 1 \in T
      BY <2>2
    <3> HIDE DEF T
    <3> QED BY <2>1, <3>1, Induction
  <2> QED BY <1>1, <2>3
<1> QED BY <1>10, <1>11, <1>12 DEF N

(* Words i..i+c-1 of t: from the n-th on each is the one n places in front  *)
(* of it; and one of the first n is not punctuation.                       *)
Periodic(t, n, i, c) == \A j \in (i + n)..(i + c - 1) : t[j] = t[j - n]
Wordy(t, n, i) == \E j \in i..(i + n - 1) : t[j] \notin Punct

LEMMA RunIsPeriodic ==
    ASSUME NEW t \in Seq(Words), NEW e \in 1..Len(t)
    PROVE  /\ RunLengths(t)[e] \in 1..e
           /\ \A k \in (e - RunLengths(t)[e] + 1)..e : t[k] = t[e]
<1> DEFINE N == Len(t)  run == RunLengths(t)
           Good(i) == run[i] \in 1..i /\ \A k \in (i - run[i] + 1)..i : t[k] = t[i]
           T == {n \in Nat : n \in 1..N => Good(n)}
<1>1. N \in Nat /\ \A i \in 1..N : /\ run[i] \in Nat
                                   /\ run[i] = IF i > 1 /\ t[i] = t[i - 1] THEN run[i - 1] + 1 ELSE 1
  BY RunsAre
<1> HIDE DEF N, run
<1>2. ASSUME NEW n \in Nat, n \in T, n + 1 \in 1..N PROVE Good(n + 1)
  <2>1. run[n + 1] = IF n + 1 > 1 /\ t[n + 1] = t[n] THEN run[n] + 1 ELSE 1
    BY <1>1, <1>2
  <2>2. CASE n + 1 > 1 /\ t[n + 1] = t[n]
    <3>1. n \in 1..N /\ Good(n)
      BY <1>1, <1>2, <2>2
    <3>2. run[n + 1] = run[n] + 1 /\ run[n] \in 1..n
      BY <2>1, <2>2, <3>1
    <3>3. ASSUME NEW k \in ((n + 1) - run[n + 1] + 1)..(n + 1) PROVE t[k] = t[n + 1]
      <4>1. CASE k = n + 1
        BY <4>1
      <4>2. CASE k # n + 1
        <5>1. k \in (n - run[n] + 1)..n
          BY <3>2, <4>2
        <5> QED BY <2>2, <3>1, <5>1
      <4> QED BY <4>1, <4>2
    <3> QED BY <3>2, <3>3
  <2>3. CASE ~(n + 1 > 1 /\ t[n + 1] = t[n])
    <3>1. run[n + 1] = 1
      BY <2>1, <2>3
    <3>2. \A k \in ((n + 1) - run[n + 1] + 1)..(n + 1) : k = n + 1
      BY <3>1
    <3> QED BY <3>1, <3>2
  <2> QED BY <2>2, <2>3
<1>3. 0 \in T /\ \A n \in Nat : n \in T => n + 1 \in T
  <2> HIDE DEF Good
  <2> QED BY <1>2
<1>4. Nat \subseteq T
  <2> HIDE DEF T
  <2> QED BY <1>3, Induction
<1> QED BY <1>1, <1>4 DEF N, run

LEMMA PeriodicIsRun ==
    ASSUME NEW t \in Seq(Words), NEW i \in 1..Len(t), NEW c \in Nat \ {0},
           i + c - 1 <= Len(t), Periodic(t, 1, i, c)
    PROVE  RunLengths(t)[i + c - 1] >= c /\ t[i + c - 1] = t[i]
<1> DEFINE N == Len(t)  run == RunLengths(t)
           T == {n \in Nat : n < c => run[i + n] >= n + 1 /\ t[i + n] = t[i]}
<1>1. N \in Nat /\ \A k \in 1..N : /\ run[k] \in Nat
                                   /\ run[k] = IF k > 1 /\ t[k] = t[k - 1] THEN run[k - 1] + 1 ELSE 1
  BY RunsAre
<1> HIDE DEF run
<1>2. 0 \in T
  <2>1. run[i] = (IF i > 1 /\ t[i] = t[i - 1] THEN run[i - 1] + 1 ELSE 1) /\ run[i] \in Nat
    BY <1>1
  <2>2. i > 1 => i - 1 \in 1..N
    BY <1>1
  <2>3. run[i] >= 1
    BY <1>1, <2>1, <2>2
  <2>4. i + 0 = i
    OBVIOUS
  <2> QED BY <2>3, <2>4
<1>3. ASSUME NEW n \in Nat, n \in T, n + 1 < c PROVE n + 1 \in T
  <2>1. i + (n + 1) \in 1..N /\ i + n \in 1..N /\ (i + (n + 1)) - 1 = i + n /\ i + (n + 1) > 1
    BY <1>1, <1>3
  <2>2. t[i + (n + 1)] = t[i + n]
    <3>1. i + (n + 1) \in (i + 1)..(i + c - 1)
      BY <1>3
    <3> QED BY <2>1, <3>1 DEF Periodic
  <2>3. run[i + (n + 1)] = run[i + n] + 1 /\ run[i + n] \in Nat
    BY <1>1, <2>1, <2>2
  <2>4. run[i + n] >= n + 1 /\ t[i + n] = t[i]
    BY <1>3
  <2> QED BY <2>2, <2>3, <2>4
<1>4. Nat \subseteq T
  <2>1. \A n \in Nat : n \in T => n + 1 \in T
    BY <1>3
  <2> HIDE DEF T
  <2> QED BY <1>2, <2>1, Induction
<1>5. c - 1 \in Nat /\ i + (c - 1) = i + c - 1 /\ c - 1 < c
  OBVIOUS
<1> QED BY <1>4, <1>5 DEF run

LEMMA TokenRepeats ==
    ASSUME NEW t \in Seq(Words)
    PROVE  RepeatedToken(t) <=>
              \E i \in 1..Len(t) : /\ i + MinTokenRepeat - 1 <= Len(t)
                                   /\ Periodic(t, 1, i, MinTokenRepeat) /\ Wordy(t, 1, i)
<1> DEFINE r == MinTokenRepeat  N == Len(t)
<1>1. r \in Nat /\ r >= 2 /\ N \in Nat
  BY KvDiffAssumption
<1> HIDE DEF r, N
<1>2. ASSUME NEW e \in 2..N, RunLengths(t)[e] >= r, t[e] \notin Punct
      PROVE  \E i \in 1..N : i + r - 1 <= N /\ Periodic(t, 1, i, r) /\ Wordy(t, 1, i)
  <2>1. e \in 1..N
    BY <1>1
  <2>2. /\ RunLengths(t)[e] \in 1..e
        /\ \A k \in (e - RunLengths(t)[e] + 1)..e : t[k] = t[e]
    BY <2>1, RunIsPeriodic DEF N
  <2> DEFINE i == e - r + 1
  <2>3. i \in 1..N /\ i + r - 1 = e /\ \A k \in i..e : k \in (e - RunLengths(t)[e] + 1)..e
    BY <1>1, <1>2, <2>1, <2>2
  <2>4. \A k \in i..e : t[k] = t[e]
    BY <2>2, <2>3
  <2> HIDE DEF i
  <2>5. Periodic(t, 1, i, r)
    <3>1. \A j \in (i + 1)..(i + r - 1) : j \in i..e /\ j - 1 \in i..e
      BY <1>1, <2>3
    <3> QED BY <2>4, <3>1 DEF Periodic
  <2>6. Wordy(t, 1, i)
    <3>1. i \in i..(i + 1 - 1) /\ i \in i..e
      BY <1>1, <2>3
    <3> QED BY <1>2, <2>4, <3>1 DEF Wordy
  <2> QED BY <1>1, <2>1, <2>3, <2>5, <2>6
<1>3. ASSUME NEW i \in 1..N, i + r - 1 <= N, Periodic(t, 1, i, r), Wordy(t, 1, i)
      PROVE  \E e \in 2..N : RunLengths(t)[e] >= r /\ t[e] \notin Punct
  <2>1. RunLengths(t)[i + r - 1] >= r /\ t[i + r - 1] = t[i]
    BY <1>1, <1>3, PeriodicIsRun DEF N
  <2>2. t[i] \notin Punct
    <3>1. \A j \in i..(i + 1 - 1) : j = i
      OBVIOUS
    <3> QED BY <1>3, <3>1 DEF Wordy
  <2>3. i + r - 1 \in 2..N
    BY <1>1, <1>3
  <2> QED BY <2>1, <2>2, <2>3
<1> QED BY <1>2, <1>3 DEF RepeatedToken, r, N

LEMMA Divided ==
    ASSUME NEW y \in Nat, NEW n \in Nat \ {0}
    PROVE  y \div n \in Nat /\ y % n \in 0..(n - 1) /\ y = n * (y \div n) + (y % n)
<1> DEFINE q == y \div n  x == y % n
<1>1. q \in Nat /\ x \in 0..(n - 1) /\ y = n * q + x
  OBVIOUS
<1> QED BY <1>1

LEMMA Times ==
    ASSUME NEW n \in Nat, NEW p \in Int, NEW q \in Int, p <= q
    PROVE  n * p \in Int /\ n * q \in Int /\ n * p <= n * q /\ n * (p + 1) = n * p + n
OBVIOUS

(* Word x of block k is word x of the first one. *)
Blocks(t, n, i, r) ==
    \A k \in 0..(r - 1) : \A x \in 0..(n - 1) : t[i + n * k + x] = t[i + x]

(* Where block k is. *)
LEMMA BlockPlace ==
    ASSUME NEW n \in Nat \ {0}, NEW r \in Nat \ {0}, NEW i \in Nat \ {0}, NEW N \in Nat,
           i + n * r - 1 <= N, NEW k \in 0..(r - 1)
    PROVE  /\ n * k \in Nat /\ n * (k + 1) = n * k + n
           /\ i + n * k \in 1..N /\ i + n * k + n - 1 <= N /\ i + n - 1 <= N
           /\ i + n * k + n <= i + n * r
<1>1. n * k \in Int /\ n * r \in Int /\ n * (k + 1) = n * k + n /\ n * (k + 1) <= n * r
  <2>1. k + 1 <= r /\ k \in Int /\ k + 1 \in Int /\ r \in Int /\ n \in Nat /\ k <= k + 1
    OBVIOUS
  <2> QED BY <2>1, Times
<1>2. n * k >= 0
  <2>1. n * 0 <= n * k
    <3>1. 0 \in Int /\ k \in Int /\ 0 <= k /\ n \in Nat
      OBVIOUS
    <3> QED BY <3>1, Times
  <2>2. n * 0 = 0
    OBVIOUS
  <2> QED BY <1>1, <2>1, <2>2
<1> DEFINE a == n * k  b == n * r  c == n * (k + 1)
<1>3. a \in Int /\ b \in Int /\ c = a + n /\ c <= b /\ a >= 0
  BY <1>1, <1>2
<1>4. i + b - 1 <= N
  OBVIOUS
<1> HIDE DEF a, b, c
<1>5. a \in Nat /\ i + a \in 1..N /\ i + a + n - 1 <= N /\ i + n - 1 <= N /\ i + a + n <= i + b
  BY <1>3, <1>4
<1> QED BY <1>1, <1>5 DEF a, b, c

LEMMA SliceIs ==
    ASSUME NEW t \in Seq(Words), NEW i \in Nat \ {0}, NEW e \in Nat, i <= e + 1, e <= Len(t)
    PROVE  /\ Len(SubSeq(t, i, e)) = e - i + 1 /\ SubSeq(t, i, e) \in Seq(Words)
           /\ \A j \in 1..(e - i + 1) : SubSeq(t, i, e)[j] = t[i + j - 1]
OBVIOUS

(* Slices of n words are equal if they are so word by word. *)
WordByWord(t, i, j, n) ==
    SubSeq(t, i, i + n - 1) = SubSeq(t, j, j + n - 1)
      <=> \A x \in 0..(n - 1) : t[i + x] = t[j + x]

LEMMA SlicesEqual ==
    ASSUME NEW t \in Seq(Words), NEW i \in Nat \ {0}, NEW j \in Nat \ {0}, NEW n \in Nat \ {0},
           i + n - 1 <= Len(t), j + n - 1 <= Len(t)
    PROVE  WordByWord(t, i, j, n)
<1> DEFINE p == SubSeq(t, i, i + n - 1)  q == SubSeq(t, j, j + n - 1)
<1>1. /\ p \in Seq(Words) /\ Len(p) = n /\ \A x \in 0..(n - 1) : p[x + 1] = t[i + x]
      /\ q \in Seq(Words) /\ Len(q) = n /\ \A x \in 0..(n - 1) : q[x + 1] = t[j + x]
  <2>1. i + n - 1 \in Nat /\ j + n - 1 \in Nat /\ i <= (i + n - 1) + 1 /\ j <= (j + n - 1) + 1
        /\ (i + n - 1) - i + 1 = n /\ (j + n - 1) - j + 1 = n
    OBVIOUS
  <2>2. /\ p \in Seq(Words) /\ Len(p) = n /\ \A x \in 1..n : p[x] = t[i + x - 1]
        /\ q \in Seq(Words) /\ Len(q) = n /\ \A x \in 1..n : q[x] = t[j + x - 1]
    BY <2>1, SliceIs
  <2>3. \A x \in 0..(n - 1) : x + 1 \in 1..n /\ i + (x + 1) - 1 = i + x /\ j + (x + 1) - 1 = j + x
    OBVIOUS
  <2> HIDE DEF p, q
  <2> QED BY <2>2, <2>3
<1> HIDE DEF p, q
<1>2. p = q <=> \A y \in 1..n : p[y] = q[y]
  BY <1>1
<1>3. (\A y \in 1..n : p[y] = q[y]) <=> \A x \in 0..(n - 1) : p[x + 1] = q[x + 1]
  <2>1. \A y \in 1..n : y - 1 \in 0..(n - 1) /\ (y - 1) + 1 = y
    OBVIOUS
  <2>2. \A x \in 0..(n - 1) : x + 1 \in 1..n
    OBVIOUS
  <2> QED BY <2>1, <2>2
<1> QED BY <1>1, <1>2, <1>3 DEF p, q, WordByWord

LEMMA RepeatsAreBlocks ==
    ASSUME NEW t \in Seq(Words), NEW n \in Nat \ {0}, NEW r \in Nat \ {0},
           NEW i \in Nat \ {0}, i + n * r - 1 <= Len(t)
    PROVE  RepeatsAt(t, n, i, r) <=> Blocks(t, n, i, r)
<1> DEFINE Same(k) == \A x \in 0..(n - 1) : t[i + n * k + x] = t[i + x]
<1>1. Len(t) \in Nat
  OBVIOUS
<1>2. ASSUME NEW k \in 0..(r - 1)
      PROVE  SubSeq(t, i + k * n, i + (k + 1) * n - 1) = SubSeq(t, i, i + n - 1) <=> Same(k)
  <2>1. /\ n * k \in Nat /\ n * (k + 1) = n * k + n /\ i + n * k \in 1..Len(t)
        /\ i + n * k + n - 1 <= Len(t) /\ i + n - 1 <= Len(t)
    BY <1>1, BlockPlace
  <2>2. k * n = n * k /\ (k + 1) * n = n * (k + 1)
    OBVIOUS
  <2> DEFINE a == n * k  b == n * (k + 1)
  <2>3. /\ a \in Nat /\ b = a + n /\ k * n = a /\ (k + 1) * n = b /\ i + a \in Nat \ {0}
        /\ i + a + n - 1 <= Len(t) /\ i + n - 1 <= Len(t)
    BY <2>1, <2>2
  <2>4. Same(k) <=> \A x \in 0..(n - 1) : t[i + a + x] = t[i + x]
    OBVIOUS
  <2> HIDE DEF a, b, Same
  <2>5. SubSeq(t, i + a, i + a + n - 1) = SubSeq(t, i, i + n - 1) <=> Same(k)
    <3> DEFINE j == i + a
    <3>1. j \in Nat \ {0} /\ j + n - 1 <= Len(t) /\ i + n - 1 <= Len(t)
      BY <2>3
    <3>2. Same(k) <=> \A x \in 0..(n - 1) : t[j + x] = t[i + x]
      BY <2>4
    <3> HIDE DEF j
    <3>3. SubSeq(t, j, j + n - 1) = SubSeq(t, i, i + n - 1)
            <=> \A x \in 0..(n - 1) : t[j + x] = t[i + x]
      <4>1. i \in Nat \ {0} /\ n \in Nat \ {0} /\ t \in Seq(Words)
        OBVIOUS
      <4>2. WordByWord(t, j, i, n)
        BY <3>1, <4>1, SlicesEqual
      <4> QED BY <4>2 DEF WordByWord
    <3> QED BY <3>2, <3>3 DEF j
  <2>6. i + b - 1 = i + a + n - 1
    BY <2>3
  <2> QED BY <2>3, <2>5, <2>6
<1>3. Same(0)
  <2>1. n * 0 = 0 /\ \A x \in 0..(n - 1) : i + 0 + x = i + x
    OBVIOUS
  <2> QED BY <2>1
<1> HIDE DEF Same
<1>4. RepeatsAt(t, n, i, r) <=> \A k \in 1..(r - 1) : Same(k)
  <2>1. \A k \in 1..(r - 1) : k \in 0..(r - 1)
    OBVIOUS
  <2> QED BY <1>2, <2>1 DEF RepeatsAt
<1>5. (\A k \in 1..(r - 1) : Same(k)) <=> \A k \in 0..(r - 1) : Same(k)
  <2>1. \A k \in 0..(r - 1) : k = 0 \/ k \in 1..(r - 1)
    OBVIOUS
  <2>2. \A k \in 1..(r - 1) : k \in 0..(r - 1)
    OBVIOUS
  <2> QED BY <1>3, <2>1, <2>2
<1> QED BY <1>4, <1>5 DEF Blocks, Same

LEMMA BlocksArePeriodic ==
    ASSUME NEW t \in Seq(Words), NEW n \in Nat \ {0}, NEW r \in Nat \ {0},
           NEW i \in Nat \ {0}, i + n * r - 1 <= Len(t), Blocks(t, n, i, r)
    PROVE  Periodic(t, n, i, n * r)
<1> SUFFICES ASSUME NEW j \in (i + n)..(i + n * r - 1) PROVE t[j] = t[j - n]
  BY DEF Periodic
<1> DEFINE y == j - i  k == y \div n  x == y % n  b == n * r
<1>1. b \in Int /\ y \in Nat /\ y >= n /\ y <= b - 1 /\ j = i + y
  BY Times
<1>2. k \in Nat /\ x \in 0..(n - 1) /\ y = n * k + x
  BY <1>1, Divided
<1> HIDE DEF y, k, x
<1>3. k \in 1..(r - 1)
  <2>1. CASE k = 0
    <3>1. n * k = 0
      BY <2>1
    <3> QED BY <1>1, <1>2, <3>1
  <2>2. CASE k >= r
    <3>1. n * r <= n * k /\ n * k \in Int
      BY <1>2, <2>2, Times
    <3> QED BY <1>1, <1>2, <3>1
  <2> QED BY <1>2, <2>1, <2>2
<1>4. k - 1 \in 0..(r - 1) /\ k \in 0..(r - 1) /\ n * ((k - 1) + 1) = n * (k - 1) + n
      /\ (k - 1) + 1 = k
  <2>1. k - 1 \in Int /\ k \in Int /\ k - 1 <= k
    BY <1>3
  <2>2. n * ((k - 1) + 1) = n * (k - 1) + n
    BY <2>1, Times
  <2> QED BY <1>3, <2>2
<1> DEFINE a == n * (k - 1)
<1>5. a \in Int /\ n * k = a + n
  <2>1. k - 1 \in Int
    BY <1>3
  <2>2. a \in Int
    BY <2>1, Times
  <2>3. n * ((k - 1) + 1) = n * k
    BY <1>4
  <2> QED BY <1>4, <2>2, <2>3
<1>6. t[i + n * k + x] = t[i + x] /\ t[i + a + x] = t[i + x]
  BY <1>2, <1>4 DEF Blocks
<1> HIDE DEF a
<1>7. j = i + n * k + x /\ j - n = i + a + x
  BY <1>1, <1>2, <1>5
<1> QED BY <1>6, <1>7

LEMMA PeriodicAreBlocks ==
    ASSUME NEW t \in Seq(Words), NEW n \in Nat \ {0}, NEW r \in Nat \ {0},
           NEW i \in Nat \ {0}, i + n * r - 1 <= Len(t), Periodic(t, n, i, n * r)
    PROVE  Blocks(t, n, i, r)
<1> DEFINE Same(k) == \A x \in 0..(n - 1) : t[i + n * k + x] = t[i + x]
           T == {k \in Nat : k <= r - 1 => Same(k)}
<1>1. 0 \in T
  <2>1. n * 0 = 0 /\ \A x \in 0..(n - 1) : i + 0 + x = i + x
    OBVIOUS
  <2> QED BY <2>1
<1> HIDE DEF Same
<1>2. ASSUME NEW k \in Nat, k \in T, k + 1 <= r - 1 PROVE Same(k + 1)
  <2> SUFFICES ASSUME NEW x \in 0..(n - 1) PROVE t[i + n * (k + 1) + x] = t[i + x]
    BY DEF Same
  <2>8. Same(k)
    BY <1>2
  <2>1. k + 1 \in 0..(r - 1) /\ k \in 0..(r - 1) /\ Len(t) \in Nat
    BY <1>2
  <2>2. /\ n * k \in Nat /\ n * (k + 1) = n * k + n /\ n * (k + 1) \in Nat
        /\ i + n * (k + 1) + n <= i + n * r
    BY <2>1, BlockPlace
  <2> DEFINE a == n * k  b == n * r  c == n * (k + 1)
  <2>3. a \in Nat /\ c = a + n /\ c \in Nat /\ i + c + n <= i + b /\ b \in Int
    <3>1. b \in Int
      BY Times
    <3> QED BY <2>2, <3>1
  <2>4. t[i + a + x] = t[i + x]
    BY <2>8 DEF Same
  <2>5. \A j \in (i + n)..(i + b - 1) : t[j] = t[j - n]
    BY DEF Periodic
  <2> HIDE DEF a, b, c
  <2>6. i + c + x \in (i + n)..(i + b - 1) /\ (i + c + x) - n = i + a + x
    BY <2>3
  <2>7. t[i + c + x] = t[i + a + x]
    BY <2>5, <2>6
  <2> QED BY <2>4, <2>7 DEF c
<1>3. \A k \in Nat : k \in T => k + 1 \in T
  BY <1>2
<1>4. Nat \subseteq T
  <2> HIDE DEF T
  <2> QED BY <1>1, <1>3, Induction
<1>5. \A k \in 0..(r - 1) : Same(k)
  BY <1>4
<1> QED BY <1>5 DEF Blocks, Same

LEMMA GramsRepeat ==
    ASSUME NEW t \in Seq(Words), NEW n \in 2..MaxNgram
    PROVE  n \in RepeatedGrams(t) <=>
              \E i \in 1..Len(t) : /\ i + n * MinNgramRepeat - 1 <= Len(t)
                                   /\ Periodic(t, n, i, n * MinNgramRepeat) /\ Wordy(t, n, i)
<1> DEFINE r == MinNgramRepeat  N == Len(t)  b == n * r
<1>1. r \in Nat \ {0} /\ n \in Nat \ {0} /\ N \in Nat
  BY KvDiffAssumption
<1>2. b \in Int /\ b >= n
  <2>1. 1 <= r /\ 1 \in Int /\ r \in Int /\ n \in Nat
    BY <1>1
  <2>2. n * 1 <= n * r /\ n * r \in Int /\ n * 1 = n
    BY <2>1, Times
  <2> QED BY <2>2
<1>3. ASSUME NEW i \in Nat \ {0}, i + b - 1 <= N
      PROVE  RepeatsAt(t, n, i, r) <=> Periodic(t, n, i, b)
  <2>1. RepeatsAt(t, n, i, r) <=> Blocks(t, n, i, r)
    BY <1>1, <1>3, RepeatsAreBlocks
  <2> QED BY <1>1, <1>3, <2>1, BlocksArePeriodic, PeriodicAreBlocks
<1>4. n \in RepeatedGrams(t)
        <=> \E i \in 1..(N - b + 1) : Wordy(t, n, i) /\ RepeatsAt(t, n, i, r)
  BY DEF RepeatedGrams, Wordy
<1> HIDE DEF b, r, N
<1>5. \A i : i \in 1..(N - b + 1) <=> i \in 1..N /\ i + b - 1 <= N
  BY <1>1, <1>2
<1> QED BY <1>1, <1>3, <1>4, <1>5 DEF b, r, N

(* A degenerate text, place by place. *)
Limit(n) == n * (IF n = 1 THEN MinTokenRepeat ELSE MinNgramRepeat)

LEMMA DegenerateIs ==
    ASSUME NEW t \in Seq(Words)
    PROVE  Degenerate(t) <=>
              \E n \in 1..MaxNgram : \E i \in 1..Len(t) :
                  i + Limit(n) - 1 <= Len(t) /\ Periodic(t, n, i, Limit(n)) /\ Wordy(t, n, i)
<1> DEFINE N == Len(t)
           Bad(i, e, n) == LET s == SubSeq(t, i, e)
                               r == IF n = 1 THEN MinTokenRepeat ELSE MinNgramRepeat
                           IN  /\ Len(s) = n * r
                               /\ \A j \in (n + 1)..Len(s) : s[j] = s[j - n]
                               /\ \E j \in 1..n : s[j] \notin Punct
<1>1. N \in Nat /\ DOMAIN t = 1..N
  OBVIOUS
<1>2. \A n \in 1..MaxNgram : Limit(n) \in Nat /\ Limit(n) >= n
  <2> TAKE n \in 1..MaxNgram
  <2> DEFINE r == IF n = 1 THEN MinTokenRepeat ELSE MinNgramRepeat
  <2>1. r \in Int /\ 1 \in Int /\ 1 <= r /\ n \in Nat
    BY KvDiffAssumption
  <2> HIDE DEF r
  <2>2. n * 1 <= n * r /\ n * r \in Int /\ n * 1 = n
    BY <2>1, Times
  <2> QED BY <2>1, <2>2 DEF Limit, r
<1>3. ASSUME NEW n \in 1..MaxNgram, NEW i \in 1..N, NEW e \in 1..N
      PROVE  Bad(i, e, n) <=> e = i + Limit(n) - 1 /\ Periodic(t, n, i, Limit(n)) /\ Wordy(t, n, i)
  <2> DEFINE s == SubSeq(t, i, e)  c == Limit(n)
  <2>1. n \in Nat \ {0} /\ c \in Nat /\ c >= n
    BY <1>2, KvDiffAssumption
  <2>2. Bad(i, e, n) <=> /\ Len(s) = c
                         /\ \A j \in (n + 1)..Len(s) : s[j] = s[j - n]
                         /\ \E j \in 1..n : s[j] \notin Punct
    BY DEF Limit
  <2> HIDE DEF Bad, c
  <2>3. CASE e < i
    <3>1. Len(s) = 0
      BY <1>1, <2>3
    <3> QED BY <2>1, <2>2, <2>3, <3>1 DEF c
  <2>4. CASE e >= i
    <3>1. Len(s) = e - i + 1 /\ \A j \in 1..(e - i + 1) : s[j] = t[i + j - 1]
      <4>1. i \in Nat \ {0} /\ e \in Nat /\ i <= e + 1 /\ e <= Len(t)
        BY <1>1, <2>4
      <4> QED BY <4>1, SliceIs
    <3> HIDE DEF s
    <3>2. Len(s) = c <=> e = i + c - 1
      BY <1>1, <2>1, <3>1
    <3>3. ASSUME Len(s) = c
          PROVE  /\ (\A j \in (n + 1)..Len(s) : s[j] = s[j - n]) <=> Periodic(t, n, i, c)
                 /\ (\E j \in 1..n : s[j] \notin Punct) <=> Wordy(t, n, i)
      <4>1. \A j \in 1..c : s[j] = t[i + j - 1]
        BY <3>1, <3>3
      <4>2. ASSUME NEW j \in (n + 1)..c PROVE s[j] = t[i + j - 1] /\ s[j - n] = t[(i + j - 1) - n]
        <5>1. j \in 1..c /\ j - n \in 1..c /\ i + (j - n) - 1 = (i + j - 1) - n
          BY <1>1, <2>1
        <5> QED BY <4>1, <5>1
      <4>3. ASSUME \A j \in (n + 1)..Len(s) : s[j] = s[j - n] PROVE Periodic(t, n, i, c)
        <5> SUFFICES ASSUME NEW k \in (i + n)..(i + c - 1) PROVE t[k] = t[k - n]
          BY DEF Periodic
        <5>1. k - i + 1 \in (n + 1)..c /\ i + (k - i + 1) - 1 = k
          BY <1>1, <2>1
        <5> QED BY <3>3, <4>2, <4>3, <5>1
      <4>4. ASSUME Periodic(t, n, i, c), NEW j \in (n + 1)..c PROVE s[j] = s[j - n]
        <5>1. i + j - 1 \in (i + n)..(i + c - 1)
          BY <1>1, <2>1
        <5> QED BY <4>2, <4>4, <5>1 DEF Periodic
      <4>5. \A j \in 1..n : j \in 1..c /\ i + j - 1 \in i..(i + n - 1)
        BY <1>1, <2>1
      <4>6. \A k \in i..(i + n - 1) : k - i + 1 \in 1..n /\ i + (k - i + 1) - 1 = k
        BY <1>1, <2>1
      <4>7. (\E j \in 1..n : s[j] \notin Punct) <=> Wordy(t, n, i)
        BY <4>1, <4>5, <4>6 DEF Wordy
      <4> QED BY <3>3, <4>3, <4>4, <4>7
    <3> QED BY <2>2, <3>2, <3>3 DEF c
  <2> QED BY <1>1, <2>3, <2>4
<1>4. Degenerate(t) <=> \E i, e \in 1..N : \E n \in 1..MaxNgram : Bad(i, e, n)
  BY <1>1 DEF Degenerate
<1> HIDE DEF Bad, N
<1>5. ASSUME NEW n \in 1..MaxNgram, NEW i \in 1..N, i + Limit(n) - 1 <= N
      PROVE  i + Limit(n) - 1 \in 1..N
  BY <1>1, <1>2, <1>5, KvDiffAssumption
<1>6. ASSUME NEW n \in 1..MaxNgram, NEW i \in 1..N, NEW e \in 1..N, e = i + Limit(n) - 1
      PROVE  i + Limit(n) - 1 <= N
  BY <1>1, <1>2, <1>6
<1> QED BY <1>3, <1>4, <1>5, <1>6 DEF N

(* The two loops of corruption_flags find every degenerate text. *)
LEMMA RepetitionsFound ==
    ASSUME NEW t \in Seq(Words)
    PROVE  Degenerate(t) <=> RepeatedToken(t) \/ RepeatedGrams(t) # {}
<1> DEFINE Place(n, i) == /\ i + Limit(n) - 1 <= Len(t)
                          /\ Periodic(t, n, i, Limit(n)) /\ Wordy(t, n, i)
<1>1. Degenerate(t) <=> \E n \in 1..MaxNgram : \E i \in 1..Len(t) : Place(n, i)
  BY DegenerateIs
<1>2. RepeatedToken(t) <=> \E i \in 1..Len(t) : Place(1, i)
  <2>1. Limit(1) = MinTokenRepeat
    BY KvDiffAssumption DEF Limit
  <2> QED BY <2>1, TokenRepeats
<1>3. \A n \in 2..MaxNgram : n \in RepeatedGrams(t) <=> \E i \in 1..Len(t) : Place(n, i)
  <2> TAKE n \in 2..MaxNgram
  <2>1. Limit(n) = n * MinNgramRepeat
    BY KvDiffAssumption DEF Limit
  <2> QED BY <2>1, GramsRepeat
<1> HIDE DEF Place
<1>4. RepeatedGrams(t) \subseteq 2..MaxNgram
  BY DEF RepeatedGrams
<1>5. \A n : n \in 1..MaxNgram <=> n = 1 \/ n \in 2..MaxNgram
  BY KvDiffAssumption
<1> QED BY <1>1, <1>2, <1>3, <1>4, <1>5

(* A text is flagged exactly if it is unsound by definition                 *)
(* (corruption_flags of kv_diff.py).                                       *)
THEOREM FlagsAreExact ==
    ASSUME NEW t \in Seq(Words)
    PROVE  CorruptionFlags(t) # {} <=> Unsound(t)
<1>1. CASE t = <<>>
  BY <1>1 DEF CorruptionFlags, Unsound
<1>2. CASE t # <<>>
  <2>1. CorruptionFlags(t) # {} <=> \/ Bang \in ToSet(t)
                                    \/ \E w \in Odd : Count(w, t) >= MinOdd
                                    \/ RepeatedToken(t)
                                    \/ ~RepeatedToken(t) /\ RepeatedGrams(t) # {}
    BY <1>2 DEF CorruptionFlags
  <2> QED BY <1>2, <2>1, RepetitionsFound DEF Unsound
<1> QED BY <1>1, <1>2

-----------------------------------------------------------------------------
(* A comparison has no reason to fail exactly if the captures earn it.      *)
LEMMA ReasonsAreExact ==
    ASSUME NEW oa, NEW ob,
           \A p \in Common(oa, ob) : oa[p].text \in Seq(Words) /\ ob[p].text \in Seq(Words)
    PROVE  FailReasons(oa, ob) = {} <=> Earned(oa, ob)
<1> DEFINE ids == Common(oa, ob)
           found == SumFunction([p \in ids |-> NormEditDistance(oa[p].text, ob[p].text)])
           least == SumFunction([p \in ids |-> Relative(LeastEdits(oa[p].text, ob[p].text),
                                                        oa[p].text, ob[p].text)])
           limit == MaxNed * Cardinality(ids)
<1>1. found = least
  <2>1. \A p \in ids : NormEditDistance(oa[p].text, ob[p].text)
                         = Relative(LeastEdits(oa[p].text, ob[p].text), oa[p].text, ob[p].text)
    BY LevenshteinIsLeast DEF NormEditDistance
  <2>2. [p \in ids |-> NormEditDistance(oa[p].text, ob[p].text)]
          = [p \in ids |-> Relative(LeastEdits(oa[p].text, ob[p].text), oa[p].text, ob[p].text)]
    BY <2>1
  <2> QED BY <2>2
<1>2. \A p \in ids : /\ CorruptionFlags(oa[p].text) # {} <=> Unsound(oa[p].text)
                     /\ CorruptionFlags(ob[p].text) # {} <=> Unsound(ob[p].text)
  BY FlagsAreExact
<1>3. FailReasons(oa, ob) = {}
        <=> /\ ~Corrupt(oa, ids) /\ ~Corrupt(ob, ids)
            /\ ~(found > limit) /\ ids # {}
            /\ ~ \E p \in ids : oa[p].error \/ ob[p].error
  BY DEF FailReasons
<1>4. Earned(oa, ob)
        <=> /\ ids # {}
            /\ \A p \in ids : /\ ~oa[p].error /\ ~ob[p].error
                              /\ ~Unsound(oa[p].text) /\ ~Unsound(ob[p].text)
            /\ ~(least > limit)
  BY DEF Earned
<1> HIDE DEF ids, found, least, limit
<1> QED BY <1>1, <1>2, <1>3, <1>4 DEF Corrupt

(* What a server answered is a text. *)
LEMMA CapturedTexts ==
    ASSUME GatesInv, NEW s \in Side, cap[s].kind = "capture"
    PROVE  \A p \in DOMAIN cap[s].out : cap[s].out[p].text \in Seq(Words)
<1>1. cap[s] \in Captures
  BY DEF GatesInv, None
<1>2. PICK P \in PromptSets : cap[s].out \in Answers(P)
  BY <1>1 DEF Captures
<1>3. ASSUME NEW p \in P PROVE cap[s].out[p].text \in Seq(Words)
  <2>1. cap[s].out[p] \in Reply(p)
    BY <1>2 DEF Answers
  <2>2. Texts[p] \subseteq Seq(Words) /\ <<>> \in Seq(Words)
    BY GatesAssumption
  <2>3. ASSUME NEW o \in Reply(p) PROVE o.text \in Seq(Words)
    <3>1. CASE o = Failed
      BY <2>2, <3>1 DEF Failed
    <3>2. CASE o # Failed
      <4>1. PICK t \in Texts[p] : o = [text |-> t, error |-> FALSE]
        BY <3>2 DEF Reply
      <4>2. o.text = t
        BY <4>1
      <4> QED BY <2>2, <4>2
    <3> QED BY <3>1, <3>2
  <2> QED BY <2>1, <2>3
<1>4. DOMAIN cap[s].out = P
  BY <1>2 DEF Answers
<1> QED BY <1>3, <1>4

(* Whatever the two servers answered: a comparison passes exactly if the    *)
(* captures earn it - every prompt both sides have was answered, no answer  *)
(* is degenerate, and the least number of edits between the two sides is    *)
(* within the limit (compare of kv_diff.py).                               *)
THEOREM VerdictsAreEarned == Spec => VerdictEarned
<1>1. ASSUME GatesInv, [Next]_vars
      PROVE  pc = "compare" /\ diff' # diff /\ diff'.kind = "compared"
               => (diff'.pass <=> Earned(cap["A"].out, cap["B"].out))
  <2> SUFFICES ASSUME pc = "compare", diff' # diff, diff'.kind = "compared"
               PROVE  diff'.pass <=> Earned(cap["A"].out, cap["B"].out)
    OBVIOUS
  <2>1. CompareSides
    BY <1>1 DEF Next, KvStep, ServeAndCapture, GsmStep, LaunchCell, LaunchCommand,
          AskHealth, RecordFailure, CaptureSide, StopA, SelfCheck, EndB, ScriptExits,
          Unhealthy, LmEval, WriteGsm8k, Invoke, StartGsm8k, ServerUp, ServerDies,
          OrphanServes, Interrupt, Kill, HostStops, FilesLeft, kvFiles, None, vars
  <2>2. Readable /\ Compared(Verdict)
    BY <2>1 DEF CompareSides, Traceback, None
  <2>3. diff'.pass <=> Verdict
    BY <2>2 DEF Compared
  <2>4. \A p \in Common(cap["A"].out, cap["B"].out) :
            cap["A"].out[p].text \in Seq(Words) /\ cap["B"].out[p].text \in Seq(Words)
    <3>1. cap["A"].kind = "capture" /\ cap["B"].kind = "capture" /\ "A" \in Side /\ "B" \in Side
      BY <2>2 DEF Readable, Side
    <3> QED BY <1>1, <3>1, CapturedTexts DEF Common
  <2> QED BY <2>3, <2>4, ReasonsAreExact DEF Verdict
<1> QED BY <1>1, GatesInvariant, PTL DEF Spec, VerdictEarned

================================================================================
