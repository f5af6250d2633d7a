----------------------------- MODULE RRProxyProofs ----------------------------
(***************************************************************************)
(* The counters of the round-robin proxy, for any number of backends,      *)
(* clients and chunks: proofs about RRProxy.                               *)
(***************************************************************************)
EXTENDS RRProxy, FiniteSetTheorems, TLAPS

IInv == TypeOK /\ HandlerShape /\ RoundRobin /\ InflightExact /\ RefusalsCounted

-----------------------------------------------------------------------------
(* The sets the counters are compared with are finite. *)
LEMMA PresentFinite ==
    ASSUME NEW b
    PROVE  IsFiniteSet(Present(b)) /\ IsFiniteSet(Refused(b))
<1>1. Present(b) \in SUBSET Request /\ Refused(b) \in SUBSET Request
  BY DEF Present, Refused
<1> QED
  BY <1>1, ProxyAssumption, FS_Subset

LEMMA InitIInv == Init => IInv
<1> SUFFICES ASSUME Init PROVE IInv
  OBVIOUS
<1> USE DEF Init
<1>1. TypeOK
  BY ProxyAssumption DEF TypeOK, Backend
<1>2. HandlerShape /\ RoundRobin
  BY ProxyAssumption DEF HandlerShape, AtBackend, RoundRobin, Backend
<1>3. \A b \in Backend : Present(b) = {} /\ Refused(b) = {}
  BY DEF Present, Refused, AtBackend
<1>4. InflightExact /\ RefusalsCounted
  BY <1>3, FS_EmptySet DEF InflightExact, RefusalsCounted
<1> QED
  BY <1>1, <1>2, <1>4 DEF IInv

-----------------------------------------------------------------------------
(* A step of one handler that leaves the counters alone and neither enters *)
(* nor leaves a backend keeps what they count.                             *)
LEMMA SamePlaceInv ==
    ASSUME IInv, NEW r \in Request, UNCHANGED <<at, stateVars>>,
           TypeOK', HandlerShape',
           \A q \in Request \ {r} : pc'[q] = pc[q] /\ answer'[q] = answer[q],
           pc[r] \in AtBackend <=> pc'[r] \in AtBackend,
           pc[r] # "done",
           pc'[r] = "done" => at[r] = 0
    PROVE  IInv'
<1>1. \A b \in Backend : Present(b)' = Present(b) /\ Refused(b)' = Refused(b)
  BY DEF Present, Refused, Backend
<1>2. InflightExact' /\ RefusalsCounted' /\ RoundRobin'
  BY <1>1 DEF IInv, stateVars, InflightExact, RefusalsCounted, RoundRobin
<1> QED
  BY <1>2 DEF IInv

LEMMA QuietInv ==
    ASSUME IInv, NEW r \in Request,
           Arrive(r) \/ BadBody(r) \/ HandlerDies(r) \/ BackendFails(r) \/ Respond(r)
             \/ Refuse(r)
    PROVE  IInv'
<1> USE DEF Arrive, BadBody, HandlerDies, BackendFails, Respond, Refuse, stateVars
<1>1. TypeOK'
  BY DEF IInv, TypeOK
<1>2. HandlerShape'
  BY DEF IInv, TypeOK, HandlerShape, AtBackend
<1>3. /\ \A q \in Request \ {r} : pc'[q] = pc[q] /\ answer'[q] = answer[q]
      /\ pc[r] \in AtBackend <=> pc'[r] \in AtBackend
      /\ pc[r] # "done" /\ (pc'[r] = "done" => at[r] = 0)
  BY DEF IInv, TypeOK, HandlerShape, AtBackend
<1> QED
  BY <1>1, <1>2, <1>3, SamePlaceInv

LEMMA RelayInv == ASSUME IInv, NEW r \in Request, Relay(r) PROVE IInv'
<1> USE DEF Relay, stateVars
<1>1. TypeOK'
  <2>1. got'  \in [Request -> 0..Chunks]
    BY ProxyAssumption DEF IInv, TypeOK
  <2> QED
    BY <2>1 DEF IInv, TypeOK
<1>2. HandlerShape'
  BY DEF IInv, HandlerShape
<1> QED
  BY <1>1, <1>2, SamePlaceInv

LEMMA EndRelayInv ==
    ASSUME IInv, NEW r \in Request, NEW a \in {"terminated", "broken"},
           NEW e \in BOOLEAN, EndRelay(r, a, e)
    PROVE  IInv'
<1> USE DEF EndRelay, stateVars
<1>1. TypeOK'
  BY DEF IInv, TypeOK
<1>2. HandlerShape'
  BY DEF IInv, TypeOK, HandlerShape, AtBackend
<1>3. /\ \A q \in Request \ {r} : pc'[q] = pc[q] /\ answer'[q] = answer[q]
      /\ pc[r] \in AtBackend <=> pc'[r] \in AtBackend
      /\ pc[r] # "done" /\ pc'[r] # "done"
  BY DEF IInv, TypeOK, AtBackend
<1> QED
  BY <1>1, <1>2, <1>3, SamePlaceInv

(* The lock makes the turn and both counters one step. *)
LEMMA PickInv == ASSUME IInv, NEW r \in Request, Pick(r) PROVE IInv'
<1> USE DEF Pick, PickBackend
<1>0. turn \in Backend /\ at[r] = 0 /\ answer[r] = "none" /\ N \in Nat \ {0}
  BY ProxyAssumption DEF IInv, TypeOK, HandlerShape
<1>1. TypeOK'
  <2>1. turn' \in Backend
    BY <1>0 DEF Backend
  <2>2. counts' \in [Backend -> Nat] /\ inflight' \in [Backend -> Nat]
    BY <1>0 DEF IInv, TypeOK
  <2>3. at' \in [Request -> 0..N] /\ pc' \in [Request -> {"idle", "body", "connect",
            "refuse", "stream", "close", "done", "died"}]
    BY <1>0 DEF IInv, TypeOK, Backend
  <2> QED
    BY <2>1, <2>2, <2>3 DEF IInv, TypeOK
<1>2. HandlerShape'
  BY <1>0 DEF IInv, TypeOK, HandlerShape, AtBackend
<1>3. RoundRobin'
  <2> SUFFICES ASSUME NEW b \in Backend, NEW c \in Backend, b < c
               PROVE  counts'[b] = counts'[c]
                                   + (IF b < turn' /\ turn' <= c THEN 1 ELSE 0)
    BY DEF RoundRobin
  <2>1. counts[b] = counts[c] + (IF b < turn /\ turn <= c THEN 1 ELSE 0)
    BY DEF IInv, RoundRobin
  <2>2. /\ counts'[b] = IF b = turn THEN counts[b] + 1 ELSE counts[b]
        /\ counts'[c] = IF c = turn THEN counts[c] + 1 ELSE counts[c]
        /\ counts[b] \in Nat /\ counts[c] \in Nat
    BY DEF IInv, TypeOK
  <2>3. turn' = IF turn = N THEN 1 ELSE turn + 1
    OBVIOUS
  <2> QED
    BY <1>0, <2>1, <2>2, <2>3 DEF Backend
<1>4. InflightExact'
  <2> SUFFICES ASSUME NEW b \in Backend
               PROVE  inflight'[b] = Cardinality(Present(b)')
    BY DEF InflightExact
  <2>1. inflight[b] = Cardinality(Present(b)) /\ IsFiniteSet(Present(b))
    BY PresentFinite DEF IInv, InflightExact
  <2>2. CASE b = turn
    <3>1. Present(b)' = Present(b) \cup {r} /\ r \notin Present(b)
      BY <1>0, <2>2 DEF IInv, TypeOK, Present, AtBackend, Backend
    <3>2. Cardinality(Present(b) \cup {r}) = Cardinality(Present(b)) + 1
      BY <2>1, <3>1, FS_AddElement
    <3> QED
      BY <2>1, <2>2, <3>1, <3>2 DEF IInv, TypeOK
  <2>3. CASE b # turn
    <3>1. Present(b)' = Present(b)
      BY <1>0, <2>3 DEF IInv, TypeOK, Present, AtBackend, Backend
    <3> QED
      BY <2>1, <2>3, <3>1 DEF IInv, TypeOK
  <2> QED
    BY <2>2, <2>3
<1>5. RefusalsCounted'
  <2>1. \A b \in Backend : Refused(b)' = Refused(b)
    BY <1>0 DEF IInv, TypeOK, Refused, Backend
  <2> QED
    BY <2>1 DEF IInv, RefusalsCounted
<1> QED
  BY <1>1, <1>2, <1>3, <1>4, <1>5 DEF IInv

(* done takes one handler away from its backend and counts its failure. *)
LEMMA LeaveInv ==
    ASSUME IInv, NEW r \in Request, NEW failed \in BOOLEAN,
           pc[r] \in AtBackend \ {"died"},
           pc' = [pc EXCEPT ![r] = "done"], Leave(at[r], failed),
           UNCHANGED <<at, framing, got, error, answer>>,
           answer[r] = "502" => failed
    PROVE  IInv'
<1> USE DEF Leave
<1>0. at[r] \in Backend
  BY DEF IInv, HandlerShape
<1>1. inflight[at[r]] = Cardinality(Present(at[r])) /\ IsFiniteSet(Present(at[r]))
  BY <1>0, PresentFinite DEF IInv, InflightExact
<1>2. r \in Present(at[r])
  BY DEF Present
<1>3. Cardinality(Present(at[r]) \ {r}) = Cardinality(Present(at[r])) - 1
      /\ Cardinality(Present(at[r]) \ {r}) \in Nat
  BY <1>1, <1>2, FS_RemoveElement, FS_CardinalityType
<1>4. TypeOK'
  <2>1. inflight' \in [Backend -> Nat]
    BY <1>0, <1>1, <1>3 DEF IInv, TypeOK
  <2>2. errors' \in [Backend -> Nat]
    BY <1>0 DEF IInv, TypeOK
  <2>3. pc' \in [Request -> {"idle", "body", "connect", "refuse", "stream", "close",
                             "done", "died"}]
    BY DEF IInv, TypeOK
  <2> QED
    BY <2>1, <2>2, <2>3 DEF IInv, TypeOK
<1>5. HandlerShape' /\ RoundRobin'
  BY DEF IInv, TypeOK, HandlerShape, AtBackend, RoundRobin
<1>6. InflightExact'
  <2> SUFFICES ASSUME NEW b \in Backend
               PROVE  inflight'[b] = Cardinality(Present(b)')
    BY DEF InflightExact
  <2>1. CASE b = at[r]
    <3>1. Present(b)' = Present(b) \ {r}
      BY <2>1 DEF IInv, TypeOK, Present, AtBackend
    <3> QED
      BY <1>0, <1>1, <1>3, <2>1, <3>1 DEF IInv, TypeOK
  <2>2. CASE b # at[r]
    <3>1. Present(b)' = Present(b)
      BY <2>2 DEF IInv, TypeOK, Present, AtBackend
    <3> QED
      BY <2>2, <3>1 DEF IInv, TypeOK, InflightExact
  <2> QED
    BY <2>1, <2>2
<1>7. RefusalsCounted'
  <2> SUFFICES ASSUME NEW b \in Backend
               PROVE  errors'[b] >= Cardinality(Refused(b)')
    BY DEF RefusalsCounted
  <2>1. errors[b] >= Cardinality(Refused(b)) /\ IsFiniteSet(Refused(b))
        /\ Cardinality(Refused(b)) \in Nat /\ errors[b] \in Nat
    BY PresentFinite, FS_CardinalityType DEF IInv, TypeOK, RefusalsCounted
  <2>2. errors'[b] >= errors[b]
    BY <2>1 DEF IInv, TypeOK
  <2>3. CASE answer[r] = "502" /\ b = at[r]
    <3>1. Refused(b)' = Refused(b) \cup {r} /\ errors'[b] = errors[b] + 1
      BY <2>3 DEF IInv, TypeOK, Refused
    <3>2. r \notin Refused(b)
      BY DEF Refused, AtBackend
    <3>3. Cardinality(Refused(b) \cup {r}) = Cardinality(Refused(b)) + 1
      BY <2>1, <3>2, FS_AddElement
    <3> QED
      BY <2>1, <3>1, <3>3
  <2>4. CASE ~(answer[r] = "502" /\ b = at[r])
    <3>1. Refused(b)' = Refused(b)
      BY <2>4 DEF IInv, TypeOK, Refused, AtBackend
    <3> QED
      BY <2>1, <2>2, <3>1
  <2> QED
    BY <2>3, <2>4
<1> QED
  BY <1>4, <1>5, <1>6, <1>7 DEF IInv

-----------------------------------------------------------------------------
(* Every step of every handler keeps the invariant. *)
LEMMA StepIInv == IInv /\ [Next]_vars => IInv'
<1> SUFFICES ASSUME IInv, [Next]_vars PROVE IInv'
  OBVIOUS
<1>1. ASSUME NEW r \in Request, ToClient(r) PROVE IInv'
  <2>1. CASE Relay(r)
    BY <2>1, RelayInv
  <2>2. CASE Terminate(r) \/ BackendCloses(r) \/ Reset(r) \/ ReadTimeout(r)
               \/ ClientTimeout(r)
    <3>1. PICK a \in {"terminated", "broken"}, e \in BOOLEAN : EndRelay(r, a, e)
      BY <2>2 DEF Terminate, BackendCloses, Reset, ReadTimeout, ClientTimeout
    <3> QED
      BY <3>1, EndRelayInv
  <2> QED
    BY <1>1, <2>1, <2>2 DEF ToClient
<1>2. ASSUME NEW r \in Request, GiveBack(r) PROVE IInv'
  <2>1. CASE Refuse(r)
    BY <2>1, QuietInv
  <2>2. CASE RefuseDone(r)
    BY <2>2, LeaveInv DEF RefuseDone, AtBackend
  <2>3. CASE Close(r)
    <3>1. error[r] \in BOOLEAN /\ answer[r] # "502"
      BY <2>3 DEF IInv, TypeOK, HandlerShape, Close
    <3> QED
      BY <2>3, <3>1, LeaveInv DEF Close, AtBackend
  <2> QED
    BY <1>2, <2>1, <2>2, <2>3 DEF GiveBack
<1>3. ASSUME NEW r \in Request, ToBackend(r) PROVE IInv'
  BY <1>3, PickInv, QuietInv DEF ToBackend
<1>4. ASSUME NEW r \in Request, Arrive(r) \/ BadBody(r) \/ HandlerDies(r) PROVE IInv'
  BY <1>4, QuietInv
<1>5. CASE UNCHANGED vars
  BY <1>5 DEF vars, handlerVars, stateVars, IInv, TypeOK, HandlerShape, RoundRobin,
              InflightExact, RefusalsCounted, Present, Refused
<1> QED
  BY <1>1, <1>2, <1>3, <1>4, <1>5 DEF Next

(* The invariant holds in every state of the proxy. *)
THEOREM ProxyInvariant == Spec => []IInv
BY InitIInv, StepIInv, PTL DEF Spec

(* The counters and the handlers keep their types; no counter is negative. *)
THEOREM ProxyTypeCorrect == Spec => []TypeOK
<1>1. IInv => TypeOK
  BY DEF IInv
<1> QED
  BY <1>1, ProxyInvariant, PTL

(* However the handlers interleave, the backends are given equal shares.   *)
THEOREM EqualShares == Spec => []RoundRobin
<1>1. IInv => RoundRobin
  BY DEF IInv
<1> QED
  BY <1>1, ProxyInvariant, PTL

(* inflight is exact, up to the handlers that died of an exception, and no *)
(* 502 escapes the error counters.                                         *)
THEOREM ProxyCountersExact == Spec => []CountersExact
<1>1. IInv => CountersExact
  BY DEF IInv, CountersExact
<1> QED
  BY <1>1, ProxyInvariant, PTL

(* A step of one handler leaves the answers of the others as they are.     *)
LEMMA StreamStep ==
    ASSUME IInv, StreamTerminatedWhole, [Next]_vars PROVE StreamTerminatedWhole'
<1> USE DEF StreamTerminatedWhole, HandlerShape, TypeOK, IInv
<1>1. ASSUME NEW r \in Request, Arrive(r) \/ BadBody(r) \/ HandlerDies(r)
      PROVE  StreamTerminatedWhole'
  BY <1>1 DEF Arrive, BadBody, HandlerDies, stateVars
<1>2. ASSUME NEW r \in Request, ToBackend(r) PROVE StreamTerminatedWhole'
  BY <1>2 DEF ToBackend, Pick, BackendFails, Respond, stateVars
<1>3. ASSUME NEW r \in Request, ToClient(r) PROVE StreamTerminatedWhole'
  <2>1. CASE Relay(r)
    BY <2>1 DEF Relay, stateVars
  <2>2. CASE Terminate(r)
    BY <2>2 DEF Terminate, EndRelay, stateVars
  <2>3. CASE BackendCloses(r)
    BY <2>3 DEF BackendCloses, EndRelay, stateVars
  <2>4. CASE Reset(r) \/ ReadTimeout(r) \/ ClientTimeout(r)
    BY <2>4 DEF Reset, ReadTimeout, ClientTimeout, EndRelay, stateVars
  <2> QED
    BY <1>3, <2>1, <2>2, <2>3, <2>4 DEF ToClient
<1>4. ASSUME NEW r \in Request, GiveBack(r) PROVE StreamTerminatedWhole'
  BY <1>4 DEF GiveBack, Refuse, RefuseDone, Close, Leave
<1>5. CASE UNCHANGED vars
  BY <1>5 DEF vars, handlerVars
<1> QED
  BY <1>1, <1>2, <1>3, <1>4, <1>5 DEF Next

(* However a backend dies and whatever the clients do, the terminator is   *)
(* written behind a complete stream only.                                  *)
THEOREM TerminatorIsEarned == Spec => []StreamTerminatedWhole
<1>1. Init => StreamTerminatedWhole
  BY DEF Init, StreamTerminatedWhole
<1> QED
  BY <1>1, ProxyInvariant, StreamStep, PTL DEF Spec

=============================================================================
