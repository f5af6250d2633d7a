--------------------------- MODULE ChatClientProofs ----------------------------
(***************************************************************************)
(* Proofs about the chat client, for any replicas, items and limits: the   *)
(* permits are conserved, and a call that gives up has been everywhere.    *)
(***************************************************************************)
EXTENDS ChatClient, FiniteSetTheorems, SequenceTheorems, TLAPS

LEMMA ChatFinite == IsFiniteSet(Chat)
BY FS_Interval, ClientAssumption DEF Chat

LEMMA UrlFinite == IsFiniteSet(Url)
<1>1. [i \in 1..Len(BaseUrls) |-> BaseUrls[i]] \in Surjection(1..Len(BaseUrls), Url)
  BY DEF Surjection, Url
<1>2. Len(BaseUrls) \in Int /\ 1 \in Int
  BY ClientAssumption
<1> QED BY <1>1, <1>2, FS_Interval, FS_Surjection

LEMMA PostedFinite == IsFiniteSet(Posted)
BY ChatFinite, FS_Subset DEF Posted

LEMMA RemainderOf ==
    ASSUME NEW n \in Nat \ {0}, NEW p \in Nat, NEW i \in 0..(n - 1)
    PROVE  (n * p + i) % n = i
OBVIOUS

(* n consecutive numbers meet every remainder of n.                        *)
LEMMA WalkGoesRound ==
    ASSUME NEW n \in Nat \ {0}, NEW c \in Nat, NEW i \in 0..(n - 1)
    PROVE  \E k \in 0..(n - 1) : (c + k) % n = i
<1> DEFINE q == c \div n  r == c % n
<1>1. q \in Nat /\ r \in 0..(n - 1) /\ c = n * q + r
  OBVIOUS
<1>2. CASE r <= i
  <2>1. i - r \in 0..(n - 1) /\ c + (i - r) = n * q + i
    BY <1>1, <1>2
  <2>2. (n * q + i) % n = i
    BY <1>1
  <2> QED BY <2>1, <2>2
<1>3. CASE r > i
  <2>1. (i + n) - r \in 0..(n - 1)
    BY <1>1, <1>3
  <2>2. c + ((i + n) - r) = n * (q + 1) + i
    BY <1>1
  <2>3. (n * (q + 1) + i) % n = i
    <3> HIDE DEF q
    <3>1. q + 1 \in Nat
      BY <1>1
    <3> QED BY <3>1, RemainderOf
  <2> QED BY <2>1, <2>2, <2>3
<1> QED BY <1>1, <1>2, <1>3

-----------------------------------------------------------------------------
(* The strengthening.  A call that was made found a live replica, so its   *)
(* walk is defined; the walk is over a list that no longer changes.        *)
Begun(c) == at[c] \in {"backoff", "queued", "posted"}

Exhausted == {"malformed", "timeout", "connection", "busy"}

WalkInv ==
    \A c \in Chat :
        /\ at[c] # "idle" => phase # "open"
        /\ Begun(c) => base_urls # <<>> /\ result[c] = "none"
        /\ at[c] = "idle" => result[c] = "none" /\ attempt[c] = 0 /\ failedBy[c] = {}
        /\ \A k \in 0..(attempt[c] - 1) : Route(c, k) \in failedBy[c]
        /\ result[c] \in Exhausted =>
              /\ base_urls # <<>>
              /\ \A k \in 0..Retries : Route(c, k) \in failedBy[c]
        /\ failedBy[c] \subseteq {base_urls[i] : i \in 1..Len(base_urls)}

ClientInv == TypeOK /\ PermitsConserved /\ WalkInv

LEMMA RouteType ==
    ASSUME NEW c \in Chat, NEW k \in Nat, base_urls \in Seq(Url), base_urls # <<>>
    PROVE  /\ Route(c, k) \in Url
           /\ Route(c, k) \in {base_urls[i] : i \in 1..Len(base_urls)}
<1>1. Len(base_urls) \in Nat \ {0} /\ c + k \in Nat
  BY ClientAssumption DEF Chat
<1>2. (c + k) % Len(base_urls) \in 0..(Len(base_urls) - 1)
  BY <1>1
<1>3. ((c + k) % Len(base_urls)) + 1 \in 1..Len(base_urls)
  BY <1>1, <1>2
<1> QED BY <1>3 DEF Route

LEMMA InitClient == Init => ClientInv
<1> SUFFICES ASSUME Init PROVE ClientInv
  OBVIOUS
<1> USE ClientAssumption DEF Init
<1>1. TypeOK
  <2>1. BaseUrls \in Seq(Url)
    BY SeqOfRange DEF Url, Range
  <2> QED BY <2>1 DEF TypeOK
<1>2. PermitsConserved
  <2>1. Posted = {}
    BY DEF Posted
  <2> QED BY <2>1, FS_EmptySet DEF PermitsConserved
<1>3. WalkInv
  BY DEF WalkInv, Begun, Exhausted
<1> QED BY <1>1, <1>2, <1>3 DEF ClientInv

(* What moves a call without touching the permits.                         *)
LEMMA PostedSame ==
    ASSUME PermitsConserved, sem' = sem, Posted' = Posted
    PROVE  PermitsConserved'
BY DEF PermitsConserved

LEMMA PostedGrows ==
    ASSUME TypeOK, PermitsConserved, NEW c \in Chat, at[c] # "posted",
           at' = [at EXCEPT ![c] = "posted"], sem' = sem - 1, sem > 0
    PROVE  PermitsConserved' /\ sem' \in 0..Concurrency
<1>1. Posted' = Posted \cup {c} /\ c \notin Posted
  BY DEF TypeOK, Posted
<1>2. Cardinality(Posted') = Cardinality(Posted) + 1
  BY <1>1, PostedFinite, FS_AddElement
<1>3. Cardinality(Posted) \in Nat
  BY PostedFinite, FS_CardinalityType
<1> QED BY <1>2, <1>3, ClientAssumption DEF PermitsConserved, TypeOK

LEMMA PostedShrinks ==
    ASSUME TypeOK, PermitsConserved, NEW c \in Chat, at[c] = "posted", NEW v, v # "posted",
           at' = [at EXCEPT ![c] = v], sem' = sem + 1
    PROVE  PermitsConserved' /\ sem' \in 0..Concurrency
<1>1. Posted' = Posted \ {c} /\ c \in Posted
  BY DEF TypeOK, Posted
<1>2. Cardinality(Posted') = Cardinality(Posted) - 1
  BY <1>1, PostedFinite, FS_RemoveElement
<1>3. Cardinality(Posted) \in Nat /\ Cardinality(Posted') \in Nat
  BY PostedFinite, FS_CardinalityType, FS_RemoveElement, <1>1
<1> QED BY <1>2, <1>3, ClientAssumption DEF PermitsConserved, TypeOK

-----------------------------------------------------------------------------
(* A failed attempt keeps the types and extends the walk by one replica.   *)
LEMMA FailKeeps ==
    ASSUME ClientInv, NEW c \in Chat, at[c] \in {"queued", "posted"},
           NEW o \in Outcome, o.is # "ok", Fail(c, o), UNCHANGED <<phase, base_urls>>
    PROVE  /\ at' \in [Chat -> {"idle", "backoff", "queued", "posted", "done"}]
           /\ attempt' \in [Chat -> 0..Retries]
           /\ result' \in [Chat -> Final \cup {"none"}]
           /\ errors' \in [Url -> Nat] /\ failedBy' \in [Chat -> SUBSET Url]
           /\ retries' \in Nat /\ failed' \in Nat /\ completed' \in Nat
           /\ \E v \in {"backoff", "done"} : at' = [at EXCEPT ![c] = v]
           /\ WalkInv'
<1> DEFINE u == Route(c, attempt[c])
<1>1. /\ TypeOK /\ attempt[c] \in 0..Retries /\ attempt[c] \in Nat
      /\ base_urls # <<>> /\ base_urls \in Seq(Url)
  BY ClientAssumption DEF ClientInv, TypeOK, WalkInv, Begun
<1>2. u \in Url /\ u \in {base_urls[i] : i \in 1..Len(base_urls)}
  BY <1>1, RouteType, ClientAssumption
<1>3. Kind(o) \in Final
  BY DEF Kind, Final, Outcome
<1>4. CASE MayRetry(c, o)
  <2>1. /\ errors' = [errors EXCEPT ![u] = @ + 1]
        /\ failedBy' = [failedBy EXCEPT ![c] = @ \cup {u}]
        /\ attempt' = [attempt EXCEPT ![c] = @ + 1] /\ retries' = retries + 1
        /\ at' = [at EXCEPT ![c] = "backoff"]
        /\ UNCHANGED <<completed, result, failed>> /\ attempt[c] < Retries
    BY <1>4 DEF Fail, MayRetry
  <2>2. WalkInv'
    <3> SUFFICES ASSUME NEW d \in Chat PROVE WalkInv!(d)'
      BY DEF WalkInv
    <3>0. WalkInv!(d) /\ \A k : Route(d, k)' = Route(d, k)
      BY DEF ClientInv, WalkInv, Route
    <3>1. CASE d = c
      <4>1. at'[d] = "backoff" /\ result'[d] = result[d] /\ failedBy'[d] = failedBy[d] \cup {u}
            /\ attempt'[d] = attempt[d] + 1
        BY <1>1, <2>1, <3>1 DEF TypeOK
      <4>2. result[d] = "none" /\ phase # "open"
        BY <3>0, <3>1 DEF Begun
      <4> HIDE DEF u
      <4>3. \A k \in 0..(attempt'[d] - 1) : Route(d, k) \in failedBy'[d]
        BY <1>1, <3>0, <3>1, <4>1, ClientAssumption DEF u
      <4> QED BY <1>1, <1>2, <3>0, <3>1, <4>1, <4>2, <4>3 DEF Begun, Exhausted
    <3>2. CASE d # c
      <4>1. /\ at'[d] = at[d] /\ result'[d] = result[d] /\ failedBy'[d] = failedBy[d]
            /\ attempt'[d] = attempt[d]
        BY <1>1, <2>1, <3>2 DEF TypeOK
      <4> QED BY <3>0, <4>1 DEF Begun
    <3> QED BY <3>1, <3>2
  <2> HIDE DEF u
  <2>3. attempt' \in [Chat -> 0..Retries] /\ retries' \in Nat
    BY <1>1, <2>1, ClientAssumption DEF TypeOK
  <2>4. errors' \in [Url -> Nat] /\ failedBy' \in [Chat -> SUBSET Url]
    BY <1>1, <1>2, <2>1 DEF TypeOK
  <2>5. at' \in [Chat -> {"idle", "backoff", "queued", "posted", "done"}]
    BY <1>1, <2>1 DEF TypeOK
  <2>6. result' = result /\ failed' = failed /\ completed' = completed
    BY <2>1
  <2> QED BY <1>1, <2>1, <2>2, <2>3, <2>4, <2>5, <2>6 DEF TypeOK
<1>5. CASE ~MayRetry(c, o)
  <2>1. /\ errors' = [errors EXCEPT ![u] = @ + 1]
        /\ failedBy' = [failedBy EXCEPT ![c] = @ \cup {u}]
        /\ at' = [at EXCEPT ![c] = "done"]
        /\ result' = [result EXCEPT ![c] = Kind(o)]
        /\ failed' = failed + 1 /\ UNCHANGED <<completed, attempt, retries>>
    BY <1>5 DEF Fail, End
  <2>2. Kind(o) \in Exhausted => attempt[c] = Retries
    BY <1>1, <1>5, ClientAssumption DEF MayRetry, Retryable, Kind, Exhausted, Outcome
  <2>3. WalkInv'
    <3> SUFFICES ASSUME NEW d \in Chat PROVE WalkInv!(d)'
      BY DEF WalkInv
    <3>0. WalkInv!(d) /\ \A k : Route(d, k)' = Route(d, k)
      BY DEF ClientInv, WalkInv, Route
    <3>1. CASE d = c
      <4>1. at'[d] = "done" /\ result'[d] = Kind(o) /\ failedBy'[d] = failedBy[d] \cup {u}
            /\ attempt'[d] = attempt[d]
        BY <1>1, <2>1, <3>1 DEF TypeOK
      <4>2. phase # "open"
        BY <3>0, <3>1
      <4> HIDE DEF u
      <4>3. Kind(o) \in Exhausted => \A k \in 0..Retries : Route(d, k) \in failedBy'[d]
        BY <1>1, <2>2, <3>0, <3>1, <4>1, ClientAssumption DEF u
      <4> QED BY <1>1, <1>2, <3>0, <3>1, <4>1, <4>2, <4>3 DEF Begun
    <3>2. CASE d # c
      <4>1. /\ at'[d] = at[d] /\ result'[d] = result[d] /\ failedBy'[d] = failedBy[d]
            /\ attempt'[d] = attempt[d]
        BY <1>1, <2>1, <3>2 DEF TypeOK
      <4> QED BY <3>0, <4>1 DEF Begun
    <3> QED BY <3>1, <3>2
  <2> HIDE DEF u
  <2>4. errors' \in [Url -> Nat] /\ failedBy' \in [Chat -> SUBSET Url]
    BY <1>1, <1>2, <2>1 DEF TypeOK
  <2>5. /\ at' \in [Chat -> {"idle", "backoff", "queued", "posted", "done"}]
        /\ result' \in [Chat -> Final \cup {"none"}]
    BY <1>1, <1>3, <2>1 DEF TypeOK
  <2>6. /\ attempt' = attempt /\ retries' = retries /\ completed' = completed
        /\ failed' \in Nat
    BY <1>1, <2>1 DEF TypeOK
  <2> QED BY <1>1, <2>1, <2>3, <2>4, <2>5, <2>6 DEF TypeOK
<1> QED BY <1>4, <1>5

(* A step of the loop's head: back-off over, or the first attempt.         *)
LEMMA AttemptKeeps ==
    ASSUME ClientInv, NEW c \in Chat, Attempt(c), phase # "open", base_urls # <<>>,
           at[c] \in {"idle", "backoff"},
           UNCHANGED <<client, sem, attempt, errors, retries, completed, failed,
                       failedBy, dropped>>
    PROVE  ClientInv'
<1>1. Route(c, attempt[c]) \in Url
  BY RouteType, ClientAssumption DEF ClientInv, TypeOK
<1>2. TypeOK'
  <2>1. CASE phase = "closed"
    BY <2>1 DEF ClientInv, TypeOK, Attempt, End, client, Final
  <2>2. CASE phase # "closed"
    <3> DEFINE u == Route(c, attempt[c])
    <3>1. /\ requests' = [requests EXCEPT ![u] = @ + 1] /\ UNCHANGED result
          /\ at' = [at EXCEPT ![c] = "queued"]
      BY <2>2 DEF Attempt
    <3> HIDE DEF u
    <3>2. u \in Url
      BY <1>1 DEF u
    <3> QED BY <3>1, <3>2 DEF ClientInv, TypeOK, client
  <2> QED BY <2>1, <2>2
<1>3. Posted' = Posted
  BY DEF ClientInv, TypeOK, Attempt, End, Posted
<1>4. WalkInv'
  <2> SUFFICES ASSUME NEW d \in Chat PROVE WalkInv!(d)'
    BY DEF WalkInv
  <2>0. WalkInv!(d) /\ \A k : Route(d, k)' = Route(d, k)
    BY DEF ClientInv, WalkInv, Route, client
  <2>1. CASE d = c
    <3>1. \/ at'[d] = "done" /\ result'[d] = "closed"
          \/ at'[d] = "queued" /\ result'[d] = result[d]
      BY <2>1 DEF Attempt, End, ClientInv, TypeOK
    <3> QED BY <2>0, <2>1, <3>1 DEF Begun, Exhausted, client
  <2>2. CASE d # c
    <3>1. at'[d] = at[d] /\ result'[d] = result[d]
      BY <2>2 DEF Attempt, End, ClientInv, TypeOK
    <3> QED BY <2>0, <3>1 DEF Begun, client
  <2> QED BY <2>1, <2>2
<1> QED BY <1>2, <1>3, <1>4, PostedSame DEF ClientInv

LEMMA NextClient == ClientInv /\ [Next]_vars => ClientInv'
<1> SUFFICES ASSUME ClientInv, [Next]_vars PROVE ClientInv'
  OBVIOUS
<1> USE ClientAssumption
<1>1. CASE Probe
  <2>1. base_urls' \in Seq(Url)
    <3>1. PICK n \in 0..Len(BaseUrls) : \E alive \in [1..n -> 1..Len(BaseUrls)] :
                 base_urls' = [i \in 1..n |-> BaseUrls[alive[i]]]
      BY <1>1 DEF Probe
    <3>2. base_urls' \in [1..n -> Url]
      BY <3>1 DEF Url
    <3> QED BY <3>1, <3>2, SeqDef
  <2>2. TypeOK'
    BY <1>1, <2>1 DEF Probe, ClientInv, TypeOK, counters
  <2>3. PermitsConserved'
    BY <1>1, PostedSame DEF Probe, ClientInv, Posted
  <2>4. WalkInv'
    <3> SUFFICES ASSUME NEW c \in Chat
                 PROVE  /\ at'[c] = "idle" /\ result'[c] = "none" /\ attempt'[c] = 0
                        /\ failedBy'[c] = {}
      BY DEF WalkInv, Begun, Exhausted
    <3>1. at[c] = "idle" /\ result[c] = "none" /\ attempt[c] = 0 /\ failedBy[c] = {}
      BY <1>1 DEF Probe, ClientInv, WalkInv
    <3> QED BY <1>1, <3>1 DEF Probe, ClientInv, WalkInv
  <2> QED BY <2>2, <2>3, <2>4 DEF ClientInv
<1>2. CASE Close \/ CloseSession
  <2>1. TypeOK'
    BY <1>2 DEF Close, CloseSession, ClientInv, TypeOK, counters
  <2>2. PermitsConserved'
    BY <1>2, PostedSame DEF Close, CloseSession, ClientInv, Posted
  <2>3. WalkInv'
    BY <1>2 DEF Close, CloseSession, ClientInv, WalkInv, Begun, Route
  <2> QED BY <2>1, <2>2, <2>3 DEF ClientInv
<1>3. ASSUME NEW c \in Chat, Call(c) PROVE ClientInv'
  <2>1. CASE base_urls = <<>>
    <3>1. TypeOK' /\ Posted' = Posted /\ sem' = sem
      BY <1>3, <2>1 DEF Call, End, ClientInv, TypeOK, client, Final, Posted
    <3>2. WalkInv'
      BY <1>3, <2>1 DEF Call, End, ClientInv, TypeOK, WalkInv, client, Begun, Exhausted, Route
    <3> QED BY <3>1, <3>2, PostedSame DEF ClientInv
  <2>2. CASE base_urls # <<>>
    BY <1>3, <2>2, AttemptKeeps DEF Call
  <2> QED BY <2>1, <2>2
<1>4. ASSUME NEW c \in Chat, BackedOff(c) PROVE ClientInv'
  BY <1>4, AttemptKeeps DEF BackedOff, ClientInv, WalkInv, Begun
<1>5. ASSUME NEW c \in Chat, Acquire(c) PROVE ClientInv'
  <2>1. CASE Route(c, attempt[c]) \in sessions
    <3>1. /\ at' = [at EXCEPT ![c] = "posted"] /\ sem' = sem - 1 /\ sem > 0
          /\ at[c] = "queued"
          /\ UNCHANGED <<attempt, result, counters, failedBy, client, dropped>>
      BY <1>5, <2>1 DEF Acquire
    <3>2. PermitsConserved' /\ sem' \in 0..Concurrency
      BY <3>1, PostedGrows DEF ClientInv
    <3>3. TypeOK'
      BY <3>1, <3>2 DEF ClientInv, TypeOK, counters, client
    <3>4. WalkInv'
      BY <3>1 DEF ClientInv, TypeOK, WalkInv, client, Begun, Route
    <3> QED BY <3>2, <3>3, <3>4 DEF ClientInv
  <2>2. CASE Route(c, attempt[c]) \notin sessions
    <3> DEFINE o == [is |-> "exception", overlong |-> FALSE]
    <3>1. /\ Fail(c, o) /\ o \in Outcome /\ o.is # "ok" /\ at[c] = "queued"
          /\ UNCHANGED <<requests, sem, client, dropped>>
      BY <1>5, <2>2 DEF Acquire, Outcome
    <3>2. TypeOK' /\ WalkInv' /\ \E v \in {"backoff", "done"} : at' = [at EXCEPT ![c] = v]
      BY <3>1, FailKeeps DEF ClientInv, TypeOK, client
    <3>3. Posted' = Posted
      BY <3>1, <3>2 DEF ClientInv, TypeOK, Posted
    <3> QED BY <3>1, <3>2, <3>3, PostedSame DEF ClientInv
  <2> QED BY <2>1, <2>2
<1>6. ASSUME NEW c \in Chat, NEW o \in Outcome, Answer(c, o) PROVE ClientInv'
  <2>0. at[c] = "posted" /\ sem' = sem + 1 /\ UNCHANGED <<client, requests, dropped>>
    BY <1>6 DEF Answer, Freed
  <2>1. CASE o.is = "ok"
    <3>1. /\ at' = [at EXCEPT ![c] = "done"] /\ result' = [result EXCEPT ![c] = "ok"]
          /\ completed' = completed + 1
          /\ UNCHANGED <<attempt, errors, retries, failed, failedBy>>
      BY <1>6, <2>1 DEF Answer, End
    <3>2. PermitsConserved' /\ sem' \in 0..Concurrency
      BY <2>0, <3>1, PostedShrinks DEF ClientInv
    <3>3. TypeOK'
      BY <2>0, <3>1, <3>2 DEF ClientInv, TypeOK, client, Final
    <3>4. WalkInv'
      BY <2>0, <3>1 DEF ClientInv, TypeOK, WalkInv, client, Begun, Exhausted, Route
    <3> QED BY <3>2, <3>3, <3>4 DEF ClientInv
  <2>2. CASE o.is # "ok"
    <3>1. Fail(c, o)
      BY <1>6, <2>2 DEF Answer
    <3>2. /\ WalkInv'
          /\ \E v \in {"backoff", "done"} : at' = [at EXCEPT ![c] = v]
      BY <2>0, <2>2, <3>1, FailKeeps DEF client
    <3>3. PermitsConserved' /\ sem' \in 0..Concurrency
      BY <2>0, <3>2, PostedShrinks DEF ClientInv
    <3>4. TypeOK'
      BY <2>0, <2>2, <3>1, <3>3, FailKeeps DEF ClientInv, TypeOK, client
    <3> QED BY <3>2, <3>3, <3>4 DEF ClientInv
  <2> QED BY <2>1, <2>2
<1>7. ASSUME NEW c \in Chat, Cancel(c) PROVE ClientInv'
  <2>1. /\ at' = [at EXCEPT ![c] = "done"] /\ result' = [result EXCEPT ![c] = "cancelled"]
        /\ dropped' = dropped + (IF at[c] = "backoff" THEN 0 ELSE 1)
        /\ UNCHANGED <<client, attempt, counters, failedBy>>
        /\ at[c] \in {"backoff", "queued", "posted"}
    BY <1>7 DEF Cancel, End
  <2>2. PermitsConserved' /\ sem' \in 0..Concurrency
    <3>1. CASE at[c] = "posted"
      BY <1>7, <2>1, <3>1, PostedShrinks DEF Cancel, ClientInv
    <3>2. CASE at[c] # "posted"
      <4>1. Posted' = Posted /\ sem' = sem
        BY <1>7, <2>1, <3>2 DEF Cancel, ClientInv, TypeOK, Posted
      <4> QED BY <4>1, PostedSame DEF ClientInv, TypeOK
    <3> QED BY <3>1, <3>2
  <2>3. TypeOK'
    BY <2>1, <2>2 DEF ClientInv, TypeOK, client, counters, Final
  <2>4. WalkInv'
    BY <2>1 DEF ClientInv, TypeOK, WalkInv, client, Begun, Exhausted, Route
  <2> QED BY <2>2, <2>3, <2>4 DEF ClientInv
<1>8. CASE UNCHANGED vars
  <2>1. TypeOK' /\ WalkInv'
    BY <1>8 DEF vars, ClientInv, TypeOK, WalkInv, Begun, Route
  <2>2. PermitsConserved'
    BY <1>8, PostedSame DEF vars, ClientInv, Posted
  <2> QED BY <2>1, <2>2 DEF ClientInv
<1> QED BY <1>1, <1>2, <1>3, <1>4, <1>5, <1>6, <1>7, <1>8 DEF Next, Step

-----------------------------------------------------------------------------
(* The counters.  A total is that of the units of a function, which are    *)
(* finitely many; one more count of an entry is one more unit.             *)
LEMMA UnitsFinite ==
    ASSUME NEW D, IsFiniteSet(D), NEW f \in [D -> Nat]
    PROVE  IsFiniteSet(Units(f)) /\ Total(f) \in Nat
<1> DEFINE piles == {{u} \X (1..f[u]) : u \in D}
           g == [u \in D |-> {u} \X (1..f[u])]
<1>1. g \in Surjection(D, piles)
  BY DEF Surjection
<1>2. IsFiniteSet(piles)
  BY <1>1, FS_Surjection
<1>3. ASSUME NEW T \in piles PROVE IsFiniteSet(T)
  <2>1. PICK u \in D : T = {u} \X (1..f[u])
    OBVIOUS
  <2>2. f[u] \in Int /\ 1 \in Int
    OBVIOUS
  <2>3. IsFiniteSet({u}) /\ IsFiniteSet(1..f[u])
    BY <2>2, FS_Singleton, FS_Interval
  <2> QED BY <2>1, <2>3, FS_Product
<1>4. IsFiniteSet(UNION piles)
  BY <1>2, <1>3, FS_UNION
<1> QED BY <1>4, FS_CardinalityType DEF Units, Total

LEMMA TotalGrows ==
    ASSUME NEW D, IsFiniteSet(D), NEW f \in [D -> Nat], NEW u \in D
    PROVE  Total([f EXCEPT ![u] = @ + 1]) = Total(f) + 1
<1> DEFINE g == [f EXCEPT ![u] = @ + 1]
<1>1. g \in [D -> Nat] /\ g[u] = f[u] + 1 /\ f[u] \in Nat
  OBVIOUS
<1>2. 1..g[u] = (1..f[u]) \cup {g[u]} /\ g[u] \notin 1..f[u]
  BY <1>1
<1>3. ASSUME NEW d \in D, d # u PROVE g[d] = f[d]
  BY <1>3
<1> HIDE DEF g
<1>4. Units(g) = Units(f) \cup {<<u, g[u]>>} /\ <<u, g[u]>> \notin Units(f)
  BY <1>1, <1>2, <1>3 DEF Units
<1>5. IsFiniteSet(Units(f))
  BY UnitsFinite
<1> QED BY <1>4, <1>5, FS_AddElement DEF Total, g

(* The calls with a request on the books, and those that have failed.      *)
Open   == {c \in Chat : at[c] \in {"queued", "posted"}}
GaveUp == {c \in Chat : result[c] \in Final \ {"ok", "cancelled", "closed"}}

LEMMA CallsCounted ==
    /\ IsFiniteSet(Open) /\ IsFiniteSet(GaveUp)
    /\ Cardinality(Open) \in Nat /\ Cardinality(GaveUp) \in Nat
<1>1. Open \subseteq Chat /\ GaveUp \subseteq Chat
  BY DEF Open, GaveUp
<1> QED BY <1>1, ChatFinite, FS_Subset, FS_CardinalityType

LEMMA TotalsAreNumbers ==
    ASSUME TypeOK
    PROVE  /\ Total(requests) \in Nat /\ Total(errors) \in Nat /\ Total(attempt) \in Nat
           /\ completed \in Nat /\ failed \in Nat /\ retries \in Nat /\ dropped \in Nat
<1>1. IsFiniteSet(Url)
  BY UrlFinite
<1>2. attempt \in [Chat -> Nat]
  BY ClientAssumption DEF TypeOK
<1> QED BY <1>1, <1>2, ChatFinite, UnitsFinite DEF TypeOK

(* A request is opened: by the attempt that counts it. *)
LEMMA OpenGrows ==
    ASSUME TypeOK, NEW c \in Chat, c \notin Open, at' = [at EXCEPT ![c] = "queued"]
    PROVE  Cardinality(Open') = Cardinality(Open) + 1
<1>1. Open' = Open \cup {c}
  BY DEF TypeOK, Open
<1> QED BY <1>1, CallsCounted, FS_AddElement

LEMMA OpenShrinks ==
    ASSUME TypeOK, NEW c \in Open, NEW v \in {"backoff", "done"}, at' = [at EXCEPT ![c] = v]
    PROVE  Cardinality(Open') = Cardinality(Open) - 1
<1>1. Open' = Open \ {c}
  BY DEF TypeOK, Open
<1> QED BY <1>1, CallsCounted, FS_RemoveElement

LEMMA GaveUpGrows ==
    ASSUME TypeOK, NEW c \in Chat, result[c] = "none",
           NEW r \in Final \ {"ok", "cancelled", "closed"}, result' = [result EXCEPT ![c] = r]
    PROVE  Cardinality(GaveUp') = Cardinality(GaveUp) + 1
<1>1. GaveUp' = GaveUp \cup {c} /\ c \notin GaveUp
  BY DEF TypeOK, GaveUp, Final
<1> QED BY <1>1, CallsCounted, FS_AddElement

LEMMA GaveUpSame ==
    ASSUME TypeOK, NEW c \in Chat, result[c] = "none",
           NEW r \in {"none", "ok", "cancelled", "closed"}, result' = [result EXCEPT ![c] = r]
    PROVE  GaveUp' = GaveUp
BY DEF TypeOK, GaveUp, Final

(* What a step has to show of the sums. *)
LEMMA Balances ==
    ASSUME TypeOK, TypeOK', CountersBalance,
           Total(requests') - Total(requests) =
               (completed' - completed) + (Total(errors') - Total(errors))
               + (dropped' - dropped) + (Cardinality(Open') - Cardinality(Open)),
           failed' - failed = Cardinality(GaveUp') - Cardinality(GaveUp),
           retries' - retries = Total(attempt') - Total(attempt)
    PROVE  CountersBalance'
<1>1. /\ Total(requests) = completed + Total(errors) + dropped + Cardinality(Open)
      /\ failed = Cardinality(GaveUp) /\ retries = Total(attempt)
  BY DEF CountersBalance, Open, GaveUp
<1>2. Cardinality(Open') \in Nat /\ Cardinality(GaveUp') \in Nat
  <2>1. Open' \subseteq Chat /\ GaveUp' \subseteq Chat
    BY DEF Open, GaveUp
  <2> QED BY <2>1, ChatFinite, FS_Subset, FS_CardinalityType
<1>3. /\ Total(requests) \in Nat /\ Total(errors) \in Nat /\ Total(attempt) \in Nat
      /\ completed \in Nat /\ failed \in Nat /\ retries \in Nat /\ dropped \in Nat
      /\ Cardinality(Open) \in Nat /\ Cardinality(GaveUp) \in Nat
  BY TotalsAreNumbers, CallsCounted
<1>4. /\ Total(requests') \in Nat /\ Total(errors') \in Nat /\ Total(attempt') \in Nat
      /\ completed' \in Nat /\ failed' \in Nat /\ retries' \in Nat /\ dropped' \in Nat
  <2>1. attempt' \in [Chat -> Nat]
    BY ClientAssumption DEF TypeOK
  <2> QED BY <2>1, UrlFinite, ChatFinite, UnitsFinite DEF TypeOK
<1>5. /\ Total(requests') = completed' + Total(errors') + dropped' + Cardinality(Open')
      /\ failed' = Cardinality(GaveUp') /\ retries' = Total(attempt')
  BY <1>1, <1>2, <1>3, <1>4
<1> QED BY <1>5 DEF CountersBalance, Open, GaveUp

(* An attempt that fails counts an error for the request it closes, and    *)
(* either a retry or a call that failed.                                   *)
LEMMA FailBalances ==
    ASSUME ClientInv, TypeOK', CountersBalance, NEW c \in Chat, at[c] \in {"queued", "posted"},
           NEW o \in Outcome, o.is # "ok", Fail(c, o), requests' = requests,
           dropped' = dropped, UNCHANGED <<phase, base_urls>>
    PROVE  CountersBalance'
<1> DEFINE u == Route(c, attempt[c])
<1>1. TypeOK /\ result[c] = "none" /\ c \in Open /\ base_urls # <<>> /\ attempt[c] \in Nat
  <2>1. TypeOK /\ result[c] = "none" /\ c \in Open /\ base_urls # <<>>
    BY DEF ClientInv, WalkInv, Begun, Open
  <2> QED BY <2>1, ClientAssumption DEF TypeOK
<1>2. u \in Url
  BY <1>1, RouteType DEF TypeOK
<1>3. errors' = [errors EXCEPT ![u] = @ + 1] /\ completed' = completed
  BY DEF Fail
<1> HIDE DEF u
<1>4. Total(errors') = Total(errors) + 1
  BY <1>1, <1>2, <1>3, UrlFinite, TotalGrows DEF TypeOK
<1>5. /\ Total(requests) \in Nat /\ Total(errors) \in Nat /\ Total(attempt) \in Nat
      /\ completed \in Nat /\ failed \in Nat /\ retries \in Nat /\ dropped \in Nat
      /\ Cardinality(Open) \in Nat /\ Cardinality(GaveUp) \in Nat
  BY <1>1, TotalsAreNumbers, CallsCounted
<1>6. CASE MayRetry(c, o)
  <2>1. /\ attempt' = [attempt EXCEPT ![c] = @ + 1] /\ retries' = retries + 1
        /\ at' = [at EXCEPT ![c] = "backoff"] /\ result' = result /\ failed' = failed
    BY <1>6 DEF Fail
  <2>2. Cardinality(Open') = Cardinality(Open) - 1 /\ GaveUp' = GaveUp
    BY <1>1, <2>1, OpenShrinks DEF GaveUp
  <2>3. Total(attempt') = Total(attempt) + 1
    <3>1. attempt \in [Chat -> Nat]
      BY <1>1, ClientAssumption DEF TypeOK
    <3> QED BY <2>1, <3>1, ChatFinite, TotalGrows
  <2>4. /\ Total(requests') - Total(requests) =
               (completed' - completed) + (Total(errors') - Total(errors))
               + (dropped' - dropped) + (Cardinality(Open') - Cardinality(Open))
        /\ failed' - failed = Cardinality(GaveUp') - Cardinality(GaveUp)
        /\ retries' - retries = Total(attempt') - Total(attempt)
    BY <1>3, <1>4, <1>5, <2>1, <2>2, <2>3
  <2> QED BY <1>1, <2>4, Balances
<1>7. CASE ~MayRetry(c, o)
  <2>1. /\ at' = [at EXCEPT ![c] = "done"] /\ result' = [result EXCEPT ![c] = Kind(o)]
        /\ failed' = failed + 1 /\ UNCHANGED <<attempt, retries>>
    BY <1>7 DEF Fail, End
  <2>2. Kind(o) \in Final \ {"ok", "cancelled", "closed"}
    BY DEF Kind, Final, Outcome
  <2>3. Cardinality(Open') = Cardinality(Open) - 1 /\ Cardinality(GaveUp') = Cardinality(GaveUp) + 1
    BY <1>1, <2>1, <2>2, OpenShrinks, GaveUpGrows
  <2>4. /\ Total(requests') - Total(requests) =
               (completed' - completed) + (Total(errors') - Total(errors))
               + (dropped' - dropped) + (Cardinality(Open') - Cardinality(Open))
        /\ failed' - failed = Cardinality(GaveUp') - Cardinality(GaveUp)
        /\ retries' - retries = Total(attempt') - Total(attempt)
    BY <1>3, <1>4, <1>5, <2>1, <2>3
  <2> QED BY <1>1, <2>4, Balances
<1> QED BY <1>6, <1>7

(* What an attempt counts, and whom a closed client turns away. *)
LEMMA AttemptBalances ==
    ASSUME ClientInv, TypeOK', CountersBalance, NEW c \in Chat, Attempt(c), base_urls # <<>>,
           at[c] \in {"idle", "backoff"},
           UNCHANGED <<attempt, errors, retries, completed, failed, dropped>>
    PROVE  CountersBalance'
<1>1. TypeOK /\ result[c] = "none" /\ c \notin Open /\ attempt[c] \in Nat
  BY ClientAssumption DEF ClientInv, WalkInv, Begun, Open, TypeOK
<1>2. Route(c, attempt[c]) \in Url
  BY <1>1, RouteType DEF TypeOK
<1>3. /\ Total(requests) \in Nat /\ Total(errors) \in Nat /\ Total(attempt) \in Nat
      /\ completed \in Nat /\ failed \in Nat /\ retries \in Nat /\ dropped \in Nat
      /\ Cardinality(Open) \in Nat /\ Cardinality(GaveUp) \in Nat
  BY <1>1, TotalsAreNumbers, CallsCounted
<1>4. CASE phase = "closed"
  <2>1. /\ at' = [at EXCEPT ![c] = "done"] /\ result' = [result EXCEPT ![c] = "closed"]
        /\ requests' = requests
    BY <1>4 DEF Attempt, End
  <2>2. Open' = Open
    BY <1>1, <2>1 DEF TypeOK, Open
  <2>3. GaveUp' = GaveUp
    BY <1>1, <2>1, GaveUpSame
  <2> QED BY <1>1, <1>3, <2>1, <2>2, <2>3, Balances
<1>5. CASE phase # "closed"
  <2>1. /\ at' = [at EXCEPT ![c] = "queued"] /\ result' = result
        /\ requests' = [requests EXCEPT ![Route(c, attempt[c])] = @ + 1]
    BY <1>5 DEF Attempt
  <2>2. Cardinality(Open') = Cardinality(Open) + 1 /\ GaveUp' = GaveUp
    BY <1>1, <2>1, OpenGrows DEF GaveUp
  <2>3. Total(requests') = Total(requests) + 1
    BY <1>1, <1>2, <2>1, UrlFinite, TotalGrows DEF TypeOK
  <2> QED BY <1>1, <1>3, <2>1, <2>2, <2>3, Balances
<1> QED BY <1>4, <1>5

(* A step that counts nothing. *)
LEMMA NothingCounted ==
    ASSUME CountersBalance, UNCHANGED <<counters, attempt, dropped>>, Open' = Open, GaveUp' = GaveUp
    PROVE  CountersBalance'
BY DEF CountersBalance, Open, GaveUp, counters

LEMMA NextBalance == ClientInv /\ TypeOK' /\ CountersBalance /\ [Next]_vars => CountersBalance'
<1> SUFFICES ASSUME ClientInv, TypeOK', CountersBalance, [Next]_vars PROVE CountersBalance'
  OBVIOUS
<1>0. TypeOK
  BY DEF ClientInv
<1>1. CASE Probe \/ Close \/ CloseSession \/ UNCHANGED vars
  BY <1>1, NothingCounted DEF Probe, Close, CloseSession, Open, GaveUp, vars, counters
<1>2. ASSUME NEW c \in Chat, Call(c) PROVE CountersBalance'
  <2>1. CASE base_urls = <<>>
    <3>1. /\ at[c] = "idle" /\ at' = [at EXCEPT ![c] = "done"]
          /\ result' = [result EXCEPT ![c] = "closed"]
          /\ UNCHANGED <<counters, attempt, dropped>>
      BY <1>2, <2>1 DEF Call, End, counters
    <3>2. Open' = Open
      BY <1>0, <3>1 DEF TypeOK, Open
    <3>3. GaveUp' = GaveUp
      BY <1>0, <3>1, GaveUpSame DEF ClientInv, WalkInv
    <3> QED BY <3>1, <3>2, <3>3, NothingCounted
  <2>2. CASE base_urls # <<>>
    BY <1>2, <2>2, AttemptBalances DEF Call
  <2> QED BY <2>1, <2>2
<1>3. ASSUME NEW c \in Chat, BackedOff(c) PROVE CountersBalance'
  BY <1>3, AttemptBalances DEF BackedOff, ClientInv, WalkInv, Begun
<1>4. ASSUME NEW c \in Chat, Acquire(c) PROVE CountersBalance'
  <2>1. CASE Route(c, attempt[c]) \in sessions
    <3>1. /\ at[c] = "queued" /\ at' = [at EXCEPT ![c] = "posted"]
          /\ UNCHANGED <<counters, attempt, result, dropped>>
      BY <1>4, <2>1 DEF Acquire
    <3>2. Open' = Open /\ GaveUp' = GaveUp
      BY <1>0, <3>1 DEF TypeOK, Open, GaveUp
    <3> QED BY <3>1, <3>2, NothingCounted
  <2>2. CASE Route(c, attempt[c]) \notin sessions
    <3> DEFINE o == [is |-> "exception", overlong |-> FALSE]
    <3>1. /\ Fail(c, o) /\ o \in Outcome /\ o.is # "ok" /\ at[c] = "queued"
          /\ UNCHANGED <<requests, client, dropped>>
      BY <1>4, <2>2 DEF Acquire, Outcome
    <3> QED BY <3>1, FailBalances DEF client
  <2> QED BY <2>1, <2>2
<1>5. ASSUME NEW c \in Chat, NEW o \in Outcome, Answer(c, o) PROVE CountersBalance'
  <2>1. CASE o.is = "ok"
    <3>1. /\ at[c] = "posted" /\ at' = [at EXCEPT ![c] = "done"]
          /\ result' = [result EXCEPT ![c] = "ok"] /\ completed' = completed + 1
          /\ UNCHANGED <<attempt, errors, retries, failed, requests, dropped>>
      BY <1>5, <2>1 DEF Answer, End
    <3>2. Cardinality(Open') = Cardinality(Open) - 1
      BY <1>0, <3>1, OpenShrinks DEF Open
    <3>3. GaveUp' = GaveUp
      BY <1>0, <3>1, GaveUpSame DEF ClientInv, WalkInv, Begun
    <3>4. /\ Total(requests) \in Nat /\ Total(errors) \in Nat /\ Total(attempt) \in Nat
          /\ completed \in Nat /\ failed \in Nat /\ retries \in Nat /\ dropped \in Nat
          /\ Cardinality(Open) \in Nat /\ Cardinality(GaveUp) \in Nat
      BY <1>0, TotalsAreNumbers, CallsCounted
    <3> QED BY <1>0, <3>1, <3>2, <3>3, <3>4, Balances
  <2>2. CASE o.is # "ok"
    BY <1>5, <2>2, FailBalances DEF Answer, client
  <2> QED BY <2>1, <2>2
<1>6. ASSUME NEW c \in Chat, Cancel(c) PROVE CountersBalance'
  <2>1. /\ at[c] \in {"backoff", "queued", "posted"} /\ at' = [at EXCEPT ![c] = "done"]
        /\ result' = [result EXCEPT ![c] = "cancelled"]
        /\ dropped' = dropped + (IF at[c] = "backoff" THEN 0 ELSE 1)
        /\ UNCHANGED <<counters, attempt>>
    BY <1>6 DEF Cancel, End
  <2>2. GaveUp' = GaveUp
    BY <1>0, <2>1, GaveUpSame DEF ClientInv, WalkInv, Begun
  <2>3. /\ Total(requests) \in Nat /\ Total(errors) \in Nat /\ Total(attempt) \in Nat
        /\ completed \in Nat /\ failed \in Nat /\ retries \in Nat /\ dropped \in Nat
        /\ Cardinality(Open) \in Nat /\ Cardinality(GaveUp) \in Nat
    BY <1>0, TotalsAreNumbers, CallsCounted
  <2>4. CASE at[c] = "backoff"
    <3>1. Open' = Open /\ dropped' = dropped
      BY <1>0, <2>1, <2>3, <2>4 DEF TypeOK, Open
    <3> QED BY <2>1, <2>2, <3>1, NothingCounted
  <2>5. CASE at[c] # "backoff"
    <3>1. Cardinality(Open') = Cardinality(Open) - 1 /\ dropped' = dropped + 1
      BY <1>0, <2>1, <2>5, OpenShrinks DEF Open
    <3> QED BY <1>0, <2>1, <2>2, <2>3, <3>1, Balances DEF counters
  <2> QED BY <2>4, <2>5
<1> QED BY <1>1, <1>2, <1>3, <1>4, <1>5, <1>6 DEF Next, Step

LEMMA InitBalance == Init => CountersBalance
<1> SUFFICES ASSUME Init PROVE CountersBalance
  OBVIOUS
<1>1. Units(requests) = {} /\ Units(errors) = {} /\ Units(attempt) = {}
  BY DEF Init, Units
<1>2. Open = {} /\ GaveUp = {}
  BY DEF Init, Open, GaveUp, Final
<1> QED BY <1>1, <1>2, FS_EmptySet DEF Init, CountersBalance, Total, Open, GaveUp

LEMMA WalkGivesAll == ClientInv => EveryReplicaTried
<1> SUFFICES ASSUME ClientInv, NEW c \in Chat, result[c] \in Exhausted,
                    Retries + 1 >= Len(base_urls)
             PROVE  failedBy[c] = {base_urls[i] : i \in 1..Len(base_urls)}
  BY DEF EveryReplicaTried, Exhausted
<1> DEFINE n == Len(base_urls)
<1>1. n \in Nat \ {0} /\ c \in Nat /\ Retries \in Nat
  BY ClientAssumption DEF ClientInv, TypeOK, WalkInv, Chat
<1>2. ASSUME NEW i \in 1..n PROVE base_urls[i] \in failedBy[c]
  <2>1. i - 1 \in 0..(n - 1)
    BY <1>1
  <2>2. PICK k \in 0..(n - 1) : (c + k) % n = i - 1
    BY <1>1, <2>1, WalkGoesRound
  <2>3. k \in 0..Retries /\ Route(c, k) = base_urls[i]
    BY <1>1, <2>2 DEF Route
  <2> QED BY <2>3 DEF ClientInv, WalkInv
<1> QED BY <1>2 DEF ClientInv, WalkInv

(* The inductive invariant holds in every run of the client.               *)
THEOREM ClientInvariant == Spec => []ClientInv
BY InitClient, NextClient, PTL DEF Spec

(* The variables of the client keep their types.                           *)
THEOREM ClientTypeCorrect == Spec => []TypeOK
BY ClientInvariant, PTL DEF ClientInv

(* No end of a request, expected or not, loses or invents a permit.        *)
THEOREM ClientPermitsConserved == Spec => []PermitsConserved
BY ClientInvariant, PTL DEF ClientInv

(* One replica in good order is enough: a call fails for want of a replica *)
(* only after each of them has failed it.                                  *)
THEOREM ClientTriesAll == Spec => []EveryReplicaTried
BY ClientInvariant, WalkGivesAll, PTL

(* The counters of the report add up at every moment: a request has one    *)
(* end or is under way, whoever is cancelled and whatever closes.          *)
THEOREM ClientCountersBalance == Spec => []CountersBalance
<1>1. ClientInv => TypeOK
  BY DEF ClientInv
<1> QED BY <1>1, ClientInvariant, InitBalance, NextBalance, PTL DEF Spec
=============================================================================
