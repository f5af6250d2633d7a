------------------------------ MODULE ChatClient -------------------------------
(***************************************************************************)
(* evalsuite/common.py, ChatClient: the requests of a quality run.  Items  *)
(* call chat() concurrently; a semaphore bounds what is under way, every   *)
(* retry goes to the next live replica, and the counters go to the report  *)
(* of the run.  Replicas fail as they like, a caller may be cancelled at   *)
(* any await, and close() may come while calls are under way.              *)
(***************************************************************************)
EXTENDS Integers, Sequences, FiniteSets

CONSTANTS
    BaseUrls,       \* the replicas, a sequence
    NChats,         \* items 0..NChats-1; the index of an item is its route_key
    Concurrency, Retries

ASSUME ClientAssumption ==
    /\ BaseUrls \in Seq(STRING) /\ NChats \in Nat
    /\ Concurrency \in Nat \ {0} /\ Retries \in Nat

Chat == 0..(NChats - 1)
Url  == {BaseUrls[i] : i \in 1..Len(BaseUrls)}

VARIABLES
    phase,                  \* of the client: "open", "probed", "closed"
    base_urls,              \* the replicas that answered the probe
    sessions,               \* the replicas whose session is open
    sem,                    \* the permits that are left
    at, attempt, result,    \* of each call of chat()
    requests, errors,       \* per_url
    retries, completed, failed,   \* totals; completed stands for the tokens
    failedBy,               \* history: the replicas that failed a call
    dropped                 \* history: requests whose caller was cancelled

vars == <<phase, base_urls, sessions, sem, at, attempt, result, requests, errors,
          retries, completed, failed, failedBy, dropped>>

client   == <<phase, base_urls, sessions>>
counters == <<requests, errors, retries, completed, failed>>

Init ==
    /\ phase = "open" /\ base_urls = BaseUrls /\ sessions = Url
    /\ sem = Concurrency
    /\ at = [c \in Chat |-> "idle"] /\ attempt = [c \in Chat |-> 0]
    /\ result = [c \in Chat |-> "none"]
    /\ requests = [u \in Url |-> 0] /\ errors = [u \in Url |-> 0]
    /\ retries = 0 /\ completed = 0 /\ failed = 0
    /\ failedBy = [c \in Chat |-> {}] /\ dropped = 0

(* probe: the replicas that do not answer are dropped for good.            *)
Probe ==
    /\ phase = "open" /\ phase' = "probed"
    /\ \E n \in 0..Len(BaseUrls) : \E alive \in [1..n -> 1..Len(BaseUrls)] :
          /\ \A i, j \in 1..n : i < j => alive[i] < alive[j]
          /\ base_urls' = [i \in 1..n |-> BaseUrls[alive[i]]]
    /\ UNCHANGED <<sessions, sem, at, attempt, result, counters, failedBy, dropped>>

(* Mutant of Route: a retry goes where the first attempt went.             *)
RouteSticky(c, k) == base_urls[(c % Len(base_urls)) + 1]

Route(c, k) == base_urls[((c + k) % Len(base_urls)) + 1]

End(c, r) == at' = [at EXCEPT ![c] = "done"] /\ result' = [result EXCEPT ![c] = r]

(* Mutant of Attempt: the request is counted before the flag is read.      *)
AttemptCountsFirst(c) ==
    /\ requests' = [requests EXCEPT ![Route(c, attempt[c])] = @ + 1]
    /\ IF phase = "closed" THEN End(c, "closed")
                           ELSE at' = [at EXCEPT ![c] = "queued"] /\ UNCHANGED result

(* The head of the loop: a closed client sends nothing, the attempt counts.*)
Attempt(c) ==
    IF phase = "closed"
    THEN End(c, "closed") /\ UNCHANGED requests
    ELSE /\ at' = [at EXCEPT ![c] = "queued"] /\ UNCHANGED result
         /\ requests' = [requests EXCEPT ![Route(c, attempt[c])] = @ + 1]

Call(c) ==
    /\ phase # "open" /\ at[c] = "idle"
    /\ IF base_urls = <<>> THEN End(c, "closed") /\ UNCHANGED requests ELSE Attempt(c)
    /\ UNCHANGED <<client, sem, attempt, errors, retries, completed, failed, failedBy, dropped>>

BackedOff(c) ==
    /\ at[c] = "backoff" /\ Attempt(c)
    /\ UNCHANGED <<client, sem, attempt, errors, retries, completed, failed, failedBy, dropped>>

(* What a request can come to; `overlong` is the wording of a body that    *)
(* _error_kind takes for an exceeded context.                              *)
Outcome == [is : {"ok", "malformed", "timeout", "connection", "busy", "refused", "exception"},
            overlong : BOOLEAN]

Retryable(o) == \/ o.is \in {"malformed", "timeout", "connection"}
                \/ o.is = "busy" /\ ~o.overlong

Kind(o) == IF o.is \in {"busy", "refused"} /\ o.overlong THEN "context_length" ELSE o.is

MayRetry(c, o) == Retryable(o) /\ attempt[c] < Retries

(* An attempt has failed: another one after a back-off, or the end.        *)
Fail(c, o) ==
    LET u == Route(c, attempt[c]) IN
    /\ errors' = [errors EXCEPT ![u] = @ + 1]
    /\ failedBy' = [failedBy EXCEPT ![c] = @ \cup {u}]
    /\ UNCHANGED completed
    /\ IF MayRetry(c, o)
       THEN /\ attempt' = [attempt EXCEPT ![c] = @ + 1] /\ retries' = retries + 1
            /\ at' = [at EXCEPT ![c] = "backoff"] /\ UNCHANGED <<result, failed>>
       ELSE End(c, Kind(o)) /\ failed' = failed + 1 /\ UNCHANGED <<attempt, retries>>

(* A call gets a permit.  Without a session the request is never made.     *)
Acquire(c) ==
    /\ at[c] = "queued" /\ sem > 0
    /\ IF Route(c, attempt[c]) \in sessions
       THEN /\ at' = [at EXCEPT ![c] = "posted"] /\ sem' = sem - 1
            /\ UNCHANGED <<attempt, result, counters, failedBy>>
       ELSE Fail(c, [is |-> "exception", overlong |-> FALSE]) /\ UNCHANGED <<requests, sem>>
    /\ UNCHANGED <<client, dropped>>

(* Mutant of Freed: the permit comes back when the request went well.      *)
FreedOnSuccess(o) == IF o.is = "ok" THEN 1 ELSE 0

Freed(o) == 1

(* The request ends.  One whose session was closed ends with its connection.*)
Answer(c, o) ==
    /\ at[c] = "posted"
    /\ Route(c, attempt[c]) \notin sessions => o.is = "connection"
    /\ sem' = sem + Freed(o)
    /\ IF o.is = "ok"
       THEN /\ completed' = completed + 1 /\ End(c, "ok")
            /\ UNCHANGED <<attempt, errors, retries, failed, failedBy>>
       ELSE Fail(c, o)
    /\ UNCHANGED <<client, requests, dropped>>

(* The caller is cancelled at whatever await it is in.                     *)
Cancel(c) ==
    /\ at[c] \in {"backoff", "queued", "posted"}
    /\ End(c, "cancelled")
    /\ sem' = sem + (IF at[c] = "posted" THEN 1 ELSE 0)
    /\ dropped' = dropped + (IF at[c] = "backoff" THEN 0 ELSE 1)
    /\ UNCHANGED <<client, attempt, counters, failedBy>>

(* close: the flag first, then one session after the other.                *)
Close ==
    /\ phase = "probed" /\ phase' = "closed"
    /\ UNCHANGED <<base_urls, sessions, sem, at, attempt, result, counters, failedBy, dropped>>

CloseSession ==
    /\ phase = "closed"
    /\ \E u \in sessions : sessions' = sessions \ {u}
    /\ UNCHANGED <<phase, base_urls, sem, at, attempt, result, counters, failedBy, dropped>>

Step(c) == \/ Call(c) \/ BackedOff(c) \/ Acquire(c) \/ \E o \in Outcome : Answer(c, o)

Next == \/ Probe \/ Close \/ CloseSession
        \/ \E c \in Chat : Step(c) \/ Cancel(c)

Spec == Init /\ [][Next]_vars

(* A request ends at the latest by its timeout; the event loop runs what   *)
(* is ready.  Nobody has to cancel or to close.                            *)
LiveSpec == Spec /\ WF_vars(Probe) /\ \A c \in Chat : WF_vars(Step(c))

-----------------------------------------------------------------------------
Posted == {c \in Chat : at[c] = "posted"}
Final  == {"ok", "malformed", "timeout", "connection", "busy", "refused", "exception",
           "context_length", "cancelled", "closed"}

(* The state has the types the code's variables have.                      *)
TypeOK ==
    /\ phase \in {"open", "probed", "closed"} /\ sessions \subseteq Url
    /\ base_urls \in Seq(Url) /\ sem \in 0..Concurrency
    /\ at \in [Chat -> {"idle", "backoff", "queued", "posted", "done"}]
    /\ attempt \in [Chat -> 0..Retries] /\ result \in [Chat -> Final \cup {"none"}]
    /\ requests \in [Url -> Nat] /\ errors \in [Url -> Nat]
    /\ retries \in Nat /\ completed \in Nat /\ failed \in Nat
    /\ failedBy \in [Chat -> SUBSET Url] /\ dropped \in Nat

(* Whatever ends a request - an answer, an error, a cancelled caller, a    *)
(* session closed under it - its permit comes back exactly once, so that   *)
(* --concurrency is what the servers see, neither more nor less for ever.  *)
PermitsConserved == sem + Cardinality(Posted) = Concurrency

(* A call that gives up for want of a replica has failed at every replica  *)
(* that was alive at the probe, if there are retries enough to go round:   *)
(* one healthy replica is enough for every item (common.py:656).           *)
EveryReplicaTried ==
    \A c \in Chat :
        /\ result[c] \in {"malformed", "timeout", "connection", "busy"}
        /\ Retries + 1 >= Len(base_urls)
        => failedBy[c] = {base_urls[i] : i \in 1..Len(base_urls)}

(* A total is the number of the units that make it up, one per count.      *)
Units(f) == UNION {{u} \X (1..f[u]) : u \in DOMAIN f}
Total(f) == Cardinality(Units(f))

(* The report's counters agree with what happened: each request has one    *)
(* end or is under way, each call that failed counts one error and each    *)
(* further attempt one retry, also across cancellations and close.         *)
CountersBalance ==
    /\ Total(requests) = completed + Total(errors) + dropped
                           + Cardinality({c \in Chat : at[c] \in {"queued", "posted"}})
    /\ failed = Cardinality({c \in Chat : result[c] \in Final \ {"ok", "cancelled", "closed"}})
    /\ retries = Total(attempt)

(* Every call of chat ends: with an answer, an error, or "closed".         *)
CallsEnd == \A c \in Chat : <>(at[c] = "done")
=============================================================================
