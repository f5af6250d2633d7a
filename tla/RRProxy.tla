------------------------------- MODULE RRProxy --------------------------------
(***************************************************************************)
(* bench/rr_proxy.py, the round-robin proxy in front of the replicas of a  *)
(* cell: one handler thread per connection, which reads the request, takes *)
(* the next backend under a lock, forwards the request, relays the answer  *)
(* chunk by chunk and gives its place in the counters back.                *)
(*                                                                         *)
(* A connection carries one request (every answer closes it); an answer is *)
(* the number of chunks relayed.  GET /health and GET /proxy_stats only    *)
(* read and are left out.                                                  *)
(***************************************************************************)
EXTENDS Integers, FiniteSets

CONSTANTS
    Request,    \* the connections clients open
    N,          \* how many backends --backends lists
    Chunks      \* length of every backend's answer

ASSUME ProxyAssumption == /\ IsFiniteSet(Request)
                          /\ N \in Nat \ {0}
                          /\ Chunks \in Nat

Backend == 1..N

VARIABLES
    pc,        \* where the handler of each request stands
    at,        \* the backend of each request, 0 before it is picked
    framing,   \* how the backend delimits its answer
    got,       \* chunks relayed to the client
    error,     \* the local variable `error` of _forward
    answer,    \* what the client has seen of the end of its answer
    turn,      \* STATE.cycle: the backend that is next
    counts, errors, inflight   \* the counters of STATE

handlerVars == <<pc, at, framing, got, error, answer>>
stateVars   == <<turn, counts, errors, inflight>>
vars        == <<handlerVars, stateVars>>

(* At a backend: from pick to done, and for ever when the handler died of  *)
(* an exception in between.                                                *)
AtBackend == {"connect", "refuse", "stream", "close", "died"}
Ended     == {"done", "died"}

Init ==
    /\ pc = [r \in Request |-> "idle"]
    /\ at = [r \in Request |-> 0]
    /\ framing = [r \in Request |-> "none"]
    /\ got = [r \in Request |-> 0]
    /\ error = [r \in Request |-> FALSE]
    /\ answer = [r \in Request |-> "none"]
    /\ turn = 1
    /\ counts = [b \in Backend |-> 0]
    /\ errors = [b \in Backend |-> 0]
    /\ inflight = [b \in Backend |-> 0]

(* Mutant of PickBackend: a busy backend sends the turn back to the first. *)
PickFirstWhenBusy(r) ==
    /\ at' = [at EXCEPT ![r] = turn]
    /\ turn' = IF turn = N \/ inflight[turn] > 0 THEN 1 ELSE turn + 1
    /\ counts' = [counts EXCEPT ![turn] = @ + 1]
    /\ inflight' = [inflight EXCEPT ![turn] = @ + 1]
    /\ UNCHANGED errors

-----------------------------------------------------------------------------
(* STATE.pick and STATE.done, both under the lock. *)
PickBackend(r) ==
    /\ at' = [at EXCEPT ![r] = turn]
    /\ turn' = IF turn = N THEN 1 ELSE turn + 1
    /\ counts' = [counts EXCEPT ![turn] = @ + 1]
    /\ inflight' = [inflight EXCEPT ![turn] = @ + 1]
    /\ UNCHANGED errors

(* Mutant of Leave: a failed request only adds to the errors.              *)
LeaveFailedInflight(b, failed) ==
    /\ inflight' = IF failed THEN inflight ELSE [inflight EXCEPT ![b] = @ - 1]
    /\ errors' = IF failed THEN [errors EXCEPT ![b] = @ + 1] ELSE errors
    /\ UNCHANGED <<turn, counts>>

Leave(b, failed) ==
    /\ inflight' = [inflight EXCEPT ![b] = @ - 1]
    /\ errors' = IF failed THEN [errors EXCEPT ![b] = @ + 1] ELSE errors
    /\ UNCHANGED <<turn, counts>>

-----------------------------------------------------------------------------
(* _forward, from the handler thread's start to the pick. *)
Arrive(r) ==
    /\ pc[r] = "idle"
    /\ pc' = [pc EXCEPT ![r] = "body"]
    /\ UNCHANGED <<at, framing, got, error, answer, stateVars>>

(* The body cannot be read: 400, and no backend was picked. *)
BadBody(r) ==
    /\ pc[r] = "body"
    /\ pc' = [pc EXCEPT ![r] = "done"]
    /\ answer' = [answer EXCEPT ![r] = "400"]
    /\ UNCHANGED <<at, framing, got, error, stateVars>>

Pick(r) ==
    /\ pc[r] = "body"
    /\ pc' = [pc EXCEPT ![r] = "connect"]
    /\ PickBackend(r)
    /\ UNCHANGED <<framing, got, error, answer>>

-----------------------------------------------------------------------------
(* Up to the head of the backend's answer. *)

(* Refused, reset, silent beyond the timeout or not HTTP. *)
BackendFails(r) ==
    /\ pc[r] = "connect"
    /\ pc' = [pc EXCEPT ![r] = "refuse"]
    /\ UNCHANGED <<at, framing, got, error, answer, stateVars>>

(* The 502 goes to the client before the counters change; a client that is *)
(* gone is no matter.                                                      *)
Refuse(r) ==
    /\ pc[r] = "refuse" /\ answer[r] = "none"
    /\ answer' = [answer EXCEPT ![r] = "502"]
    /\ UNCHANGED <<pc, at, framing, got, error, stateVars>>

RefuseDone(r) ==
    /\ pc[r] = "refuse" /\ answer[r] = "502"
    /\ pc' = [pc EXCEPT ![r] = "done"]
    /\ Leave(at[r], TRUE)
    /\ UNCHANGED <<at, framing, got, error, answer>>

(* An exception no clause names, while the request is built or the 502 is  *)
(* sent: the thread dies and done is never called.                         *)
HandlerDies(r) ==
    /\ \/ pc[r] = "connect"
       \/ pc[r] = "refuse" /\ answer[r] = "none"
    /\ pc' = [pc EXCEPT ![r] = "died"]
    /\ UNCHANGED <<at, framing, got, error, answer, stateVars>>

(* A status of 500 or more is relayed and remembered as an error once the  *)
(* answer is through.                                                      *)
Respond(r) ==
    /\ pc[r] = "connect"
    /\ pc' = [pc EXCEPT ![r] = "stream"]
    /\ \E f \in {"length", "chunked"} : framing' = [framing EXCEPT ![r] = f]
    /\ UNCHANGED <<at, got, error, answer, stateVars>>

-----------------------------------------------------------------------------
(* Relaying the answer. *)
Relay(r) ==
    /\ pc[r] = "stream" /\ got[r] < Chunks
    /\ got' = [got EXCEPT ![r] = @ + 1]
    /\ UNCHANGED <<pc, at, framing, error, answer, stateVars>>

EndRelay(r, a, e) ==
    /\ pc[r] = "stream"
    /\ pc' = [pc EXCEPT ![r] = "close"]
    /\ answer' = [answer EXCEPT ![r] = a]
    /\ error' = [error EXCEPT ![r] = e]
    /\ UNCHANGED <<at, framing, got, stateVars>>

(* read1 returned nothing: the terminator is written. *)
Terminate(r) ==
    \E serverError \in BOOLEAN :
        got[r] = Chunks /\ EndRelay(r, "terminated", serverError)

(* Mutant of BackendCloses: every early end looks like the end.            *)
BackendClosesUnseen(r) ==
    /\ got[r] < Chunks
    /\ EndRelay(r, "terminated", FALSE)

(* The backend closes its connection in the middle: of a chunked answer,   *)
(* read1 raises IncompleteRead; of one with a Content-Length, read1        *)
(* returns nothing, as at the end.                                         *)
BackendCloses(r) ==
    /\ got[r] < Chunks
    /\ \/ framing[r] = "chunked" /\ EndRelay(r, "broken", TRUE)
       \/ /\ framing[r] = "length"
          /\ \E serverError \in BOOLEAN :
                EndRelay(r, "terminated", serverError)

(* ConnectionResetError, from the backend's socket or the client's, or a   *)
(* broken pipe at the client's: all three are passed over.                 *)
Reset(r) == EndRelay(r, "broken", FALSE)

(* Mutant of ReadTimeout: the timeout is armed by the first chunk only.    *)
IdleTimeout(r) ==
    /\ got[r] > 0 /\ got[r] < Chunks
    /\ EndRelay(r, "broken", TRUE)

(* Any other OSError is an error of the backend's: its silence beyond the  *)
(* read timeout, and also a client that no longer acknowledges.            *)
ReadTimeout(r) ==
    got[r] < Chunks /\ EndRelay(r, "broken", TRUE)

ClientTimeout(r) == EndRelay(r, "broken", TRUE)

(* The finally clause. *)
Close(r) ==
    /\ pc[r] = "close"
    /\ pc' = [pc EXCEPT ![r] = "done"]
    /\ Leave(at[r], error[r])
    /\ UNCHANGED <<at, framing, got, error, answer>>

-----------------------------------------------------------------------------
ToBackend(r) == Pick(r) \/ BackendFails(r) \/ Respond(r)

ToClient(r) == \/ Relay(r) \/ Terminate(r) \/ BackendCloses(r)
               \/ Reset(r) \/ ReadTimeout(r) \/ ClientTimeout(r)

GiveBack(r) == Refuse(r) \/ RefuseDone(r) \/ Close(r)

Next == \E r \in Request : \/ Arrive(r) \/ BadBody(r) \/ HandlerDies(r)
                            \/ ToBackend(r) \/ ToClient(r) \/ GiveBack(r)

(* A backend that is silent meets a timeout, an answer that is all there   *)
(* is finished (clients read what they are sent or go away), and a thread  *)
(* that waits for nothing runs.  Backends owe nobody an answer.            *)
Fairness ==
    \A r \in Request :
        /\ WF_vars(BackendFails(r)) /\ WF_vars(ReadTimeout(r))
        /\ WF_vars(Terminate(r)) /\ WF_vars(GiveBack(r))

Spec     == Init /\ [][Next]_vars
LiveSpec == Spec /\ Fairness

-----------------------------------------------------------------------------
(* Types. *)
TypeOK ==
    /\ pc \in [Request -> {"idle", "body", "connect", "refuse", "stream", "close",
                           "done", "died"}]
    /\ at \in [Request -> 0..N]
    /\ framing \in [Request -> {"none", "length", "chunked"}]
    /\ got \in [Request -> 0..Chunks]
    /\ error \in [Request -> BOOLEAN]
    /\ answer \in [Request -> {"none", "400", "502", "terminated", "broken"}]
    /\ turn \in Backend
    /\ counts \in [Backend -> Nat]
    /\ errors \in [Backend -> Nat]
    /\ inflight \in [Backend -> Nat]

(* Whatever the handlers are at, the backends have been given the same     *)
(* number of requests, those before the turn one more: the fan-out the     *)
(* replica cells are measured under.                                       *)
RoundRobin ==
    \A b, c \in Backend :
        b < c => counts[b] = counts[c] + (IF b < turn /\ turn <= c THEN 1 ELSE 0)

(* inflight counts exactly the requests between pick and done, and those   *)
(* whose handler died there: no other path leaks or returns one twice.     *)
Present(b) == {r \in Request : at[r] = b /\ pc[r] \in AtBackend}

InflightExact == \A b \in Backend : inflight[b] = Cardinality(Present(b))

(* Every 502 a client was sent is among the backend's errors once its      *)
(* handler is through.                                                     *)
Refused(b) == {r \in Request : at[r] = b /\ answer[r] = "502" /\ pc[r] = "done"}

RefusalsCounted == \A b \in Backend : errors[b] >= Cardinality(Refused(b))

(* The counters that /proxy_stats reports.                                 *)
CountersExact == InflightExact /\ RefusalsCounted

(* A streamed answer ends with the terminator only if all of it was        *)
(* relayed.                                                                *)
StreamTerminatedWhole ==
    \A r \in Request :
        framing[r] = "chunked" /\ answer[r] = "terminated" => got[r] = Chunks

(* What these rest on: a handler that is at a backend has picked one, and  *)
(* what its client has seen fits the place where it stands.                *)
HandlerShape ==
    \A r \in Request :
        /\ pc[r] \in {"idle", "body"} => at[r] = 0
        /\ pc[r] \in AtBackend => at[r] \in Backend
        /\ pc[r] \in {"idle", "body", "connect", "stream"} => answer[r] = "none"
        /\ pc[r] = "refuse" => answer[r] \in {"none", "502"}
        /\ pc[r] = "close" => answer[r] \in {"terminated", "broken"}

(* A request that was given to a backend leaves it again, counted, or its  *)
(* handler has died of an exception.                                       *)
RequestsEnd == \A r \in Request : pc[r] = "connect" ~> pc[r] \in Ended

=============================================================================
