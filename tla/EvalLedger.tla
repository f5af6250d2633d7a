------------------------------ MODULE EvalLedger ------------------------------
(***************************************************************************)
(* What the suite runner promises the scripts that read its files: a       *)
(* ledger of the items attempted so far (<tag>.items.jsonl) and a report   *)
(* (<tag>.json) that always speaks of the ledger it was drawn from.  How   *)
(* the items are scheduled, limited, cancelled and resumed is left out.    *)
(***************************************************************************)
CONSTANT Item

VARIABLES
    measuring,  \* a process is at work on the tag
    scored,     \* items whose outcome counts
    failed,     \* items that were attempted and must be attempted again
    lost,       \* items the process attempted and could not write down
    report      \* the last report: its kind and the items it speaks of

vars == <<measuring, scored, failed, lost, report>>

Absent == [kind |-> "absent", items |-> {}]
Known  == scored \cup failed \cup lost

Init == measuring = FALSE /\ scored = {} /\ failed = {} /\ lost = {} /\ report = Absent

(* A process starts over, or takes the scored items of the last one. *)
Begin ==
    /\ ~measuring /\ measuring' = TRUE
    /\ scored' \in {{}, scored} /\ failed' = {}
    /\ UNCHANGED <<lost, report>>

(* An item is attempted once by a process. *)
Record(i) ==
    /\ measuring /\ i \notin Known
    /\ \/ scored' = scored \cup {i} /\ UNCHANGED <<failed, lost>>
       \/ failed' = failed \cup {i} /\ UNCHANGED <<scored, lost>>
       \/ lost' = lost \cup {i} /\ UNCHANGED <<scored, failed>>
    /\ UNCHANGED <<measuring, report>>

(* A report covers exactly the ledger and what the process knows beside    *)
(* it; only one that covers every item may call itself complete.           *)
Draw(kind) ==
    /\ measuring
    /\ kind = "complete" => Known = Item
    /\ report' = [kind |-> kind, items |-> Known]
    /\ UNCHANGED <<scored, failed>>

Progress == Draw("partial") /\ UNCHANGED <<measuring, lost>>

Conclude == /\ \E kind \in {"partial", "truncated", "complete"} : Draw(kind)
            /\ measuring' = FALSE /\ lost' = {}

(* The process disappears, and what it has not written with it. *)
Vanish == /\ measuring /\ measuring' = FALSE /\ lost' = {}
          /\ UNCHANGED <<scored, failed, report>>

Next == Begin \/ (\E i \in Item : Record(i)) \/ Progress \/ Conclude \/ Vanish

Spec == Init /\ [][Next]_vars

=============================================================================
