----------------------------- MODULE MCCampaign -------------------------------
(* An instance of Campaign for TLC. *)
EXTENDS Campaign

Ksweep(mode, first, resume, judged, rows) ==
    [mode |-> mode, first |-> first, resume |-> resume, judged |-> judged,
     rows |-> rows]

(* What rearm_all.sh arms on the 400 W box: chain_master2, and chain_post2 *)
(* that waits for its DONE line.                                           *)
Second == [c \in Chain |-> "master2"]

(* One list of each, cut to its first row: throughput of an arm that has   *)
(* one combination (chain_master2.sh, line 8), quality of an arm that has  *)
(* two (chain_post2.sh, line 13).                                          *)
Box400 ==
    [c \in Chain |->
        IF c = "master2"
        THEN << Ksweep("bench", FALSE, FALSE, TRUE, << <<"bf16">> >>) >>
        ELSE << Ksweep("eval", FALSE, FALSE, TRUE, << <<"ling_b12x", "ling">> >>) >>]

(* What it arms on the 600 W box: chain600w4 waits for chain600w3d.        *)
Waiter == [c \in Chain |-> "w3d"]

(* The quality of the first combination that serves (chain600w3d.sh, line  *)
(* 12), its throughput (line 13) and a run that is taken up again (line    *)
(* 16); the quality of one more arm (chain600w4.sh, line 12).              *)
Box600 ==
    [c \in Chain |->
        IF c = "w3d"
        THEN << Ksweep("eval", TRUE, FALSE, TRUE, << <<"ds_b12x", "ds">> >>),
                Ksweep("bench", FALSE, FALSE, TRUE, << <<"ds_b12x", "ds">> >>),
                Ksweep("eval", FALSE, TRUE, TRUE, << <<"fp8">> >>) >>
        ELSE << Ksweep("eval", FALSE, FALSE, TRUE, << <<"rep">> >>) >>]

=============================================================================
