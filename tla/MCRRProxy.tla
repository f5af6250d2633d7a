------------------------------ MODULE MCRRProxy -------------------------------
(* Instances of RRProxy for TLC; handlers are interchangeable. *)
EXTENDS RRProxy, TLC

Handlers == Permutations(Request)

=============================================================================
