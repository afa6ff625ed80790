--------------------------- MODULE MCFinalReport ---------------------------
(* A model of its own for symmetry: peers, jobs and values are alike. *)
EXTENDS FinalReport, TLC

Interchangeable == Permutations(Peer) \cup Permutations(Job) \cup Permutations(Value)
=============================================================================
