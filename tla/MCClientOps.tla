----------------------------- MODULE MCClientOps -----------------------------
(***************************************************************************)
(* The definitions the TLC runs of ClientOps need.                         *)
(***************************************************************************)
EXTENDS ClientOps, TLC

Symmetry == Permutations(Tasks) \cup Permutations(Closers)
=============================================================================
