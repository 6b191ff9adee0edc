----------------------------- MODULE MCRunStore -----------------------------
(***************************************************************************)
(* Instances of RunStore for TLC.                                          *)
(***************************************************************************)
EXTENDS RunStore, TLC

Symmetry == Permutations(Workers) \cup Permutations(CommitIds)
=============================================================================
