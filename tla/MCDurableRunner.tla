--------------------------- MODULE MCDurableRunner ---------------------------
(***************************************************************************)
(* Instances of DurableRunner for TLC.                                     *)
(***************************************************************************)
EXTENDS DurableRunner, TLC

Symmetry == Permutations(Workers)
=============================================================================
