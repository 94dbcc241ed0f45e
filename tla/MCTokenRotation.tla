---------------------------- MODULE MCTokenRotation ----------------------------
(***************************************************************************)
(* Small instances of TokenRotation for TLC.                               *)
(***************************************************************************)
EXTENDS TokenRotation, TLC

Symmetry == Permutations(Rotators) \cup Permutations(Validators)
=============================================================================
