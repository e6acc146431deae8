---------------------------- MODULE MCBottomSheets ----------------------------
(***************************************************************************)
(* Model checking of BottomSheets.  The sheets of a class are              *)
(* interchangeable in the invariants and the action properties, so the     *)
(* safety run reduces by symmetry; the liveness run does not.              *)
(***************************************************************************)
EXTENDS BottomSheets, TLC

Symmetry == Permutations(Small) \union Permutations(Standard)
=============================================================================
