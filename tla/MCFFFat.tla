------------------------------ MODULE MCFFFat ------------------------------
(* TLC instances of FFFat. *)
EXTENDS FFFat, TLC
FatSymmetry == Permutations(Tasks)
=============================================================================
