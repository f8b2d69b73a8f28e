----------------------------- MODULE MCFFBuffers -----------------------------
(***************************************************************************)
(* Instances of FFBuffers for TLC.                                         *)
(***************************************************************************)
EXTENDS FFBuffers, TLC

Symmetry == Permutations(Clients)
=============================================================================
