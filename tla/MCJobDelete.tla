---------------------------- MODULE MCJobDelete ----------------------------
(***************************************************************************)
(* Deletions of one job are interchangeable.                               *)
(***************************************************************************)
EXTENDS JobDelete, TLC

Symmetry == Permutations(Deleters)
=============================================================================
