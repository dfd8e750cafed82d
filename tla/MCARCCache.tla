----------------------------- MODULE MCARCCache -----------------------------
(***************************************************************************)
(* ARCCache for TLC: keys and values are interchangeable.                  *)
(***************************************************************************)
EXTENDS ARCRefinement, TLC

Sym == Permutations(Keys) \cup Permutations(Values)
=============================================================================
