---------------------------- MODULE ARCRefinement ----------------------------
(***************************************************************************)
(* ARCCache implements LossyCache: the value of a key is what Peek finds.  *)
(***************************************************************************)
EXTENDS ARCCache

Abstract == INSTANCE LossyCache WITH cache <- [k \in Keys |-> Peek(k)]

(* Whatever the four lists do, no caller is given a value other than the one   *)
(* added last, nor the empty value of a ghost, and no operation forgets more   *)
(* than it may (Get, Add, Remove, Purge of lru/arc.go).                        *)
ImplementsLossyCache == Abstract!Spec
=============================================================================
