----------------------------- MODULE MCJobStore -----------------------------
(***************************************************************************)
(* JobStore for TLC: requests are interchangeable, and so are              *)
(* configurations that createJob and WriteData accept.                     *)
(***************************************************************************)
EXTENDS JobStore, TLC

Sym == Permutations(Clients) \cup Permutations(Configs \ (NoImage \cup NoMarshal))

(* No step depends on the last answer, which ConfigStore compares in the step  *)
(* that gives it: states that differ in nothing else are one.                  *)
View == <<server, memory, disk, tables, req, sure, failed, strayed>>
=============================================================================
