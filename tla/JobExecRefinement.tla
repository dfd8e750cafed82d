-------------------------- MODULE JobExecRefinement --------------------------
(***************************************************************************)
(* JobExec implements SerialJobs: an execution is pending from the moment  *)
(* execJob gave it a number until it has sent to ExecChan, and running     *)
(* from there until it has received from ExecChan.                         *)
(***************************************************************************)
EXTENDS JobExec

PhaseOf(e) == IF InSlot(e) THEN "running" ELSE "pending"

AbstractRun(e) ==
  IF Alive(e) THEN [phase |-> PhaseOf(e), key |-> exec[e].key, seq |-> exec[e].seq]
  ELSE [phase |-> "free", key |-> None, seq |-> 0]

Abstract == INSTANCE SerialJobs
              WITH Slots <- Runs, Numbers <- Seqs,
                   runs <- [e \in Runs |-> AbstractRun(e)]

(* Channels, locks and restarts together give what SerialJobs promises: one    *)
(* execution of a job at a time, each with a number of its own (execJob,       *)
(* runJobExecution, recoverSeqNo).                                             *)
ImplementsSerialJobs == Abstract!Spec
=============================================================================
