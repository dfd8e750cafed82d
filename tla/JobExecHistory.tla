--------------------------- MODULE JobExecHistory ---------------------------
(***************************************************************************)
(* JobExec with a history variable: the kill requests clients have made    *)
(* since the server was started. The run of this module checks the engine, *)
(* and its refinement of SerialJobs.                                       *)
(***************************************************************************)
EXTENDS JobExecRefinement

VARIABLE asked  \* pairs of a job and an execution number

hvars == <<vars, asked>>

HInit == Init /\ asked = {}

HKillRequest(g, k, n) ==
  /\ server = "up"
  /\ KillRequest(g, k, n)
  /\ asked' = asked \cup {<<k, n>>}

HRestart == Restart /\ asked' = {}

HStep == server = "up" /\ Step /\ UNCHANGED asked

HNext ==
  \/ \E g \in Killers, k \in Keys, n \in KillArgs : HKillRequest(g, k, n)
  \/ HStep
  \/ HRestart

HSpec == HInit /\ [][HNext]_hvars

(* Go's scheduler runs every goroutine that can run; a command that hangs is   *)
(* timed out. Commands that end by themselves are not assumed.                 *)
HFairSpec ==
  /\ HSpec
  /\ \A e \in Runs : WF_hvars(server = "up" /\ Progress(e) /\ UNCHANGED asked)
  /\ \A g \in Killers : WF_hvars(server = "up" /\ KillGoroutine(g) /\ UNCHANGED asked)

Killed(r) == r # None /\ r = Ended(EXEC_FAILURE, EXEC_CANCELLED)

(* Only the execution a client asked to kill is killed: a request that comes   *)
(* too late, or for another execution, stays in KillExecChan and must not stop *)
(* the execution that finds it there (killJobExecution, ExecAsync).            *)
KilledWasAsked ==
  [][\A k \in Keys, n \in Seqs :
        Killed(job'[k][n]) /\ ~Killed(job[k][n]) => <<k, n>> \in asked \cup asked']_hvars
=============================================================================
