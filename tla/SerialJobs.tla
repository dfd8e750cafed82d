----------------------------- MODULE SerialJobs -----------------------------
(***************************************************************************)
(* What She-Ra promises about executions, whatever channels, locks and     *)
(* tables it uses (api/jobs/handlers.go): a client submits executions of   *)
(* jobs, no two live executions of a job have the same number, they run    *)
(* one at a time for each job, and a crash forgets all of them.            *)
(***************************************************************************)
EXTENDS Naturals

CONSTANTS
  Keys,     \* the jobs
  Slots,    \* the executions that can be live at the same time
  Numbers,  \* the numbers executions can have
  None      \* no job

VARIABLE runs  \* for each slot, the phase, the job and the number of an execution

Free == [phase |-> "free", key |-> None, seq |-> 0]

Live(k) == {s \in Slots : runs[s].phase # "free" /\ runs[s].key = k}

Init == runs = [s \in Slots |-> Free]

(* execJob gives the execution a number no live execution of the job has. *)
Submit(s, k, n) ==
  /\ runs[s] = Free
  /\ \A t \in Live(k) : runs[t].seq # n
  /\ runs' = [runs EXCEPT ![s] = [phase |-> "pending", key |-> k, seq |-> n]]

(* runJobExecution gets the place of the job. *)
Start(s) ==
  /\ runs[s].phase = "pending"
  /\ \A t \in Live(runs[s].key) : runs[t].phase # "running"
  /\ runs' = [runs EXCEPT ![s].phase = "running"]

(* COMMON_HANDLING gives the place back. *)
Finish(s) ==
  /\ runs[s].phase = "running"
  /\ runs' = [runs EXCEPT ![s] = Free]

Crash == runs' = [s \in Slots |-> Free]

Next ==
  \/ \E s \in Slots, k \in Keys, n \in Numbers : Submit(s, k, n)
  \/ \E s \in Slots : Start(s) \/ Finish(s)
  \/ Crash

Spec == Init /\ [][Next]_runs
=============================================================================
