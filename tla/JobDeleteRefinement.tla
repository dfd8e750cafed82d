------------------------- MODULE JobDeleteRefinement -------------------------
(***************************************************************************)
(* Numbers of executions across deletions. A job that is deleted and made  *)
(* anew counts from 0 again (createJob). The engine with deletions         *)
(* implements SerialJobs, with the mapping of JobExecRefinement, as long   *)
(* as nobody asks for an execution of a job without configuration file: a  *)
(* creation or a deletion that gave up leaves such a job in the cache, and *)
(* its numbers start again when it is evicted and made anew.               *)
(***************************************************************************)
EXTENDS JobDelete, JobExecRefinement

VARIABLE strayed  \* was an execution asked for of a job without configuration file?

hdvars == <<dvars, strayed>>

Strays == \E e \in Runs, k \in Keys : ExecCheck(e, k) /\ k \notin files

HDInit == DInit /\ strayed = FALSE
HDNext == DNext /\ strayed' = (strayed \/ Strays)
HDSpec == HDInit /\ [][HDNext]_hdvars

HDFairSpec == HDSpec /\ DFairness

(* Nothing is promised once that was so: as if the executions were forgotten.  *)
AnewRun(e) == IF strayed THEN [phase |-> "free", key |-> None, seq |-> 0] ELSE AbstractRun(e)

Anew == INSTANCE SerialJobs
          WITH Slots <- Runs, Numbers <- Seqs, runs <- [e \in Runs |-> AnewRun(e)]

(* Channels, locks, tables, deletions and restarts together give what          *)
(* SerialJobs promises: one execution of a job at a time, under a number no    *)
(* other live one has, also when the job is made anew and its numbers start    *)
(* again (execJob, runJobExecution, delJob, createJob). Creations and          *)
(* deletions that give up are part of it, until such a job is executed.        *)
SerialJobsAnew == Anew!Spec

(* Only a panic ends the server: nothing is left that the numbers of a job     *)
(* made anew could clash with, whatever was killed, deleted, evicted or        *)
(* restarted in between, unless a job without configuration file was executed  *)
(* (InsertExecutionRecord, log.Fatal).                                         *)
FatalOnlyByPanic == [][server = "up" /\ server' # "up" /\ ~strayed => Panics]_hdvars
=============================================================================
