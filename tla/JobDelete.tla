----------------------------- MODULE JobDelete -----------------------------
(***************************************************************************)
(* delJob (api/jobs/handlers.go) against the engine of JobExec, and        *)
(* createJob, which makes a deleted job anew. delJob takes accessLock for  *)
(* its last lines only: it cancels the records, starts a goroutine that    *)
(* kills what runs, waits for the wait group, removes records and files,   *)
(* starts a goroutine that receives once from KillExecChan, and closes     *)
(* and deletes the channels. A panic in a goroutine ends the process; one  *)
(* in a handler ends the request and leaves the lock as it is.             *)
(***************************************************************************)
EXTENDS JobExec

CONSTANTS
  Deleters,   \* goroutines available to delJob (a bound)
  MaxClosed,  \* a deletion starts while fewer kill channels of the job are closed (a bound)
  Concurrent, \* may clients send requests for a job while they wait for its deletion?
  Unmade,     \* the jobs whose creation may give up without a configuration file (a bound)
  Stray       \* may clients execute a job that has no configuration file? (a bound)

ASSUME DeleteAssumption   == Concurrent \in BOOLEAN /\ Stray \in BOOLEAN /\ MaxClosed \in Nat
ASSUME DeletersAssumption == Deleters \cap (Runs \cup {None}) = {}

VARIABLES
  files,   \* the jobs that have a configuration file
  closed,  \* per job, the channels of execChans and of killChans that are closed
  del,     \* the goroutines of delJob
  drain    \* for each of them, the goroutine that receives from KillExecChan

dvars == <<vars, files, closed, del, drain>>

IdleDel   == [pc |-> "idle", key |-> None, wait |-> 0]
IdleDrain == [pc |-> "idle", key |-> None, chan |-> 0]
NoClosed  == [exec |-> {}, kill |-> {}]

DGoes(d, r)   == del' = [del EXCEPT ![d] = r]
DrainTo(d, r) == drain' = [drain EXCEPT ![d] = r]
At(d, pc)     == del[d].pc = pc /\ server = "up"
DelTo(d, pc)  == DGoes(d, [del[d] EXCEPT !.pc = pc])

Exists(k)   == k \in cached \cup files
Deleting(k) == \E d \in Deleters : del[d].pc # "idle" /\ del[d].key = k

(* A client that is not concurrent waits for the answer to a deletion, and     *)
(* does not ask for one while it waits for the answer of execJob.              *)
MayAsk(k) == server = "up" /\ (Concurrent \/ ~Deleting(k))

-----------------------------------------------------------------------------
DInit ==
  /\ Init
  /\ files = Keys
  /\ closed = [k \in Keys |-> NoClosed]
  /\ del = [d \in Deleters |-> IdleDel]
  /\ drain = [d \in Deleters |-> IdleDrain]

(* createJob: the cache, SeqNo, the configuration file, and the row of jobView *)
(* with status EXEC_NONE, as jobView already says. One step: until it answers *)
(* nobody but its client knows of the job. It may give up once the job is in   *)
(* the cache, without the file (a request without an ImgManager panics, a      *)
(* directory or the file cannot be made) or with it (the row is there).        *)
CreateJob(k) ==
  /\ MayAsk(k)
  /\ ~Exists(k)
  /\ accessLock = None
  /\ cached' = cached \cup {k}
  /\ seqNo' = [seqNo EXCEPT ![k] = 0]
  /\ files' \in {files \cup {k}, files \cup ({k} \ Unmade)}
  /\ UNCHANGED <<server, accessLock, maps, heap, db, exec, kill, closed, del, drain>>

(* SetAllCancelled, and the goroutine that sends EXEC_KILL_ALL, which does     *)
(* what the goroutine of killJobExecution does.                                *)
DelJob(d, g, k) ==
  /\ MayAsk(k)
  /\ Cardinality(closed[k].kill) < MaxClosed
  /\ Concurrent \/ \A e \in Runs : exec[e].pc # "checked" \/ exec[e].key # k
  /\ del[d].pc = "idle" /\ drain[d].pc = "idle"
  /\ kill[g].pc = "idle"
  /\ job' = [job EXCEPT ![k] = [n \in Seqs |->
               IF job[k][n] = None THEN None
               ELSE [job[k][n] EXCEPT !.cancelled = EXEC_CANCELLED]]]
  /\ KGoes(g, [pc |-> "check", key |-> k, seq |-> EXEC_KILL_ALL, chan |-> 0])
  /\ DGoes(d, [pc |-> "check", key |-> k, wait |-> 0])
  /\ UNCHANGED <<server, accessLock, cached, seqNo, maps, heap, jobView, exec, files, closed, drain>>

(* if _, OK := d.WaitExec[key]; OK *)
DelCheck(d) ==
  /\ At(d, "check")
  /\ DelTo(d, IF waitExec[del[d].key] = 0 THEN "records" ELSE "lookup")
  /\ UNCHANGED <<vars, files, closed, drain>>

(* d.WaitExec[key] is read once more; a nil wait group panics.                 *)
DelLookup(d) ==
  LET w == waitExec[del[d].key] IN
  /\ At(d, "lookup")
  /\ DGoes(d, IF w = 0 THEN IdleDel ELSE [del[d] EXCEPT !.pc = "wait", !.wait = w])
  /\ UNCHANGED <<vars, files, closed, drain>>

(* Mutant: the call of Wait is missing. *)
DelDoesNotWait(d) ==
  /\ At(d, "wait")
  /\ DelTo(d, "records")
  /\ UNCHANGED <<vars, files, closed, drain>>

DelWait(d) ==
  /\ At(d, "wait")
  /\ waitGroups[del[d].key][del[d].wait] = 0
  /\ DelTo(d, "records")
  /\ UNCHANGED <<vars, files, closed, drain>>

(* Mutant: the call of DeleteJobExecutions is missing. *)
DelViewOnly(d) ==
  /\ At(d, "records")
  /\ jobView' = [jobView EXCEPT ![del[d].key] = EXEC_NONE]
  /\ DelTo(d, "files")
  /\ UNCHANGED <<server, accessLock, cached, seqNo, maps, heap, job, exec, kill, files, closed, drain>>

(* DeleteJobExecutions and DelJobViewRecord; delJob gives up when the row of   *)
(* the view stays. jobView is EXEC_NONE for a job that has no row.             *)
DelRecords(d) ==
  /\ At(d, "records")
  /\ job' = [job EXCEPT ![del[d].key] = [n \in Seqs |-> None]]
  /\ \/ /\ jobView' = [jobView EXCEPT ![del[d].key] = EXEC_NONE]
        /\ DelTo(d, "files")
     \/ /\ UNCHANGED jobView
        /\ DGoes(d, IdleDel)
  /\ UNCHANGED <<server, accessLock, cached, seqNo, maps, heap, exec, kill, files, closed, drain>>

DelFiles(d) ==
  /\ At(d, "files")
  /\ files' = files \ {del[d].key}
  /\ DelTo(d, "remove")
  /\ UNCHANGED <<vars, closed, drain>>

(* One of the two directories of the job cannot be removed: delJob gives up.   *)
DelFails(d) ==
  /\ At(d, "files")
  /\ files' \in {files, files \ {del[d].key}}
  /\ DGoes(d, IdleDel)
  /\ UNCHANGED <<vars, closed, drain>>

(* The goroutine that receives from KillExecChan, and d.JobCache.Remove(key).  *)
DelRemove(d) ==
  LET k == del[d].key IN
  /\ At(d, "remove")
  /\ DrainTo(d, [pc |-> "lookup", key |-> k, chan |-> 0])
  /\ cached' = cached \ {k}
  /\ DelTo(d, "close")
  /\ UNCHANGED <<server, accessLock, seqNo, maps, heap, db, exec, kill, files, closed>>

(* Mutant: ExecChan is closed whether or not it is there. *)
ClosesMissing(k) == [exec |-> {execChan[k]}, kill |-> {killChan[k]}]

Closes(k) == [exec |-> {execChan[k]} \ {0}, kill |-> {killChan[k]}]

(* Mutant: an entry stays in its map. *)
KeepEntry(m, k) == m

(* delete(m, key): a missing entry reads as 0. *)
DropEntry(m, k) == [m EXCEPT ![k] = 0]

(* Under accessLock: close(d.KillExecChan[key]) panics when there is no such   *)
(* channel, and the lock is never given back. Otherwise all maps forget the    *)
(* job. One step: who looks a channel up without the lock, between its close   *)
(* and its delete, finds what it finds just before. A channel that a kill      *)
(* request makes there is lost at once; here it is closed, too.                *)
DelClose(d) ==
  LET k == del[d].key IN
  /\ At(d, "close")
  /\ accessLock = None
  /\ DGoes(d, IdleDel)
  /\ IF killChan[k] = 0
     THEN /\ accessLock' = d
          /\ UNCHANGED <<seqNo, maps, closed>>
     ELSE /\ closed' = [closed EXCEPT ![k] =
                          [exec |-> @.exec \cup Closes(k).exec, kill |-> @.kill \cup Closes(k).kill]]
          /\ seqNo' = DropEntry(seqNo, k)
          /\ execChan' = DropEntry(execChan, k)
          /\ killChan' = DropEntry(killChan, k)
          /\ waitExec' = DropEntry(waitExec, k)
          /\ UNCHANGED accessLock
  /\ UNCHANGED <<server, cached, heap, db, exec, kill, files, drain>>

-----------------------------------------------------------------------------
(* <-d.KillExecChan[key]: from a nil channel this goroutine receives nothing,  *)
(* ever, and from a closed one it receives at once.                            *)
DrainLookup(d) ==
  LET k == drain[d].key
      c == killChan[k]
  IN /\ server = "up"
     /\ drain[d].pc = "lookup"
     /\ DrainTo(d, IF c = 0 THEN IdleDrain ELSE [drain[d] EXCEPT !.pc = "recv", !.chan = c])
     /\ UNCHANGED <<vars, files, closed, del>>

DrainRecv(d) ==
  LET k == drain[d].key
      c == drain[d].chan
  IN /\ server = "up"
     /\ drain[d].pc = "recv"
     /\ CanRecv(killChans[k][c]) \/ c \in closed[k].kill
     /\ killChans' = IF CanRecv(killChans[k][c])
                     THEN [killChans EXCEPT ![k][c] = Drained(killChans[k][c])] ELSE killChans
     /\ DrainTo(d, IdleDrain)
     /\ UNCHANGED <<server, accessLock, cached, seqNo, maps, execChans, waitGroups, db, exec, kill,
                    files, closed, del>>

(* Sending to a closed channel panics, in a goroutine of its own.              *)
SendsToClosed ==
  \/ \E e \in Runs : exec[e].pc = "queued" /\ exec[e].chan \in closed[exec[e].key].exec
  \/ \E g \in Killers : kill[g].pc = "send" /\ kill[g].chan \in closed[kill[g].key].kill

(* Done on a wait group that counts nobody panics: an execution that outlives  *)
(* the deletion of its job gives back the slot of another and uses the wait    *)
(* group of the job that was made anew.                                        *)
DoneTooOften(e) ==
  LET k == exec[e].key
      w == waitExec[k]
  IN /\ exec[e].pc = "recv"
     /\ exec[e].chan # 0 /\ CanRecv(execChans[k][exec[e].chan])
     /\ w # 0 /\ waitGroups[k][w] = 0

Panics == SendsToClosed \/ \E e \in Runs : DoneTooOften(e)

Panic ==
  /\ server = "up"
  /\ Panics
  /\ server' = "fatal"
  /\ UNCHANGED <<accessLock, cached, seqNo, maps, heap, db, exec, kill, files, closed, del, drain>>

(* The select of ExecAsync receives 0 from a closed channel that is empty; no  *)
(* execution has that number, and the channel is looked up again.              *)
RecvClosed(e) ==
  LET k == exec[e].key
      c == exec[e].chan
  IN /\ server = "up"
     /\ exec[e].pc = "select"
     /\ c \in closed[k].kill
     /\ ~CanRecv(killChans[k][c])
     /\ Goes(e, [exec[e] EXCEPT !.chan = killChan[k]])
     /\ UNCHANGED <<server, accessLock, cached, seqNo, maps, heap, db, kill,
                    files, closed, del, drain>>

-----------------------------------------------------------------------------
DelSteps(d) ==
  \/ DelCheck(d) \/ DelLookup(d) \/ DelWait(d) \/ DelRecords(d)
  \/ DelFiles(d) \/ DelFails(d) \/ DelRemove(d) \/ DelClose(d)

DrainSteps(d) == DrainLookup(d) \/ DrainRecv(d)

Rest == UNCHANGED <<files, closed, del, drain>>

(* The steps of JobExec: requests for a job that is there, and goroutines.     *)
Request(k) ==
  /\ MayAsk(k)
  /\ \/ \E e \in Runs : Exists(k) /\ (k \in files \/ Stray) /\ ExecCheck(e, k)
     \/ \E g \in Killers, n \in KillArgs : KillRequest(g, k, n)
     \/ \E n \in Seqs : DelJobExecution(k, n)
  /\ Rest

RunStep(e) ==
  /\ server = "up"
  /\ exec[e].pc = "queued" => exec[e].chan \notin closed[exec[e].key].exec
  /\ ~DoneTooOften(e)
  /\ Progress(e)
  /\ Rest

RunGoes(e) == RunStep(e) \/ RecvClosed(e)

KillStep(g) ==
  /\ server = "up"
  /\ kill[g].pc = "send" => kill[g].chan \notin closed[kill[g].key].kill
  /\ KillGoroutine(g)
  /\ Rest

OtherStep ==
  /\ server = "up"
  /\ \/ \E e \in Runs : ExecStart(e) \/ EndsByItself(e)
     \/ \E k \in Keys : Evict(k)
  /\ Rest

DRestart ==
  /\ Restart
  /\ closed' = [k \in Keys |-> NoClosed]
  /\ del' = [d \in Deleters |-> IdleDel]
  /\ drain' = [d \in Deleters |-> IdleDrain]
  /\ UNCHANGED files

DNext ==
  \/ \E k \in Keys : CreateJob(k) \/ Request(k)
  \/ \E d \in Deleters, g \in Killers, k \in Keys : DelJob(d, g, k)
  \/ \E d \in Deleters : DelSteps(d) \/ DrainSteps(d)
  \/ \E e \in Runs : RunGoes(e)
  \/ \E g \in Killers : KillStep(g)
  \/ OtherStep
  \/ Panic
  \/ DRestart

DSpec == DInit /\ [][DNext]_dvars

(* As in JobExec, the scheduler runs every goroutine that can run.             *)
DFairness ==
  /\ \A e \in Runs : WF_dvars(RunGoes(e))
  /\ \A g \in Killers : WF_dvars(KillStep(g))
  /\ \A d \in Deleters : WF_dvars(DelSteps(d)) /\ WF_dvars(DrainSteps(d))

-----------------------------------------------------------------------------
DelState == {r \in [pc : {"idle", "check", "lookup", "wait", "records", "files", "remove", "close"},
                     key : Keys \cup {None}, wait : Nat] :
               r.pc # "idle" => r.key \in Keys}

DrainState == {r \in [pc : {"idle", "lookup", "recv"}, key : Keys \cup {None}, chan : Nat] :
                 r.pc # "idle" => r.key \in Keys}

(* Type invariant: beside JobExec's variables, accessLock may be held by a     *)
(* deletion that died, a closed channel is one that was made, and so is what a *)
(* deletion waits for or receives from.                                        *)
DTypeOK ==
  /\ StateOK
  /\ accessLock \in Runs \cup Deleters \cup {None}
  /\ files \subseteq Keys
  /\ del \in [Deleters -> DelState]
  /\ drain \in [Deleters -> DrainState]
  /\ closed \in [Keys -> [exec : SUBSET Nat, kill : SUBSET Nat]]
  /\ \A k \in Keys : /\ closed[k].exec \subseteq DOMAIN execChans[k]
                     /\ closed[k].kill \subseteq DOMAIN killChans[k]
  /\ \A d \in Deleters :
       /\ del[d].pc = "wait" => del[d].wait \in DOMAIN waitGroups[del[d].key]
       /\ drain[d].pc = "recv" => drain[d].chan \in DOMAIN killChans[drain[d].key]

(* Where clients wait for answers (Concurrent is FALSE), delJob removes the    *)
(* records and the files of a job when none of its executions is alive any     *)
(* more ("wait until all the running executions exit"). With other clients it  *)
(* is not so: execJob starts executions after the wait is over.                *)
DeleteWaitsForRuns ==
  \A d \in Deleters :
    del[d].pc \in {"files", "remove", "close"} =>
      \A e \in Runs : ~(Alive(e) /\ exec[e].key = del[d].key)

(* Whatever clients ask for meanwhile, several deletions of one job included,  *)
(* no map holds a channel that is closed: none is closed twice, which would    *)
(* panic, and who looks a channel up after a deletion finds none or a new one, *)
(* although killJobExecution and delJob make channels without the lock.        *)
NeverClosedTwice ==
  \A k \in Keys : killChan[k] \notin closed[k].kill /\ execChan[k] \notin closed[k].exec

(* While clients wait for answers, a deletion closes no channel that an        *)
(* execution still sends to, and no execution gives back a place in a wait     *)
(* group that counts nobody, also when the job is made anew under its name:    *)
(* either panics in the goroutine of the execution and ends the server.        *)
ExecutionsNeverPanic ==
  \A e \in Runs :
    /\ exec[e].pc = "queued" => exec[e].chan \notin closed[exec[e].key].exec
    /\ ~DoneTooOften(e)

(* While clients wait for answers, a deletion that its wait group blocks waits *)
(* for an execution of the job that is alive, and an execution that ExecChan   *)
(* blocks for one that has the place, also where a deletion gave up half-way   *)
(* and the job was made anew: no place and no count is left by the dead.       *)
WaitersHaveOwners ==
  /\ \A d \in Deleters :
       del[d].pc = "wait" /\ waitGroups[del[d].key][del[d].wait] # 0 =>
         \E e \in Runs : Alive(e) /\ exec[e].key = del[d].key
  /\ \A e \in Runs :
       exec[e].pc = "queued" =>
         \/ CanSend(execChans[exec[e].key][exec[e].chan])
         \/ \E f \in Runs : InSlot(f) /\ exec[f].key = exec[e].key

(* Nobody sends to a channel that is closed ("read KillExecChan again to       *)
(* ensure it unblocked"): the panic ends the server and all executions.        *)
NoSendToClosed == ~SendsToClosed

(* Every deletion is answered: what runs is killed or timed out, and nobody    *)
(* else keeps delJob from its lock, unless the server died or the lock was     *)
(* lost by an earlier deletion of delJob.                                      *)
DeletionEnds ==
  \A d \in Deleters :
    del[d].pc # "idle" ~> del[d].pc = "idle" \/ server = "fatal" \/ accessLock \in Deleters
=============================================================================
