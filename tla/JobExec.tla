------------------------------ MODULE JobExec ------------------------------
(***************************************************************************)
(* The execution engine of She-Ra (api/jobs/handlers.go): execJob records  *)
(* an execution and starts a goroutine, runJobExecution serialises the     *)
(* executions of a job through a one-slot channel and runs the commands of *)
(* the job one after the other, ExecAsync waits for a command while it     *)
(* listens for kill requests, killJobExecution posts kill requests through *)
(* a channel that it creates on demand, delJobExecution deletes records,   *)
(* and a restart rebuilds the sequence numbers from the database.          *)
(*                                                                         *)
(* A goroutine step ends at an access to state another goroutine can see.  *)
(* A Go channel is an entry of the heap of channels of its job; a map of   *)
(* the JobManager holds the index of a channel, 0 for a missing entry,     *)
(* which Go reads as a nil channel: sending to it or receiving from it     *)
(* blocks for ever.                                                        *)
(***************************************************************************)
EXTENDS Integers, Sequences, FiniteSets, FiniteSetsExt

CONSTANTS
  Keys,      \* the jobs: pairs of a namespace and a job id
  Runs,      \* goroutines available to execJob and runJobExecution (a bound)
  Killers,   \* goroutines available to killJobExecution (a bound)
  Plans,     \* how many commands a job may ask for
  KillArgs,  \* the execution numbers clients ask to kill
  FirstSeq,  \* executions each job has already had when the model starts
  MaxSeq,    \* the last sequence number the model hands out (a bound)
  None       \* no record, no job, no holder

(* utils/utils.go, the codes of an execution *)
EXEC_GOROUTINE == 1314
EXEC_FINISHED  == 1
EXEC_KILL_ALL  == 886
EXEC_ERROR     == 16

EXEC_SUCCESS == 0
EXEC_FAILURE == 1
EXEC_NONE    == 2

EXEC_NOT_DONE == 0
EXEC_DONE     == 1

EXEC_NOT_CANCELLED == 0
EXEC_CANCELLED     == 1
EXEC_TIMEOUT       == 2

(* The columns of table job that the engine reads or that tell outcomes apart. *)
Row == [finished : {EXEC_NOT_DONE, EXEC_DONE},
        status : {EXEC_SUCCESS, EXEC_FAILURE},
        cancelled : {EXEC_NOT_CANCELLED, EXEC_CANCELLED, EXEC_TIMEOUT}]

ASSUME BoundsAssumption == FirstSeq \in Nat /\ MaxSeq \in Nat
ASSUME ArgsAssumption   == KillArgs \subseteq Int
ASSUME PlansAssumption  == Plans \subseteq Nat
ASSUME NoneAssumption   == None \notin Keys /\ None \notin Runs /\ None \notin Row

Seqs == FirstSeq + 1 .. MaxSeq

VARIABLES
  server,      \* "up", or "fatal" after log.Fatalf ended the process
  accessLock,  \* the goroutine that holds d.accessLock, or None
  cached,      \* the jobs d.JobCache contains
  seqNo,       \* d.SeqNo
  execChan,    \* d.ExecChan: index into execChans[key], 0 when missing
  killChan,    \* d.KillExecChan: index into killChans[key], 0 when missing
  waitExec,    \* d.WaitExec: index into waitGroups[key], 0 when missing
  execChans,   \* per job, the channels made for d.ExecChan
  killChans,   \* per job, the channels made for d.KillExecChan
  waitGroups,  \* per job, the counters of the wait groups made for d.WaitExec
  job,         \* table job: job[key][seqno]
  jobView,     \* table jobView: the status column
  exec,        \* the goroutines of execJob and runJobExecution
  kill         \* the goroutines of killJobExecution

maps == <<execChan, killChan, waitExec>>
heap == <<execChans, killChans, waitGroups>>
db   == <<job, jobView>>
vars == <<server, accessLock, cached, seqNo, maps, heap, db, exec, kill>>

(* make(chan int, 1): a channel is the sequence of the values in its buffer.   *)
NewChan    == <<>>
CanRecv(c) == c # <<>>

(* Mutant: the value stays in the channel. *)
NotDrained(c) == c

Drained(c) == Tail(c)

(* Mutant: a select with a default that gives the value up. *)
SentNowhere(c, v) == c

Sent(c, v) == Append(c, v)

(* Mutant: make(chan int, 2). *)
CanSendTwo(c) == Len(c) < 2

CanSend(c) == Len(c) < 1

(* A goroutine of the pool that runs nothing. *)
IdleRun  == [pc |-> "idle", key |-> None, seq |-> 0, todo |-> 0, ret |-> 0, chan |-> 0]
IdleKill == [pc |-> "idle", key |-> None, seq |-> 0, chan |-> 0]

(* Where a goroutine of runJobExecution can be, and the part of it that lies   *)
(* between its send to and its receive from ExecChan.                          *)
RunPC   == {"spawned", "queued", "begin", "ready", "select", "view", "lastview", "common", "recv"}
SlotPC  == RunPC \ {"spawned", "queued"}
Alive(e)  == exec[e].pc \in RunPC
InSlot(e) == exec[e].pc \in SlotPC

Goes(e, r)  == exec' = [exec EXCEPT ![e] = r]
KGoes(g, r) == kill' = [kill EXCEPT ![g] = r]

(* InsertExecutionRecord, UpdateExecutionRecord, SetExecutionCancelled: an     *)
(* update of a record that is not there changes nothing.                       *)
Record(k, n)    == IF n \in Seqs THEN job[k][n] ELSE None
Done(r)         == r # None /\ r.finished = EXEC_DONE
NewRow          == [finished |-> EXEC_NOT_DONE, status |-> EXEC_FAILURE, cancelled |-> EXEC_NOT_CANCELLED]

(* Mutant: the columns status and cancelled are swapped. *)
EndedSwapped(s, c) == [finished |-> EXEC_DONE, status |-> c, cancelled |-> s]

Ended(s, c)     == [finished |-> EXEC_DONE, status |-> s, cancelled |-> c]
Update(k, n, r) == job' = IF Record(k, n) = None THEN job ELSE [job EXCEPT ![k][n] = r]

(* Mutant: the request is written to the column status. *)
SetExecutionStatus(k, n) ==
  job' = IF Record(k, n) = None THEN job
         ELSE [job EXCEPT ![k][n].status = EXEC_CANCELLED]

SetExecutionCancelled(k, n) ==
  job' = IF Record(k, n) = None THEN job
         ELSE [job EXCEPT ![k][n].cancelled = EXEC_CANCELLED]

-----------------------------------------------------------------------------
(* Init: utils.Init and NewJobManager after FirstSeq executions of every job,  *)
(* all of them finished, the last of them still recorded.                      *)
Init ==
  /\ server = "up"
  /\ accessLock = None
  /\ cached = {}
  /\ seqNo = [k \in Keys |-> FirstSeq]
  /\ execChan = [k \in Keys |-> 0]
  /\ killChan = [k \in Keys |-> 0]
  /\ waitExec = [k \in Keys |-> 0]
  /\ execChans = [k \in Keys |-> <<>>]
  /\ killChans = [k \in Keys |-> <<>>]
  /\ waitGroups = [k \in Keys |-> <<>>]
  /\ job = [k \in Keys |-> [n \in Seqs |-> None]]
  /\ jobView = [k \in Keys |-> EXEC_NONE]
  /\ exec = [e \in Runs |-> IdleRun]
  /\ kill = [g \in Killers |-> IdleKill]

(* execJob until it asks for the lock: the job exists (its config file does),  *)
(* and it is put back in the cache when it is not there.                       *)
ExecCheck(e, k) ==
  /\ exec[e].pc = "idle"
  /\ cached' = cached \cup {k}
  /\ Goes(e, [IdleRun EXCEPT !.pc = "checked", !.key = k])
  /\ UNCHANGED <<server, accessLock, seqNo, maps, heap, db, kill>>

(* d.WaitExec[key] is missing. Mutant: execJob makes a wait group every time. *)
AlwaysNewWaitGroup(k) == TRUE

NoWaitGroup(k) == waitExec[k] = 0

(* execJob under accessLock. A primary key clash ends the process. *)
ExecStart(e) ==
  LET k == exec[e].key
      n == seqNo[k] + 1
      clash == Record(k, n) # None
      newWait == NoWaitGroup(k)
      newChan == execChan[k] = 0
      wgs == IF newWait THEN Append(waitGroups[k], 0) ELSE waitGroups[k]
      w == IF newWait THEN Len(wgs) ELSE waitExec[k]
  IN /\ exec[e].pc = "checked"
     /\ accessLock = None
     /\ n \in Seqs
     /\ server' = IF clash THEN "fatal" ELSE server
     /\ seqNo' = [seqNo EXCEPT ![k] = n]
     /\ job' = IF clash THEN job ELSE [job EXCEPT ![k][n] = NewRow]
     /\ waitExec' = [waitExec EXCEPT ![k] = w]
     /\ waitGroups' = [waitGroups EXCEPT ![k] = [wgs EXCEPT ![w] = wgs[w] + 1]]
     /\ execChan' = [execChan EXCEPT ![k] = IF newChan THEN Len(execChans[k]) + 1 ELSE @]
     /\ execChans' = [execChans EXCEPT ![k] = IF newChan THEN Append(@, NewChan) ELSE @]
     /\ Goes(e, [exec[e] EXCEPT !.pc = "spawned", !.seq = n])
     /\ UNCHANGED <<accessLock, cached, killChan, killChans, jobView, kill>>

(* runJobExecution, d.ExecChan[key] <- EXEC_GOROUTINE: the channel is looked   *)
(* up first, the send then waits for room in that channel.                     *)
LookupExecChan(e) ==
  /\ exec[e].pc = "spawned"
  /\ Goes(e, [exec[e] EXCEPT !.pc = "queued", !.chan = execChan[exec[e].key]])
  /\ UNCHANGED <<server, accessLock, cached, seqNo, maps, heap, db, kill>>

Acquire(e) ==
  LET k == exec[e].key
      c == exec[e].chan
  IN /\ exec[e].pc = "queued"
     /\ c # 0
     /\ CanSend(execChans[k][c])
     /\ execChans' = [execChans EXCEPT ![k][c] = Sent(execChans[k][c], EXEC_GOROUTINE)]
     /\ Goes(e, [exec[e] EXCEPT !.pc = "begin", !.chan = 0])
     /\ UNCHANGED <<server, accessLock, cached, seqNo, maps, killChans, waitGroups, db, kill>>

(* JobCache.Get and GetCancelStatus. An execution whose job was evicted, that  *)
(* was cancelled while it waited, or whose first chdir fails goes straight to  *)
(* COMMON_HANDLING; a missing record ends the process.                         *)
Begin(e) ==
  LET k == exec[e].key
      r == Record(k, exec[e].seq)
      cancelled == r # None /\ r.cancelled = EXEC_CANCELLED
      Skip == Goes(e, [exec[e] EXCEPT !.pc = "common"])
      Run(p) == Goes(e, [exec[e] EXCEPT !.pc = "ready", !.todo = p])
  IN /\ exec[e].pc = "begin"
     /\ server' = IF k \in cached /\ r = None THEN "fatal" ELSE server
     /\ \/ Skip
        \/ /\ k \in cached /\ ~cancelled
           /\ \E p \in Plans : Run(p)
     /\ UNCHANGED <<accessLock, cached, seqNo, maps, heap, db, kill>>

(* A failure that leaves the record alone: a chdir or mkdir error, bad build   *)
(* data, no pipe for the error output, an unknown JDK version. Where there is  *)
(* no pipe for the output, log.Fatal ends the process: that is Restart.        *)
SilentFailure(e) ==
  /\ exec[e].pc = "ready"
  /\ Goes(e, [exec[e] EXCEPT !.pc = "common"])
  /\ UNCHANGED <<server, accessLock, cached, seqNo, maps, heap, db, kill>>

(* ExecAsync starts the next command; its select then listens to the channel   *)
(* that d.KillExecChan[key] is at that moment.                                 *)
StartCommand(e) ==
  /\ exec[e].pc = "ready"
  /\ exec[e].todo # 0
  /\ Goes(e, [exec[e] EXCEPT !.pc = "select", !.chan = killChan[exec[e].key]])
  /\ UNCHANGED <<server, accessLock, cached, seqNo, maps, heap, db, kill>>

(* ExecAsync writes the outcome of a command and will return code ret. *)
EndCommand(e, c, ret) ==
  /\ Update(exec[e].key, exec[e].seq, Ended(EXEC_FAILURE, c))
  /\ Goes(e, [exec[e] EXCEPT !.pc = "view", !.ret = ret, !.chan = 0])
  /\ UNCHANGED jobView

StartFails(e) ==
  /\ exec[e].pc = "ready"
  /\ exec[e].todo # 0
  /\ EndCommand(e, EXEC_NOT_CANCELLED, EXEC_ERROR)
  /\ UNCHANGED <<server, accessLock, cached, seqNo, maps, heap, kill>>

(* Mutant: any kill request stops the execution that receives it. *)
MatchesAny(code, n) == TRUE

(* case recvCode = <-d.KillExecChan[key]: a code for another execution is      *)
(* dropped, and the loop looks the channel up again.                           *)
Matches(code, n) == code = n \/ code = EXEC_KILL_ALL

RecvKill(e) ==
  LET k == exec[e].key
      c == exec[e].chan
      code == Head(killChans[k][c])
      hit == Matches(code, exec[e].seq)
  IN /\ exec[e].pc = "select"
     /\ c # 0
     /\ CanRecv(killChans[k][c])
     /\ killChans' = [killChans EXCEPT ![k][c] = Drained(killChans[k][c])]
     /\ IF hit THEN EndCommand(e, EXEC_CANCELLED, code)
        ELSE /\ Goes(e, [exec[e] EXCEPT !.chan = killChan[k]])
             /\ UNCHANGED db
     /\ UNCHANGED <<server, accessLock, cached, seqNo, maps, execChans, waitGroups, kill>>

(* Mutant: case <-time.After(timeout) breaks instead of killing the command. *)
TimeoutIgnored(e) == exec[e].pc = "select" /\ UNCHANGED vars

CommandTimesOut(e) ==
  /\ exec[e].pc = "select"
  /\ EndCommand(e, EXEC_TIMEOUT, EXEC_TIMEOUT)
  /\ UNCHANGED <<server, accessLock, cached, seqNo, maps, heap, kill>>

CommandFails(e) ==
  /\ exec[e].pc = "select"
  /\ EndCommand(e, EXEC_NOT_CANCELLED, EXEC_ERROR)
  /\ UNCHANGED <<server, accessLock, cached, seqNo, maps, heap, kill>>

(* Mutant: the command that ended is started once more. *)
SameCommand(e) == [exec[e] EXCEPT !.pc = "ready", !.chan = 0]

NextCommand(e) == [exec[e] EXCEPT !.pc = "ready", !.todo = exec[e].todo - 1, !.chan = 0]

CommandSucceeds(e) ==
  /\ exec[e].pc = "select"
  /\ Goes(e, NextCommand(e))
  /\ UNCHANGED <<server, accessLock, cached, seqNo, maps, heap, db, kill>>

(* Mutant: only EXEC_ERROR ends the execution. *)
GoesOnUnlessError(ret) == ret # EXEC_ERROR

(* if retCode = cmd.ExecAsync(...); retCode != EXEC_FINISHED *)
GoesOn(ret) == ret = EXEC_FINISHED

(* UpdateJobViewStatus and the return of ExecAsync. *)
ReturnFromCommand(e) ==
  /\ exec[e].pc = "view"
  /\ jobView' = [jobView EXCEPT ![exec[e].key] = EXEC_FAILURE]
  /\ IF GoesOn(exec[e].ret) THEN Goes(e, NextCommand(e))
     ELSE Goes(e, [exec[e] EXCEPT !.pc = "common"])
  /\ UNCHANGED <<server, accessLock, cached, seqNo, maps, heap, job, kill>>

(* All commands are done: the record becomes a success, then the view. *)
Succeed(e) ==
  /\ exec[e].pc = "ready"
  /\ exec[e].todo = 0
  /\ Update(exec[e].key, exec[e].seq, Ended(EXEC_SUCCESS, EXEC_NOT_CANCELLED))
  /\ Goes(e, [exec[e] EXCEPT !.pc = "lastview"])
  /\ UNCHANGED <<server, accessLock, cached, seqNo, maps, heap, jobView, kill>>

SucceedView(e) ==
  /\ exec[e].pc = "lastview"
  /\ jobView' = [jobView EXCEPT ![exec[e].key] = EXEC_SUCCESS]
  /\ Goes(e, [exec[e] EXCEPT !.pc = "common"])
  /\ UNCHANGED <<server, accessLock, cached, seqNo, maps, heap, job, kill>>

(* COMMON_HANDLING: the receive happens with accessLock held. *)
CommonLock(e) ==
  /\ exec[e].pc = "common"
  /\ accessLock = None
  /\ accessLock' = e
  /\ Goes(e, [exec[e] EXCEPT !.pc = "recv", !.chan = execChan[exec[e].key]])
  /\ UNCHANGED <<server, cached, seqNo, maps, heap, db, kill>>

Release(e) ==
  LET k == exec[e].key
      c == exec[e].chan
  IN /\ exec[e].pc = "recv"
     /\ c # 0
     /\ CanRecv(execChans[k][c])
     /\ waitExec[k] # 0
     /\ execChans' = [execChans EXCEPT ![k][c] = Drained(execChans[k][c])]
     /\ waitGroups' = [waitGroups EXCEPT ![k][waitExec[k]] = @ - 1]
     /\ accessLock' = None
     /\ Goes(e, IdleRun)
     /\ UNCHANGED <<server, cached, seqNo, maps, killChans, db, kill>>

-----------------------------------------------------------------------------
(* killJobExecution marks the record and leaves the rest to a goroutine, which *)
(* takes no lock: it makes the channel if it finds none, looks it up again,    *)
(* and sends.                                                                  *)
KillRequest(g, k, n) ==
  /\ kill[g].pc = "idle"
  /\ SetExecutionCancelled(k, n)
  /\ KGoes(g, [pc |-> "check", key |-> k, seq |-> n, chan |-> 0])
  /\ UNCHANGED <<server, accessLock, cached, seqNo, maps, heap, jobView, exec>>

(* Mutant: the channel is made for every request. *)
KillCheckAlwaysMakes(g) ==
  /\ kill[g].pc = "check"
  /\ KGoes(g, [kill[g] EXCEPT !.pc = "make"])
  /\ UNCHANGED <<server, accessLock, cached, seqNo, maps, heap, db, exec>>

KillCheck(g) ==
  /\ kill[g].pc = "check"
  /\ KGoes(g, [kill[g] EXCEPT !.pc = IF killChan[kill[g].key] = 0 THEN "make" ELSE "lookup"])
  /\ UNCHANGED <<server, accessLock, cached, seqNo, maps, heap, db, exec>>

KillMake(g) ==
  LET k == kill[g].key IN
  /\ kill[g].pc = "make"
  /\ killChans' = [killChans EXCEPT ![k] = Append(@, NewChan)]
  /\ killChan' = [killChan EXCEPT ![k] = Len(killChans[k]) + 1]
  /\ KGoes(g, [kill[g] EXCEPT !.pc = "lookup"])
  /\ UNCHANGED <<server, accessLock, cached, seqNo, execChan, waitExec, execChans, waitGroups, db, exec>>

KillLookup(g) ==
  /\ kill[g].pc = "lookup"
  /\ KGoes(g, [kill[g] EXCEPT !.pc = "send", !.chan = killChan[kill[g].key]])
  /\ UNCHANGED <<server, accessLock, cached, seqNo, maps, heap, db, exec>>

KillSend(g) ==
  LET k == kill[g].key
      c == kill[g].chan
  IN /\ kill[g].pc = "send"
     /\ c # 0
     /\ CanSend(killChans[k][c])
     /\ killChans' = [killChans EXCEPT ![k][c] = Sent(killChans[k][c], kill[g].seq)]
     /\ KGoes(g, IdleKill)
     /\ UNCHANGED <<server, accessLock, cached, seqNo, maps, execChans, waitGroups, db, exec>>

-----------------------------------------------------------------------------
(* delJobExecution: GetFinishStatus, then DelJobExecRecord. *)
DelJobExecution(k, n) ==
  /\ Done(Record(k, n))
  /\ job' = [job EXCEPT ![k][n] = None]
  /\ UNCHANGED <<server, accessLock, cached, seqNo, maps, heap, jobView, exec, kill>>

(* JobCache.Add for some other job evicts this one. *)
Evict(k) ==
  /\ k \in cached
  /\ cached' = cached \ {k}
  /\ UNCHANGED <<server, accessLock, seqNo, maps, heap, db, exec, kill>>

(* Mutant: select count(seqno). *)
RecoverSeqNoByCount == [k \in Keys |-> FirstSeq + Cardinality({n \in Seqs : job[k][n] # None})]

(* recoverSeqNo: select max(seqno) ... group by namespace, jobId. *)
RecoverSeqNo == [k \in Keys |-> Max({FirstSeq} \cup {n \in Seqs : job[k][n] # None})]

(* The process dies, or is restarted: only the database survives. What the     *)
(* system refuses (a pipe for the output of a command) ends it the same way.   *)
Restart ==
  /\ server' = "up"
  /\ accessLock' = None
  /\ cached' = {}
  /\ seqNo' = RecoverSeqNo
  /\ execChan' = [k \in Keys |-> 0]
  /\ killChan' = [k \in Keys |-> 0]
  /\ waitExec' = [k \in Keys |-> 0]
  /\ execChans' = [k \in Keys |-> <<>>]
  /\ killChans' = [k \in Keys |-> <<>>]
  /\ waitGroups' = [k \in Keys |-> <<>>]
  /\ exec' = [e \in Runs |-> IdleRun]
  /\ kill' = [g \in Killers |-> IdleKill]
  /\ UNCHANGED db

-----------------------------------------------------------------------------
(* A command may end by itself, or hang. *)
EndsByItself(e) == CommandFails(e) \/ CommandSucceeds(e)

Progress(e) ==
  \/ LookupExecChan(e) \/ Acquire(e) \/ Begin(e)
  \/ SilentFailure(e) \/ StartFails(e) \/ StartCommand(e)
  \/ RecvKill(e) \/ CommandTimesOut(e)
  \/ ReturnFromCommand(e) \/ Succeed(e) \/ SucceedView(e)
  \/ CommonLock(e) \/ Release(e)

KillGoroutine(g) == KillCheck(g) \/ KillMake(g) \/ KillLookup(g) \/ KillSend(g)

Step ==
  \/ \E e \in Runs, k \in Keys : ExecCheck(e, k)
  \/ \E e \in Runs : ExecStart(e) \/ Progress(e) \/ EndsByItself(e)
  \/ \E g \in Killers : KillGoroutine(g)
  \/ \E k \in Keys, n \in Seqs : DelJobExecution(k, n)
  \/ \E k \in Keys : Evict(k)

KillRequested == \E g \in Killers, k \in Keys, n \in KillArgs : KillRequest(g, k, n)

Next == (server = "up" /\ (Step \/ KillRequested)) \/ Restart

Spec == Init /\ [][Next]_vars

-----------------------------------------------------------------------------
Chan == Seq(Int)

RunState == {r \in [pc : RunPC \cup {"idle", "checked"}, key : Keys \cup {None},
                     seq : Nat, todo : Nat, ret : Int, chan : Nat] :
               /\ r.pc # "idle" => r.key \in Keys
               /\ r.pc \in {"select", "view"} => r.todo # 0}

KillState == {r \in [pc : {"idle", "check", "make", "lookup", "send"},
                      key : Keys \cup {None}, seq : Int, chan : Nat] :
                r.pc # "idle" => r.key \in Keys}

(* All variables but the lock, which a deletion of JobDelete may hold too. *)
StateOK ==
  /\ server \in {"up", "fatal"}
  /\ cached \subseteq Keys
  /\ seqNo \in [Keys -> Nat]
  /\ execChan \in [Keys -> Nat]
  /\ killChan \in [Keys -> Nat]
  /\ waitExec \in [Keys -> Nat]
  /\ execChans \in [Keys -> Seq(Chan)]
  /\ killChans \in [Keys -> Seq(Chan)]
  /\ waitGroups \in [Keys -> Seq(Int)]
  /\ job \in [Keys -> [Seqs -> Row \cup {None}]]
  /\ jobView \in [Keys -> {EXEC_SUCCESS, EXEC_FAILURE, EXEC_NONE}]
  /\ exec \in [Runs -> RunState]
  /\ kill \in [Killers -> KillState]

(* Type invariant: the values the variables of the engine take, codes and      *)
(* channel indices included; a goroutine that is busy works for a job.         *)
TypeOK == StateOK /\ accessLock \in Runs \cup {None}

RowOf(e) == Record(exec[e].key, exec[e].seq)

(* Executions of one job never overlap: between its send to and its receive    *)
(* from ExecChan an execution is alone (runJobExecution).                      *)
SerialExecution ==
  \A e1, e2 \in Runs :
    InSlot(e1) /\ InSlot(e2) /\ exec[e1].key = exec[e2].key => e1 = e2

(* The wait group of a job, which delJob waits on, counts exactly the          *)
(* executions that were started and have not ended (execJob, COMMON_HANDLING). *)
WaitGroupCountsRuns ==
  \A k \in Keys :
    LET runs == {e \in Runs : Alive(e) /\ exec[e].key = k}
    IN IF waitExec[k] = 0 THEN runs = {}
       ELSE waitGroups[k][waitExec[k]] = Cardinality(runs)

(* Whoever holds accessLock, the lock every request takes, is about to give it *)
(* back: the receive in COMMON_HANDLING finds its token and Done a counter.    *)
LockHolderNeverWaits ==
  accessLock # None =>
    LET k == exec[accessLock].key
        c == exec[accessLock].chan
    IN /\ exec[accessLock].pc = "recv"
       /\ c \in DOMAIN execChans[k] /\ CanRecv(execChans[k][c])
       /\ waitExec[k] # 0 /\ waitGroups[k][waitExec[k]] > 0

(* The records never end the process: a new execution never clashes with one,  *)
(* whatever was deleted or restarted before, and GetCancelStatus always finds  *)
(* the record of the execution it asks about.                                  *)
NeverFatal == server = "up"

(* Once the record of an execution says it is done (killed, timed out, failed  *)
(* or finished), that execution neither runs nor starts a command.             *)
DoneMeansStopped ==
  \A e \in Runs :
    Alive(e) /\ Done(RowOf(e)) => exec[e].pc \in {"view", "lastview", "common", "recv"}

(* An outcome is final: when the record of an execution says that it is done,  *)
(* it keeps its status until it is deleted. A kill request that comes too late *)
(* still marks it, but nobody writes a second outcome, neither the execution   *)
(* after a kill or a timeout nor another one (runJobExecution, ExecAsync).     *)
OutcomeIsFinal ==
  [][\A k \in Keys, n \in Seqs :
       Done(job[k][n]) =>
         \/ job'[k][n] = None
         \/ Done(job'[k][n]) /\ job'[k][n].status = job[k][n].status]_vars

(* A select that listens to a channel listens to the one that requests are     *)
(* posted to, however requests and commands follow each other: only a select   *)
(* that was entered before the first request of all listens to nothing. This   *)
(* is so while requests come one after the other; two that find no channel at  *)
(* once make two (killJobExecution, ExecAsync).                                *)
SelectListens ==
  \A e \in Runs :
    exec[e].pc = "select" /\ exec[e].chan # 0 => exec[e].chan = killChan[exec[e].key]

(* Who waits to send to ExecChan waits for an execution of the job that is     *)
(* there and will receive: no place is lost, whatever killed, failed or timed  *)
(* out the one that had it. And no goroutine of a kill request sends to the    *)
(* nil channel it may have found at first, which it would do for ever          *)
(* (runJobExecution, killJobExecution).                                        *)
WaitsAreForSomebody ==
  /\ \A e \in Runs :
       exec[e].pc = "queued" =>
         LET k == exec[e].key
             c == exec[e].chan
         IN c # 0 /\ (CanSend(execChans[k][c]) \/ \E f \in Runs : InSlot(f) /\ exec[f].key = k)
  /\ \A g \in Killers : kill[g].pc = "send" => kill[g].chan # 0

(* How many steps an execution may still take before it has its place, and,    *)
(* once its commands were chosen, until it has given the place back.           *)
Ahead(r) == CASE r.pc = "spawned" -> 3 [] r.pc = "queued" -> 2 [] r.pc = "begin" -> 1 [] OTHER -> 0

Left(r) == CASE r.pc = "ready" -> 3 * r.todo + 3
             [] r.pc = "select" -> 3 * r.todo + 2
             [] r.pc = "view" -> 3 * r.todo + 1
             [] r.pc = "lastview" -> 2
             [] r.pc = "common" -> 1
             [] OTHER -> 0

(* Whatever an execution does brings it nearer to its end, on every path of    *)
(* commands, failures, kills and timeouts. Only a kill request for another     *)
(* execution, which it takes out of the channel, leaves it where it is         *)
(* (runJobExecution, ExecAsync).                                               *)
RunsAdvance ==
  [][\A e \in Runs :
       Alive(e) /\ exec'[e] # exec[e] =>
         \/ exec'[e] = IdleRun
         \/ Ahead(exec'[e]) < Ahead(exec[e])
         \/ Ahead(exec'[e]) = Ahead(exec[e]) /\ Left(exec'[e]) < Left(exec[e])
         \/ exec[e].pc = "select" /\ exec'[e].pc = "select" /\ killChans' # killChans]_vars

(* Every execution that was started ends, if only by the timeout of its        *)
(* commands, and gives its place to the next one, provided clients stop        *)
(* sending kill requests: each request for another execution starts the        *)
(* 600 seconds of the running command anew.                                    *)
EveryRunEnds ==
  <>[][~KillRequested]_vars => \A e \in Runs : Alive(e) ~> ~Alive(e)
=============================================================================
