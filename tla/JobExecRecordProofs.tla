------------------------- MODULE JobExecRecordProofs -------------------------
(***************************************************************************)
(* Proofs about the records, the wait groups and accessLock of JobExec and *)
(* about its refinement, for every set of jobs, goroutines and plans: the  *)
(* process never ends by log.Fatalf, an execution whose record is done has *)
(* stopped, the engine implements SerialJobs, the wait group of a job      *)
(* counts its executions, and whoever holds the lock that every request    *)
(* takes gives it back without waiting; then, with the requests that       *)
(* JobExecHistory remembers, that who waits waits for somebody, that       *)
(* executions only go forward, and who is killed and with what outcome.    *)
(***************************************************************************)
EXTENDS JobExecProofs, JobExecRefinement, JobExecHistory, FiniteSetTheorems

(* A record that is there and whose execution is not done. *)
OpenAt(k, n) == Record(k, n) # None /\ ~Done(Record(k, n))

(* Where an execution has an open record. An execution that is killed as       *)
(* number 1 goes on (EXEC_FINISHED is 1), so that its commands run with a      *)
(* record that is done, or deleted: without a number 1 no command does.        *)
Opened == {"spawned", "queued", "begin"} \cup (IF FirstSeq > 0 THEN {"ready", "select"} ELSE {})

(* The inductive invariant behind NeverFatal and DoneMeansStopped: numbers and *)
(* records lie below the counter of their job, no two executions of a job have *)
(* one number, and nobody closes the record of another execution.              *)
RecordsOK ==
  /\ server = "up"
  /\ \A k \in Keys, n \in Seqs : job[k][n] # None => n <= seqNo[k]
  /\ \A e \in Runs : Alive(e) => exec[e].seq \in Seqs /\ exec[e].seq <= seqNo[exec[e].key]
  /\ \A e, f \in Runs :
       Alive(e) /\ Alive(f) /\ exec[e].key = exec[f].key /\ exec[e].seq = exec[f].seq => e = f
  /\ \A e \in Runs : exec[e].pc \in Opened => OpenAt(exec[e].key, exec[e].seq)
  /\ FirstSeq > 0 => \A e \in Runs : exec[e].pc = "view" => exec[e].ret # EXEC_FINISHED

(* A step of goroutine e to a place in P, for the same execution.              *)
Moved(e, P) ==
  /\ exec'[e].pc \in P
  /\ exec'[e].key = exec[e].key /\ exec'[e].seq = exec[e].seq
  /\ \A f \in Runs \ {e} : exec'[f] = exec[f]

LEMMA Places ==
  /\ Opened \subseteq RunPC /\ SlotPC \subseteq RunPC
  /\ "idle" \notin RunPC /\ "checked" \notin RunPC
  BY DEF Opened, RunPC, SlotPC

(* Every change of one field that a goroutine makes is a move.                 *)
LEMMA MoveTo ==
  ASSUME StateOK, NEW e \in Runs, NEW r, Goes(e, r), NEW P,
         r.pc \in P, r.key = exec[e].key, r.seq = exec[e].seq
  PROVE  Moved(e, P)
  BY GoesOnly DEF Moved

(* This step adds no record, and closes at most the one of execution e.        *)
RowsKept(e) ==
  /\ \A k \in Keys, n \in Seqs : job'[k][n] # None => job[k][n] # None
  /\ \A k \in Keys, n \in Seqs :
       OpenAt(k, n) => \/ OpenAt(k, n)'
                       \/ k = exec[e].key /\ n = exec[e].seq /\ exec'[e].pc \notin Opened

LEMMA SameRows ==
  ASSUME UNCHANGED job, NEW e
  PROVE  RowsKept(e)
  BY DEF RowsKept, OpenAt, Record

(* ExecAsync and Succeed write the record of their own execution.              *)
LEMMA OwnRow ==
  ASSUME StateOK, NEW e \in Runs, exec[e].key \in Keys, NEW r,
         Update(exec[e].key, exec[e].seq, r), exec'[e].pc \notin Opened
  PROVE  RowsKept(e)
<1> DEFINE j == exec[e].key
           m == exec[e].seq
<1>1. CASE Record(j, m) = None
  BY <1>1, SameRows DEF Update
<1>2. CASE Record(j, m) # None
  <2>1. m \in Seqs /\ job[j][m] # None
    BY <1>2 DEF Record
  <2>2. job' = [job EXCEPT ![j][m] = r]
    BY <1>2 DEF Update
  <2>3. \A k \in Keys, n \in Seqs : (k # j \/ n # m) => job'[k][n] = job[k][n]
    BY <2>2 DEF StateOK
  <2> HIDE DEF j, m
  <2>4. \A k \in Keys, n \in Seqs : OpenAt(k, n) => OpenAt(k, n)' \/ (k = j /\ n = m)
    BY <2>3 DEF OpenAt, Record
  <2> QED BY <2>1, <2>3, <2>4 DEF RowsKept, j, m
<1> QED BY <1>1, <1>2

(* A move of a live execution keeps the invariant when it keeps the rows.      *)
LEMMA RecordFrame ==
  ASSUME StateOK, RecordsOK, NEW e \in Runs, Moved(e, RunPC), Alive(e), RowsKept(e),
         server' = "up", seqNo' = seqNo,
         exec'[e].pc \in Opened => exec[e].pc \in Opened,
         FirstSeq > 0 /\ exec'[e].pc = "view" => exec'[e].ret # EXEC_FINISHED
  PROVE  RecordsOK'
<1>1. \A f \in Runs : Alive(f)' => Alive(f) /\ exec'[f].key = exec[f].key /\ exec'[f].seq = exec[f].seq
  BY DEF Moved, Alive
<1>2. ASSUME NEW f \in Runs, exec'[f].pc \in Opened PROVE OpenAt(exec[f].key, exec[f].seq)'
  <2>1. exec[f].pc \in Opened /\ Alive(f)
    BY <1>2, Places DEF Moved, Alive
  <2>2. exec[f].key \in Keys /\ exec[f].seq \in Seqs
    BY <2>1, Indices, Places DEF RecordsOK, Alive
  <2>3. PICK k \in Keys, n \in Seqs : k = exec[f].key /\ n = exec[f].seq
    BY <2>2
  <2>4. exec'[f].key = k /\ exec'[f].seq = n /\ OpenAt(k, n)
    BY <2>1, <2>3 DEF RecordsOK, Moved
  <2>5. f # e => ~(k = exec[e].key /\ n = exec[e].seq)
    BY <2>1, <2>3 DEF RecordsOK
  <2>6. OpenAt(k, n)'
    BY <1>2, <2>4, <2>5 DEF RowsKept
  <2> QED BY <2>4, <2>6 DEF OpenAt, Record
<1>3. FirstSeq > 0 => \A f \in Runs : exec'[f].pc = "view" => exec'[f].ret # EXEC_FINISHED
  BY DEF Moved, RecordsOK
<1>4. \A k \in Keys, n \in Seqs : job'[k][n] # None => n <= seqNo'[k]
  BY DEF RowsKept, RecordsOK
<1>5. \A f \in Runs : Alive(f)' => exec'[f].seq \in Seqs /\ exec'[f].seq <= seqNo'[exec'[f].key]
  BY <1>1 DEF RecordsOK
<1>6. \A f, g \in Runs :
        Alive(f)' /\ Alive(g)' /\ exec'[f].key = exec'[g].key /\ exec'[f].seq = exec'[g].seq => f = g
  BY <1>1 DEF RecordsOK
<1> QED BY <1>2, <1>3, <1>4, <1>5, <1>6 DEF RecordsOK, Alive

(* A step that moves no execution keeps the invariant when it keeps the rows.  *)
LEMMA RecordSame ==
  ASSUME StateOK, RecordsOK, server' = "up", seqNo' = seqNo, exec' = exec,
         \A k \in Keys, n \in Seqs : job'[k][n] # None => job[k][n] # None,
         \A k \in Keys, n \in Seqs : OpenAt(k, n) => OpenAt(k, n)'
  PROVE  RecordsOK'
<1>1. ASSUME NEW f \in Runs, exec[f].pc \in Opened PROVE OpenAt(exec[f].key, exec[f].seq)'
  <2>1. Alive(f) /\ exec[f].key \in Keys /\ exec[f].seq \in Seqs
    BY <1>1, Indices, Places DEF RecordsOK, Alive
  <2>2. PICK k \in Keys, n \in Seqs : k = exec[f].key /\ n = exec[f].seq
    BY <2>1
  <2>3. OpenAt(k, n)'
    BY <1>1, <2>2 DEF RecordsOK
  <2> QED BY <2>2, <2>3 DEF OpenAt, Record
<1> QED BY <1>1 DEF RecordsOK, Alive

(* A goroutine that is busy with no execution changes nothing here.            *)
LEMMA RecordChecked ==
  ASSUME StateOK, RecordsOK, NEW e \in Runs, NEW r, Goes(e, r), r.pc \notin RunPC,
         UNCHANGED <<server, seqNo, job>>
  PROVE  RecordsOK'
<1>1. exec'[e].pc \notin RunPC /\ \A f \in Runs : f # e => exec'[f] = exec[f]
  BY GoesOnly
<1>2. \A f \in Runs : Alive(f)' => f # e /\ Alive(f) /\ exec'[f] = exec[f]
  BY <1>1 DEF Alive
<1>3. \A f \in Runs : exec'[f].pc \in Opened \cup {"view"} => f # e /\ exec'[f] = exec[f]
  BY <1>1, Places DEF RunPC
<1>4. \A f \in Runs : exec'[f].pc \in Opened => OpenAt(exec'[f].key, exec'[f].seq)
  BY <1>3 DEF RecordsOK
<1>5. \A f \in Runs : exec'[f].pc \in Opened =>
        Record(exec[f].key, exec[f].seq)' = Record(exec'[f].key, exec'[f].seq)
  BY DEF Record
<1>6. \A f \in Runs : exec'[f].pc \in Opened => OpenAt(exec[f].key, exec[f].seq)'
  BY <1>4, <1>5 DEF OpenAt
<1> QED BY <1>2, <1>3, <1>6 DEF RecordsOK

(* execJob: the number is one above all numbers and records of the job.        *)
LEMMA RecordStart ==
  ASSUME StateOK, RecordsOK, NEW e \in Runs, ExecStart(e)
  PROVE  RecordsOK'
<1> DEFINE k == exec[e].key
           n == seqNo[k] + 1
           r == [exec[e] EXCEPT !.pc = "spawned", !.seq = n]
<1>1. k \in Keys /\ n \in Seqs /\ seqNo[k] \in Nat /\ \A j \in Keys : seqNo[j] \in Nat
  BY Indices DEF ExecStart, StateOK
<1>2. r.pc = "spawned" /\ r.key = k /\ r.seq = n
  BY DEF StateOK, RunState
<1>3. job[k][n] = None
  BY <1>1 DEF RecordsOK
<1>4. /\ server' = "up" /\ seqNo' = [seqNo EXCEPT ![k] = n] /\ Goes(e, r)
      /\ job' = [job EXCEPT ![k][n] = NewRow]
  BY <1>1, <1>3 DEF ExecStart, Record, RecordsOK
<1>5. seqNo'[k] = n /\ \A j \in Keys : j # k => seqNo'[j] = seqNo[j]
  BY <1>1, <1>4 DEF StateOK
<1>6. /\ job'[k][n] = NewRow
      /\ \A j \in Keys, m \in Seqs : (j # k \/ m # n) => job'[j][m] = job[j][m]
  BY <1>1, <1>4 DEF StateOK
<1>7. NewRow # None /\ ~Done(NewRow)
  BY NoneAssumption DEF NewRow, Row, Done, EXEC_DONE, EXEC_NOT_DONE, EXEC_FAILURE, EXEC_SUCCESS,
                        EXEC_NOT_CANCELLED
<1>8. exec'[e] = r /\ \A f \in Runs : f # e => exec'[f] = exec[f]
  BY <1>4, GoesOnly
<1> HIDE DEF k, n, r
<1>9. \A j \in Keys, m \in Seqs : job'[j][m] # None => m <= seqNo'[j]
  <2> SUFFICES ASSUME NEW j \in Keys, NEW m \in Seqs, job'[j][m] # None PROVE m <= seqNo'[j]
    OBVIOUS
  <2>1. CASE j = k /\ m = n
    BY <1>1, <1>5, <2>1 DEF n, Seqs
  <2>2. CASE j # k \/ m # n
    <3>1. m <= seqNo[j]
      BY <1>6, <2>2 DEF RecordsOK
    <3> QED BY <1>1, <1>5, <3>1, BoundsAssumption DEF n, Seqs
  <2> QED BY <2>1, <2>2
<1>10. \A f \in Runs : Alive(f)' =>
         \/ f = e
         \/ f # e /\ Alive(f) /\ exec'[f] = exec[f] /\ exec[f].key \in Keys
            /\ (exec[f].key = k => exec[f].seq # n)
  <2> SUFFICES ASSUME NEW f \in Runs, Alive(f)', f # e
               PROVE  Alive(f) /\ exec'[f] = exec[f] /\ exec[f].key \in Keys
                      /\ (exec[f].key = k => exec[f].seq # n)
    OBVIOUS
  <2>1. Alive(f) /\ exec'[f] = exec[f] /\ exec[f].key \in Keys
    BY <1>8, Indices, Places DEF Alive
  <2>2. exec[f].seq <= seqNo[exec[f].key]
    BY <2>1 DEF RecordsOK
  <2>3. exec[f].key = k => exec[f].seq # n
    BY <2>2, <1>1 DEF n
  <2> QED BY <2>1, <2>3
<1>11. \A f \in Runs : Alive(f)' => exec'[f].seq \in Seqs /\ exec'[f].seq <= seqNo'[exec'[f].key]
  <2> SUFFICES ASSUME NEW f \in Runs, Alive(f)'
               PROVE  exec'[f].seq \in Seqs /\ exec'[f].seq <= seqNo'[exec'[f].key]
    OBVIOUS
  <2>1. CASE f = e
    BY <2>1, <1>1, <1>2, <1>5, <1>8, BoundsAssumption DEF Seqs
  <2>2. CASE f # e
    <3>1. exec'[f] = exec[f] /\ exec[f].key \in Keys /\ exec[f].seq \in Seqs
          /\ exec[f].seq <= seqNo[exec[f].key]
      BY <2>2, <1>10 DEF RecordsOK
    <3> QED BY <3>1, <1>1, <1>5, BoundsAssumption DEF n, Seqs
  <2> QED BY <2>1, <2>2
<1>12. \A f, g \in Runs :
         Alive(f)' /\ Alive(g)' /\ exec'[f].key = exec'[g].key /\ exec'[f].seq = exec'[g].seq => f = g
  BY <1>2, <1>8, <1>10 DEF RecordsOK
<1>13. ASSUME NEW f \in Runs, exec'[f].pc \in Opened PROVE OpenAt(exec[f].key, exec[f].seq)'
  <2>1. CASE f = e
    <3>1. Record(exec[e].key, exec[e].seq)' = NewRow
      BY <1>1, <1>2, <1>6, <1>8 DEF Record
    <3> QED BY <2>1, <3>1, <1>7 DEF OpenAt
  <2>2. CASE f # e
    <3>1. exec'[f] = exec[f] /\ Alive(f) /\ exec[f].key \in Keys /\ exec[f].seq \in Seqs
          /\ (exec[f].key = k => exec[f].seq # n) /\ OpenAt(exec[f].key, exec[f].seq)
      BY <1>8, <1>10, <1>13, <2>2, Places DEF Alive, RecordsOK
    <3>2. Record(exec[f].key, exec[f].seq)' = Record(exec[f].key, exec[f].seq)
      BY <1>6, <3>1 DEF Record
    <3> QED BY <3>1, <3>2 DEF OpenAt
  <2> QED BY <2>1, <2>2
<1>14. \A f \in Runs : exec'[f].pc = "view" => f # e /\ exec'[f] = exec[f]
  BY <1>2, <1>8
<1> QED BY <1>4, <1>9, <1>11, <1>12, <1>13, <1>14 DEF RecordsOK

-----------------------------------------------------------------------------
(* Where the steps of runJobExecution lead, and what they do to the records.   *)
From(e, p, P) == exec[e].pc = p /\ Moved(e, P)

LEMMA Moves ==
  ASSUME StateOK, NEW e \in Runs
  PROVE  /\ LookupExecChan(e) => From(e, "spawned", {"queued"})
         /\ Acquire(e) => From(e, "queued", {"begin"})
         /\ Begin(e) => From(e, "begin", {"common", "ready"})
         /\ SilentFailure(e) => From(e, "ready", {"common"})
         /\ StartCommand(e) => From(e, "ready", {"select"})
         /\ CommandSucceeds(e) => From(e, "select", {"ready"})
         /\ SucceedView(e) => From(e, "lastview", {"common"})
         /\ CommonLock(e) => From(e, "common", {"recv"})
         /\ Succeed(e) => From(e, "ready", {"lastview"})
<1>1. exec[e] \in RunState
  BY DEF StateOK
<1>2. ASSUME NEW q, NEW c, Goes(e, [exec[e] EXCEPT !.pc = q, !.chan = c]) PROVE Moved(e, {q})
  <2> DEFINE r == [exec[e] EXCEPT !.pc = q, !.chan = c]
  <2>1. r.pc = q /\ r.key = exec[e].key /\ r.seq = exec[e].seq /\ Goes(e, r)
    BY <1>1, <1>2 DEF RunState
  <2> HIDE DEF r
  <2> QED BY <2>1, MoveTo
<1>3. ASSUME NEW q, NEW c, Goes(e, [exec[e] EXCEPT !.pc = q, !.todo = c]) PROVE Moved(e, {q})
  <2> DEFINE r == [exec[e] EXCEPT !.pc = q, !.todo = c]
  <2>1. r.pc = q /\ r.key = exec[e].key /\ r.seq = exec[e].seq /\ Goes(e, r)
    BY <1>1, <1>3 DEF RunState
  <2> HIDE DEF r
  <2> QED BY <2>1, MoveTo
<1>4. ASSUME NEW q, Goes(e, [exec[e] EXCEPT !.pc = q]) PROVE Moved(e, {q})
  <2> DEFINE r == [exec[e] EXCEPT !.pc = q]
  <2>1. r.pc = q /\ r.key = exec[e].key /\ r.seq = exec[e].seq /\ Goes(e, r)
    BY <1>1, <1>4 DEF RunState
  <2> HIDE DEF r
  <2> QED BY <2>1, MoveTo
<1>5. NextCommand(e).pc = "ready" /\ NextCommand(e).key = exec[e].key /\ NextCommand(e).seq = exec[e].seq
  BY <1>1 DEF NextCommand, RunState
<1>6. LookupExecChan(e) => From(e, "spawned", {"queued"})
  BY <1>2 DEF LookupExecChan, From
<1>7. Acquire(e) => From(e, "queued", {"begin"})
  BY <1>2 DEF Acquire, From
<1>8. Begin(e) => From(e, "begin", {"common", "ready"})
  <2> SUFFICES ASSUME Begin(e) PROVE From(e, "begin", {"common", "ready"})
    OBVIOUS
  <2>1. CASE Goes(e, [exec[e] EXCEPT !.pc = "common"])
    <3>1. Moved(e, {"common"})
      BY <2>1, <1>4
    <3> QED BY <3>1 DEF Begin, From, Moved
  <2>2. CASE \E q \in Plans : Goes(e, [exec[e] EXCEPT !.pc = "ready", !.todo = q])
    <3> PICK q \in Plans : Goes(e, [exec[e] EXCEPT !.pc = "ready", !.todo = q])
      BY <2>2
    <3>1. Moved(e, {"ready"})
      BY <1>3
    <3> QED BY <3>1 DEF Begin, From, Moved
  <2> QED BY <2>1, <2>2 DEF Begin
<1>9. SilentFailure(e) => From(e, "ready", {"common"})
  BY <1>4 DEF SilentFailure, From
<1>10. StartCommand(e) => From(e, "ready", {"select"})
  BY <1>2 DEF StartCommand, From
<1>11. CommandSucceeds(e) => From(e, "select", {"ready"})
  BY <1>5, MoveTo DEF CommandSucceeds, From
<1>12. SucceedView(e) => From(e, "lastview", {"common"})
  BY <1>4 DEF SucceedView, From
<1>13. CommonLock(e) => From(e, "common", {"recv"})
  BY <1>2 DEF CommonLock, From
<1>14. Succeed(e) => From(e, "ready", {"lastview"})
  BY <1>4 DEF Succeed, From
<1> QED BY <1>6, <1>7, <1>8, <1>9, <1>10, <1>11, <1>12, <1>13, <1>14

(* The ends of a command: the record of the execution is written, and the code *)
(* of the command is returned.                                                 *)
LEMMA EndMoves ==
  ASSUME StateOK, NEW e \in Runs, NEW c, NEW ret, EndCommand(e, c, ret), exec[e].key \in Keys
  PROVE  Moved(e, {"view"}) /\ exec'[e].ret = ret /\ RowsKept(e)
<1> DEFINE r == [exec[e] EXCEPT !.pc = "view", !.ret = ret, !.chan = 0]
<1>1. r.pc = "view" /\ r.key = exec[e].key /\ r.seq = exec[e].seq /\ r.ret = ret
  BY DEF StateOK, RunState
<1>2. Goes(e, r) /\ Update(exec[e].key, exec[e].seq, Ended(EXEC_FAILURE, c))
  BY DEF EndCommand
<1> HIDE DEF r
<1>3. Moved(e, {"view"}) /\ exec'[e] = r
  BY <1>1, <1>2, MoveTo, GoesOnly
<1>4. exec'[e].pc \notin Opened
  BY <1>3 DEF Moved, Opened
<1>5. RowsKept(e)
  BY <1>2, <1>4, OwnRow
<1> QED BY <1>1, <1>3, <1>5

LEMMA CommandMoves ==
  ASSUME StateOK, NEW e \in Runs, exec[e].key \in Keys,
         StartFails(e) \/ CommandTimesOut(e) \/ CommandFails(e)
  PROVE  /\ exec[e].pc \in {"ready", "select"} /\ Moved(e, {"view"})
         /\ exec'[e].ret \in {EXEC_ERROR, EXEC_TIMEOUT} /\ RowsKept(e)
  BY EndMoves DEF StartFails, CommandTimesOut, CommandFails

LEMMA KillMoves ==
  ASSUME StateOK, NEW e \in Runs, exec[e].key \in Keys, RecvKill(e)
  PROVE  /\ exec[e].pc = "select" /\ RowsKept(e)
         /\ \/ Moved(e, {"view"}) /\ exec'[e].ret \in {exec[e].seq, EXEC_KILL_ALL}
            \/ Moved(e, {"select"})
<1> DEFINE code == Head(killChans[exec[e].key][exec[e].chan])
           r == [exec[e] EXCEPT !.chan = killChan[exec[e].key]]
<1>1. exec[e].pc = "select"
  BY DEF RecvKill
<1>2. CASE Matches(code, exec[e].seq)
  <2>1. EndCommand(e, EXEC_CANCELLED, code) /\ code \in {exec[e].seq, EXEC_KILL_ALL}
    BY <1>2 DEF RecvKill, Matches
  <2> HIDE DEF code
  <2> QED BY <1>1, <2>1, EndMoves
<1>3. CASE ~Matches(code, exec[e].seq)
  <2>1. Goes(e, r) /\ job' = job
    BY <1>3 DEF RecvKill, db
  <2>2. r.pc = "select" /\ r.key = exec[e].key /\ r.seq = exec[e].seq
    BY <1>1 DEF StateOK, RunState
  <2> HIDE DEF r
  <2> QED BY <1>1, <2>1, <2>2, MoveTo, SameRows
<1> QED BY <1>2, <1>3

LEMMA ReturnMoves ==
  ASSUME StateOK, NEW e \in Runs, ReturnFromCommand(e)
  PROVE  /\ exec[e].pc = "view"
         /\ Moved(e, IF exec[e].ret = EXEC_FINISHED THEN {"ready"} ELSE {"common"})
<1>1. NextCommand(e).pc = "ready" /\ NextCommand(e).key = exec[e].key /\ NextCommand(e).seq = exec[e].seq
  BY DEF NextCommand, StateOK, RunState
<1> DEFINE r == [exec[e] EXCEPT !.pc = "common"]
<1>2. r.pc = "common" /\ r.key = exec[e].key /\ r.seq = exec[e].seq
  BY DEF StateOK, RunState
<1>3. Goes(e, IF exec[e].ret = EXEC_FINISHED THEN NextCommand(e) ELSE r)
  BY DEF ReturnFromCommand, GoesOn
<1> HIDE DEF r
<1> QED BY <1>1, <1>2, <1>3, MoveTo DEF ReturnFromCommand

-----------------------------------------------------------------------------
(* The initial state: no execution and no record of a number the model gives.  *)
LEMMA InitRecords == Init => RecordsOK
<1> SUFFICES ASSUME Init PROVE RecordsOK
  OBVIOUS
<1>1. \A e \in Runs : exec[e].pc = "idle"
  BY DEF Init, IdleRun
<1>2. \A e \in Runs : exec[e].pc \notin RunPC \cup Opened \cup {"view"}
  BY <1>1, Places DEF RunPC
<1>3. server = "up" /\ \A k \in Keys, n \in Seqs : job[k][n] = None
  BY DEF Init
<1> QED BY <1>2, <1>3 DEF RecordsOK, Alive

(* A step inside runJobExecution that leaves server, counters and rows alone.  *)
LEMMA RecordMove ==
  ASSUME StateOK, RecordsOK, NEW e \in Runs, Alive(e), NEW P \in SUBSET RunPC, Moved(e, P),
         UNCHANGED <<server, seqNo>>, RowsKept(e),
         exec'[e].pc \in Opened => exec[e].pc \in Opened,
         FirstSeq > 0 /\ exec'[e].pc = "view" => exec'[e].ret # EXEC_FINISHED
  PROVE  RecordsOK'
<1>1. Moved(e, RunPC)
  BY DEF Moved
<1>2. server' = "up"
  BY DEF RecordsOK
<1> QED BY <1>1, <1>2, RecordFrame

(* Every step of the execution itself keeps the invariant.                     *)
LEMMA ProgressRecords ==
  ASSUME StateOK, RecordsOK, NEW e \in Runs, Progress(e) \/ EndsByItself(e)
  PROVE  RecordsOK'
<1> USE DEF maps, heap, db
<1>1. CASE LookupExecChan(e)
  <2>1. From(e, "spawned", {"queued"}) /\ UNCHANGED <<server, seqNo, job>>
    BY <1>1, Moves DEF LookupExecChan
  <2> QED BY <2>1, SameRows, RecordMove DEF From, Moved, Alive, Opened, RunPC
<1>2. CASE Acquire(e)
  <2>1. From(e, "queued", {"begin"}) /\ UNCHANGED <<server, seqNo, job>>
    BY <1>2, Moves DEF Acquire
  <2> QED BY <2>1, SameRows, RecordMove DEF From, Moved, Alive, Opened, RunPC
<1>3. CASE Begin(e)
  <2>1. From(e, "begin", {"common", "ready"}) /\ UNCHANGED <<seqNo, job>>
    BY <1>3, Moves DEF Begin
  <2>2. Record(exec[e].key, exec[e].seq) # None
    BY <2>1 DEF From, RecordsOK, Opened, OpenAt
  <2>3. server' = server
    BY <1>3, <2>2 DEF Begin
  <2> QED BY <2>1, <2>3, SameRows, RecordMove DEF From, Moved, Alive, Opened, RunPC
<1>4. CASE SilentFailure(e)
  <2>1. From(e, "ready", {"common"}) /\ UNCHANGED <<server, seqNo, job>>
    BY <1>4, Moves DEF SilentFailure
  <2> QED BY <2>1, SameRows, RecordMove DEF From, Moved, Alive, Opened, RunPC
<1>5. CASE StartCommand(e)
  <2>1. From(e, "ready", {"select"}) /\ UNCHANGED <<server, seqNo, job>>
    BY <1>5, Moves DEF StartCommand
  <2> QED BY <2>1, SameRows, RecordMove DEF From, Moved, Alive, Opened, RunPC
<1>6. CASE CommandSucceeds(e)
  <2>1. From(e, "select", {"ready"}) /\ UNCHANGED <<server, seqNo, job>>
    BY <1>6, Moves DEF CommandSucceeds
  <2> QED BY <2>1, SameRows, RecordMove DEF From, Moved, Alive, Opened, RunPC
<1>7. CASE SucceedView(e)
  <2>1. From(e, "lastview", {"common"}) /\ UNCHANGED <<server, seqNo, job>>
    BY <1>7, Moves DEF SucceedView
  <2> QED BY <2>1, SameRows, RecordMove DEF From, Moved, Alive, Opened, RunPC
<1>8. CASE CommonLock(e)
  <2>1. From(e, "common", {"recv"}) /\ UNCHANGED <<server, seqNo, job>>
    BY <1>8, Moves DEF CommonLock
  <2> QED BY <2>1, SameRows, RecordMove DEF From, Moved, Alive, Opened, RunPC
<1>9. CASE Succeed(e)
  <2>1. From(e, "ready", {"lastview"}) /\ UNCHANGED <<server, seqNo>>
    BY <1>9, Moves DEF Succeed
  <2>2. exec'[e].pc = "lastview" /\ exec'[e].pc \notin Opened /\ exec[e].key \in Keys
    BY <2>1, Indices DEF From, Moved, Opened
  <2>3. RowsKept(e)
    BY <1>9, <2>2, OwnRow DEF Succeed
  <2> QED BY <2>1, <2>2, <2>3, RecordMove DEF From, Alive, RunPC
<1>10. CASE StartFails(e) \/ CommandTimesOut(e) \/ CommandFails(e)
  <2>1. exec[e].key \in Keys /\ UNCHANGED <<server, seqNo>>
    BY <1>10, Indices DEF StartFails, CommandTimesOut, CommandFails
  <2>2. /\ exec[e].pc \in {"ready", "select"} /\ Moved(e, {"view"})
        /\ exec'[e].ret \in {EXEC_ERROR, EXEC_TIMEOUT} /\ RowsKept(e)
    BY <1>10, <2>1, CommandMoves
  <2>3. exec'[e].pc \notin Opened /\ exec'[e].ret # EXEC_FINISHED
    BY <2>2 DEF Moved, Opened, EXEC_ERROR, EXEC_TIMEOUT, EXEC_FINISHED
  <2> QED BY <2>1, <2>2, <2>3, RecordMove DEF Alive, RunPC
<1>11. CASE RecvKill(e)
  <2>1. exec[e].pc = "select" /\ exec[e].key \in Keys /\ UNCHANGED <<server, seqNo>>
    BY <1>11, Indices DEF RecvKill
  <2>2. RowsKept(e) /\ Alive(e)
    BY <1>11, <2>1, KillMoves DEF Alive, RunPC
  <2>3. CASE Moved(e, {"view"}) /\ exec'[e].ret \in {exec[e].seq, EXEC_KILL_ALL}
    <3>1. exec[e].seq \in Seqs
      BY <2>2 DEF RecordsOK
    <3>2. FirstSeq > 0 => exec[e].seq # EXEC_FINISHED
      BY <3>1, BoundsAssumption DEF Seqs, EXEC_FINISHED
    <3>3. FirstSeq > 0 => exec'[e].ret # EXEC_FINISHED
      BY <2>3, <3>2 DEF EXEC_FINISHED, EXEC_KILL_ALL
    <3>4. exec'[e].pc \notin Opened
      BY <2>3 DEF Moved, Opened
    <3> QED BY <2>1, <2>2, <2>3, <3>3, <3>4, RecordMove DEF RunPC
  <2>4. CASE Moved(e, {"select"})
    BY <2>1, <2>2, <2>4, RecordMove DEF Moved, RunPC
  <2> QED BY <1>11, <2>1, <2>3, <2>4, KillMoves
<1>12. CASE ReturnFromCommand(e)
  <2>1. /\ exec[e].pc = "view" /\ UNCHANGED <<server, seqNo, job>>
        /\ Moved(e, IF exec[e].ret = EXEC_FINISHED THEN {"ready"} ELSE {"common"})
    BY <1>12, ReturnMoves DEF ReturnFromCommand
  <2>2. exec'[e].pc \notin Opened /\ exec'[e].pc # "view"
    BY <2>1 DEF Moved, Opened, RecordsOK
  <2> QED BY <2>1, <2>2, SameRows, RecordMove DEF Alive, RunPC
<1>13. CASE Release(e)
  <2>1. Goes(e, IdleRun) /\ IdleRun.pc \notin RunPC /\ UNCHANGED <<server, seqNo, job>>
    BY <1>13 DEF Release, IdleRun, RunPC
  <2> QED BY <2>1, RecordChecked
<1> QED BY <1>1, <1>2, <1>3, <1>4, <1>5, <1>6, <1>7, <1>8, <1>9, <1>10, <1>11, <1>12, <1>13
        DEF Progress, EndsByItself

(* recoverSeqNo counts on from the greatest number that is recorded.           *)
LEMMA RecoverAbove ==
  ASSUME NEW k \in Keys, NEW n \in Seqs, job[k][n] # None
  PROVE  n <= RecoverSeqNo[k]
<1> DEFINE S == {FirstSeq} \cup {m \in Seqs : job[k][m] # None}
<1>1. S \subseteq Nat /\ n \in S /\ \A m \in S : m <= FirstSeq \/ m <= MaxSeq
  BY BoundsAssumption DEF Seqs
<1> HIDE DEF S
<1>2. FirstSeq + MaxSeq \in Nat /\ \A m \in S : m <= FirstSeq + MaxSeq
  BY <1>1, BoundsAssumption
<1>3. \E m \in S : \A i \in S : i <= m
  BY <1>1, <1>2, BoundedHasMax
<1>4. n <= Max(S)
  BY <1>1, <1>3 DEF Max
<1> QED BY <1>4 DEF RecoverSeqNo, S

(* killJobExecution marks a record, which stays open.                          *)
LEMMA CancelRows ==
  ASSUME StateOK, NEW k \in Keys, NEW n, SetExecutionCancelled(k, n)
  PROVE  /\ \A j \in Keys, m \in Seqs : job'[j][m] # None => job[j][m] # None
         /\ \A j \in Keys, m \in Seqs : OpenAt(j, m) => OpenAt(j, m)'
<1>1. CASE Record(k, n) = None
  BY <1>1 DEF SetExecutionCancelled, OpenAt, Record
<1>2. CASE Record(k, n) # None
  <2>1. n \in Seqs /\ job[k][n] \in Row
    BY <1>2 DEF Record, StateOK
  <2> DEFINE r == [job[k][n] EXCEPT !.cancelled = EXEC_CANCELLED]
  <2>2. r.finished = job[k][n].finished /\ r \in Row
    BY <2>1 DEF Row
  <2>3. job' = [job EXCEPT ![k] = [job[k] EXCEPT ![n] = r]]
    BY <1>2, <2>1 DEF SetExecutionCancelled, StateOK
  <2> HIDE DEF r
  <2>4. /\ job'[k][n] = r
        /\ \A j \in Keys, m \in Seqs : (j # k \/ m # n) => job'[j][m] = job[j][m]
    BY <2>1, <2>3 DEF StateOK
  <2>5. OpenAt(k, n) => OpenAt(k, n)'
    BY <2>1, <2>2, <2>4, NoneAssumption DEF OpenAt, Record, Done
  <2>6. \A j \in Keys, m \in Seqs : (j # k \/ m # n) => (OpenAt(j, m) => OpenAt(j, m)')
    BY <2>4 DEF OpenAt, Record
  <2> QED BY <2>1, <2>4, <2>5, <2>6, NoneAssumption
<1> QED BY <1>1, <1>2

LEMMA DeleteRows ==
  ASSUME StateOK, NEW k \in Keys, NEW n \in Seqs, DelJobExecution(k, n)
  PROVE  /\ \A j \in Keys, m \in Seqs : job'[j][m] # None => job[j][m] # None
         /\ \A j \in Keys, m \in Seqs : OpenAt(j, m) => OpenAt(j, m)'
<1>1. ~OpenAt(k, n) /\ job' = [job EXCEPT ![k][n] = None]
  BY DEF DelJobExecution, OpenAt
<1>2. /\ job'[k][n] = None
      /\ \A j \in Keys, m \in Seqs : (j # k \/ m # n) => job'[j][m] = job[j][m]
  BY <1>1 DEF StateOK
<1> QED BY <1>1, <1>2 DEF OpenAt, Record

(* A restart leaves no execution, whatever was before it.                      *)
LEMMA RestartRecords ==
  ASSUME Restart
  PROVE  RecordsOK'
<1> USE DEF db
<1>1. \A e \in Runs : exec'[e].pc \notin RunPC \cup Opened \cup {"view"}
  BY Places DEF Restart, IdleRun, RunPC
<1>2. server' = "up" /\ job' = job /\ seqNo' = RecoverSeqNo
  BY DEF Restart
<1>3. \A k \in Keys, n \in Seqs : job'[k][n] # None => n <= seqNo'[k]
  BY <1>2, RecoverAbove
<1> QED BY <1>1, <1>2, <1>3 DEF RecordsOK, Alive

LEMMA StepRecords == StateOK /\ RecordsOK /\ [Next]_vars => RecordsOK'
<1> SUFFICES ASSUME StateOK, RecordsOK, [Next]_vars PROVE RecordsOK'
  OBVIOUS
<1> USE DEF maps, heap, db
<1>0. server = "up"
  BY DEF RecordsOK
<1>1. ASSUME NEW e \in Runs, NEW k \in Keys, ExecCheck(e, k) PROVE RecordsOK'
  <2> DEFINE r == [IdleRun EXCEPT !.pc = "checked", !.key = k]
  <2>1. r.pc \notin RunPC /\ Goes(e, r) /\ UNCHANGED <<server, seqNo, job>>
    BY <1>1 DEF ExecCheck, IdleRun, RunPC
  <2> HIDE DEF r
  <2> QED BY <2>1, RecordChecked
<1>2. ASSUME NEW e \in Runs, ExecStart(e) PROVE RecordsOK'
  BY <1>2, RecordStart
<1>3. ASSUME NEW e \in Runs, Progress(e) \/ EndsByItself(e) PROVE RecordsOK'
  BY <1>3, ProgressRecords
<1>4. ASSUME NEW g \in Killers, KillGoroutine(g) PROVE RecordsOK'
  <2>1. UNCHANGED <<server, seqNo, job, exec>>
    BY <1>4 DEF KillGoroutine, KillCheck, KillMake, KillLookup, KillSend
  <2>2. \A j \in Keys, m \in Seqs : OpenAt(j, m) => OpenAt(j, m)'
    BY <2>1 DEF OpenAt, Record
  <2> QED BY <1>0, <2>1, <2>2, RecordSame
<1>5. ASSUME NEW k \in Keys, NEW n \in Seqs, DelJobExecution(k, n) PROVE RecordsOK'
  <2>1. UNCHANGED <<server, seqNo, exec>>
    BY <1>5 DEF DelJobExecution
  <2> QED BY <1>0, <1>5, <2>1, DeleteRows, RecordSame
<1>6. ASSUME NEW k \in Keys, Evict(k) PROVE RecordsOK'
  <2>1. UNCHANGED <<server, seqNo, job, exec>>
    BY <1>6 DEF Evict
  <2>2. \A j \in Keys, m \in Seqs : OpenAt(j, m) => OpenAt(j, m)'
    BY <2>1 DEF OpenAt, Record
  <2> QED BY <1>0, <2>1, <2>2, RecordSame
<1>7. ASSUME NEW g \in Killers, NEW k \in Keys, NEW n \in KillArgs, KillRequest(g, k, n) PROVE RecordsOK'
  <2>1. SetExecutionCancelled(k, n) /\ UNCHANGED <<server, seqNo, exec>>
    BY <1>7 DEF KillRequest
  <2> QED BY <1>0, <2>1, CancelRows, RecordSame
<1>8. CASE Restart
  BY <1>8, RestartRecords
<1>9. CASE UNCHANGED vars
  <2>1. UNCHANGED <<server, seqNo, job, exec>>
    BY <1>9 DEF vars
  <2>2. \A j \in Keys, m \in Seqs : OpenAt(j, m) => OpenAt(j, m)'
    BY <2>1 DEF OpenAt, Record
  <2> QED BY <1>0, <2>1, <2>2, RecordSame
<1> QED BY <1>1, <1>2, <1>3, <1>4, <1>5, <1>6, <1>7, <1>8, <1>9
        DEF Next, Step, KillRequested

(* The inductive invariant of the engine.                                      *)
EngineOK == StateOK /\ IndexOK /\ SlotOK /\ RecordsOK

LEMMA Engine == Spec => []EngineOK
<1>1. Init => EngineOK
  BY InitType, InitIndex, InitSlot, InitRecords DEF EngineOK
<1>2. EngineOK /\ [Next]_vars => EngineOK'
  BY StepType, StepIndex, StepSlot, StepRecords DEF EngineOK
<1> QED BY <1>1, <1>2, PTL DEF Spec

(* The process never ends by log.Fatalf: whatever is killed, deleted, evicted  *)
(* or restarted, an insert meets no record and GetCancelStatus finds its own   *)
(* (execJob, runJobExecution, recoverSeqNo).                                   *)
THEOREM NoFatalEnd == Spec => []NeverFatal
<1>1. EngineOK => NeverFatal
  BY DEF EngineOK, RecordsOK, NeverFatal
<1> QED BY <1>1, Engine, PTL

(* Where no execution has the number 1, which is also the code EXEC_FINISHED,  *)
(* an execution whose record is done runs no command (ExecAsync).              *)
THEOREM DoneStops == Spec => [](FirstSeq > 0 => DoneMeansStopped)
<1>1. EngineOK => (FirstSeq > 0 => DoneMeansStopped)
  <2> SUFFICES ASSUME EngineOK, FirstSeq > 0, NEW e \in Runs, Alive(e), Done(RowOf(e))
               PROVE  exec[e].pc \in {"view", "lastview", "common", "recv"}
    BY DEF DoneMeansStopped
  <2>1. exec[e].pc \notin Opened
    BY DEF EngineOK, RecordsOK, OpenAt, RowOf
  <2> QED BY <2>1 DEF Opened, Alive, RunPC
<1> QED BY <1>1, Engine, PTL

-----------------------------------------------------------------------------
(* The executions as the specification sees them, and a step of it, or none.   *)
RunsVar == [e \in Runs |-> AbstractRun(e)]

SerialStep == Abstract!Next \/ UNCHANGED RunsVar

Kept(e) == AbstractRun(e)' = AbstractRun(e)

LEMMA AllKept ==
  ASSUME \A e \in Runs : Kept(e)
  PROVE  SerialStep
<1>1. [e \in Runs |-> AbstractRun(e)]' = [e \in Runs |-> AbstractRun(e)]
  BY DEF Kept
<1> QED BY <1>1 DEF SerialStep, RunsVar

LEMMA SubmitStep ==
  ASSUME NEW e \in Runs, NEW k \in Keys, NEW n \in Seqs, \A f \in Runs \ {e} : Kept(f),
         ~Alive(e), AbstractRun(e)' = [phase |-> "pending", key |-> k, seq |-> n],
         \A f \in Runs : Alive(f) /\ exec[f].key = k => exec[f].seq # n
  PROVE  SerialStep
<1>1. AbstractRun(e) = Abstract!Free
  BY DEF AbstractRun, Abstract!Free
<1>2. \A f \in Abstract!Live(k) : AbstractRun(f).seq # n
  BY DEF Abstract!Live, AbstractRun
<1>3. Abstract!Submit(e, k, n)
  BY <1>1, <1>2 DEF Abstract!Submit, Abstract!Live, Kept
<1> QED BY <1>3 DEF SerialStep, Abstract!Next

LEMMA StartStep ==
  ASSUME NEW e \in Runs, \A f \in Runs \ {e} : Kept(f), Alive(e), ~InSlot(e),
         AbstractRun(e)' = [phase |-> "running", key |-> exec[e].key, seq |-> exec[e].seq],
         \A f \in Runs : InSlot(f) => exec[f].key # exec[e].key
  PROVE  SerialStep
<1>1. AbstractRun(e) = [phase |-> "pending", key |-> exec[e].key, seq |-> exec[e].seq]
  BY DEF AbstractRun, PhaseOf
<1>2. \A f \in Abstract!Live(exec[e].key) : AbstractRun(f).phase # "running"
  BY DEF Abstract!Live, AbstractRun, PhaseOf
<1>3. AbstractRun(e)' = [AbstractRun(e) EXCEPT !.phase = "running"]
  BY <1>1
<1>4. [f \in Runs |-> AbstractRun(f)]'
        = [[f \in Runs |-> AbstractRun(f)] EXCEPT ![e].phase = "running"]
  BY <1>3 DEF Kept
<1>5. [f \in Runs |-> AbstractRun(f)][e] = AbstractRun(e)
  OBVIOUS
<1>6. \A f \in Abstract!Live(exec[e].key) : [g \in Runs |-> AbstractRun(g)][f].phase # "running"
  BY <1>2 DEF Abstract!Live
<1>7. Abstract!Start(e)
  BY <1>1, <1>4, <1>5, <1>6 DEF Abstract!Start
<1> QED BY <1>7 DEF SerialStep, Abstract!Next

LEMMA FinishStep ==
  ASSUME NEW e \in Runs, \A f \in Runs \ {e} : Kept(f), InSlot(e), ~Alive(e)'
  PROVE  SerialStep
<1>1. AbstractRun(e).phase = "running" /\ AbstractRun(e)' = Abstract!Free
  BY Places DEF AbstractRun, PhaseOf, Abstract!Free, InSlot, Alive
<1>2. Abstract!Finish(e)
  BY <1>1 DEF Abstract!Finish, Kept
<1> QED BY <1>2 DEF SerialStep, Abstract!Next

LEMMA CrashStep ==
  ASSUME \A e \in Runs : ~Alive(e)'
  PROVE  SerialStep
<1>1. \A e \in Runs : AbstractRun(e)' = Abstract!Free
  BY DEF AbstractRun, Abstract!Free
<1>2. Abstract!Crash
  BY <1>1 DEF Abstract!Crash
<1> QED BY <1>2 DEF SerialStep, Abstract!Next

(* What a goroutine is for the specification depends on where it is, and for   *)
(* which execution.                                                            *)
LEMMA KeptSame ==
  ASSUME NEW e \in Runs, exec'[e] = exec[e]
  PROVE  Kept(e)
  BY DEF Kept, AbstractRun, PhaseOf, Alive, InSlot

LEMMA StaysInSlot ==
  ASSUME NEW e \in Runs, InSlot(e), Moved(e, SlotPC)
  PROVE  SerialStep
<1>1. Alive(e) /\ Alive(e)' /\ InSlot(e)'
  BY Places DEF Alive, InSlot, Moved
<1>2. Kept(e)
  BY <1>1 DEF Kept, AbstractRun, PhaseOf, Moved
<1>3. \A f \in Runs : Kept(f)
  BY <1>2, KeptSame DEF Moved
<1> QED BY <1>3, AllKept

(* Every step of the execution itself.                                         *)
LEMMA ProgressSerial ==
  ASSUME EngineOK, NEW e \in Runs, Progress(e) \/ EndsByItself(e)
  PROVE  SerialStep
<1>0. StateOK /\ SlotOK /\ IndexOK
  BY DEF EngineOK
<1>1. CASE LookupExecChan(e)
  <2>1. From(e, "spawned", {"queued"})
    BY <1>0, <1>1, Moves
  <2>2. Kept(e)
    BY <2>1 DEF From, Moved, Kept, AbstractRun, PhaseOf, Alive, InSlot, SlotPC, RunPC
  <2>3. \A f \in Runs : Kept(f)
    BY <2>1, <2>2, KeptSame DEF From, Moved
  <2> QED BY <2>3, AllKept
<1>2. CASE Acquire(e)
  <2>1. From(e, "queued", {"begin"})
    BY <1>0, <1>2, Moves
  <2>2. Alive(e) /\ ~InSlot(e) /\ \A f \in Runs \ {e} : Kept(f)
    BY <2>1, KeptSame DEF From, Moved, Alive, InSlot, SlotPC, RunPC
  <2>3. AbstractRun(e)' = [phase |-> "running", key |-> exec[e].key, seq |-> exec[e].seq]
    BY <2>1 DEF From, Moved, AbstractRun, PhaseOf, Alive, InSlot, SlotPC, RunPC
  <2>4. \A f \in Runs : InSlot(f) => exec[f].key # exec[e].key
    <3> SUFFICES ASSUME NEW f \in Runs, InSlot(f), exec[f].key = exec[e].key PROVE FALSE
      OBVIOUS
    <3> DEFINE k == exec[e].key
               c == exec[e].chan
    <3>1. k \in Keys /\ c = execChan[k] /\ c # 0 /\ execChans[k][c] # <<>>
      BY <1>0, <1>2, <2>1, Indices DEF From, SlotOK, Slot, Acquire
    <3>2. c \in 1..Len(execChans[k]) /\ execChans[k] \in Seq(Seq(Int))
      BY <1>0, <3>1, Indices DEF StateOK, IndexOK, Chan
    <3>3. execChans[k][c] \in Seq(Int) /\ Len(execChans[k][c]) < 1
      BY <1>2, <3>2 DEF Acquire, CanSend
    <3> QED BY <3>1, <3>3, EmptySeq
  <2> QED BY <2>2, <2>3, <2>4, StartStep
<1>3. CASE Begin(e)
  BY <1>0, <1>3, Moves, StaysInSlot DEF From, Moved, InSlot, SlotPC, RunPC
<1>4. CASE SilentFailure(e)
  BY <1>0, <1>4, Moves, StaysInSlot DEF From, Moved, InSlot, SlotPC, RunPC
<1>5. CASE StartCommand(e)
  BY <1>0, <1>5, Moves, StaysInSlot DEF From, Moved, InSlot, SlotPC, RunPC
<1>6. CASE CommandSucceeds(e)
  BY <1>0, <1>6, Moves, StaysInSlot DEF From, Moved, InSlot, SlotPC, RunPC
<1>7. CASE SucceedView(e)
  BY <1>0, <1>7, Moves, StaysInSlot DEF From, Moved, InSlot, SlotPC, RunPC
<1>8. CASE CommonLock(e)
  BY <1>0, <1>8, Moves, StaysInSlot DEF From, Moved, InSlot, SlotPC, RunPC
<1>9. CASE Succeed(e)
  BY <1>0, <1>9, Moves, StaysInSlot DEF From, Moved, InSlot, SlotPC, RunPC
<1>10. CASE StartFails(e) \/ CommandTimesOut(e) \/ CommandFails(e)
  <2>1. exec[e].key \in Keys
    BY <1>0, <1>10, Indices DEF StartFails, CommandTimesOut, CommandFails
  <2>2. exec[e].pc \in {"ready", "select"} /\ Moved(e, {"view"})
    BY <1>0, <1>10, <2>1, CommandMoves
  <2> QED BY <2>2, StaysInSlot DEF Moved, InSlot, SlotPC, RunPC
<1>11. CASE RecvKill(e)
  <2>1. exec[e].key \in Keys
    BY <1>0, <1>11, Indices DEF RecvKill
  <2>2. exec[e].pc = "select" /\ (Moved(e, {"view"}) \/ Moved(e, {"select"}))
    BY <1>0, <1>11, <2>1, KillMoves
  <2> QED BY <2>2, StaysInSlot DEF Moved, InSlot, SlotPC, RunPC
<1>12. CASE ReturnFromCommand(e)
  BY <1>0, <1>12, ReturnMoves, StaysInSlot DEF Moved, InSlot, SlotPC, RunPC
<1>13. CASE Release(e)
  <2>1. exec[e].pc = "recv" /\ exec'[e] = IdleRun /\ \A f \in Runs : f # e => exec'[f] = exec[f]
    BY <1>0, <1>13, GoesOnly DEF Release
  <2>2. InSlot(e) /\ ~Alive(e)'
    BY <2>1 DEF InSlot, Alive, IdleRun, SlotPC, RunPC
  <2> QED BY <2>1, <2>2, KeptSame, FinishStep
<1> QED BY <1>1, <1>2, <1>3, <1>4, <1>5, <1>6, <1>7, <1>8, <1>9, <1>10, <1>11, <1>12, <1>13
        DEF Progress, EndsByItself

(* execJob: the number it gives is above those of all live executions.         *)
LEMMA StartSerial ==
  ASSUME EngineOK, NEW e \in Runs, ExecStart(e)
  PROVE  SerialStep
<1> DEFINE k == exec[e].key
           n == seqNo[k] + 1
           r == [exec[e] EXCEPT !.pc = "spawned", !.seq = n]
<1>1. k \in Keys /\ n \in Seqs /\ seqNo[k] \in Nat /\ exec[e].pc = "checked" /\ Goes(e, r)
  BY Indices DEF EngineOK, ExecStart, StateOK
<1>2. r.pc = "spawned" /\ r.key = k /\ r.seq = n
  BY DEF EngineOK, StateOK, RunState
<1> HIDE DEF k, n, r
<1>3. exec'[e] = r /\ \A f \in Runs : f # e => exec'[f] = exec[f]
  BY <1>1, GoesOnly DEF EngineOK
<1>4. ~Alive(e) /\ AbstractRun(e)' = [phase |-> "pending", key |-> k, seq |-> n]
  BY <1>1, <1>2, <1>3 DEF Alive, AbstractRun, PhaseOf, InSlot, SlotPC, RunPC
<1>5. \A f \in Runs : Alive(f) /\ exec[f].key = k => exec[f].seq # n
  BY <1>1, BoundsAssumption DEF EngineOK, RecordsOK, Seqs, n
<1> QED BY <1>1, <1>3, <1>4, <1>5, KeptSame, SubmitStep

LEMMA SerialInit == Init => Abstract!Init
<1> SUFFICES ASSUME Init PROVE Abstract!Init
  OBVIOUS
<1>1. \A e \in Runs : AbstractRun(e) = Abstract!Free
  BY DEF Init, IdleRun, AbstractRun, Alive, RunPC, Abstract!Free
<1> QED BY <1>1 DEF Abstract!Init

LEMMA SerialNext == EngineOK /\ [Next]_vars => [Abstract!Next]_RunsVar
<1> SUFFICES ASSUME EngineOK, [Next]_vars PROVE SerialStep
  BY DEF SerialStep
<1>1. ASSUME NEW e \in Runs, NEW k \in Keys, ExecCheck(e, k) PROVE SerialStep
  <2> DEFINE r == [IdleRun EXCEPT !.pc = "checked", !.key = k]
  <2>1. Goes(e, r) /\ r.pc \notin RunPC /\ exec[e].pc \notin RunPC
    BY <1>1 DEF ExecCheck, IdleRun, RunPC
  <2> HIDE DEF r
  <2>2. exec'[e] = r /\ \A f \in Runs : f # e => exec'[f] = exec[f]
    BY <2>1, GoesOnly DEF EngineOK
  <2>3. Kept(e)
    BY <2>1, <2>2 DEF Kept, AbstractRun, Alive
  <2> QED BY <2>2, <2>3, KeptSame, AllKept
<1>2. ASSUME NEW e \in Runs, ExecStart(e) PROVE SerialStep
  BY <1>2, StartSerial
<1>3. ASSUME NEW e \in Runs, Progress(e) \/ EndsByItself(e) PROVE SerialStep
  BY <1>3, ProgressSerial
<1>4. CASE exec' = exec
  BY <1>4, KeptSame, AllKept
<1>5. CASE Restart
  BY <1>5, CrashStep DEF Restart, IdleRun, Alive, RunPC
<1> QED BY <1>1, <1>2, <1>3, <1>4, <1>5
        DEF Next, Step, KillRequested, KillGoroutine, KillCheck, KillMake, KillLookup, KillSend,
            DelJobExecution, Evict, KillRequest, vars

(* Channels, locks, tables and restarts together give what SerialJobs          *)
(* promises: the executions of a job run one at a time, under numbers of their *)
(* own (execJob, runJobExecution, recoverSeqNo).                               *)
THEOREM SerialJobsIsImplemented == Spec => ImplementsSerialJobs
<1>1. Init => Abstract!Init
  BY SerialInit
<1>2. EngineOK /\ [Next]_vars => [Abstract!Next]_RunsVar
  BY SerialNext
<1> QED BY <1>1, <1>2, Engine, PTL DEF Spec, ImplementsSerialJobs, Abstract!Spec, RunsVar
-----------------------------------------------------------------------------
(* The executions of job k that were started and have not ended.               *)
Busy(k) == {e \in Runs : Alive(e) /\ exec[e].key = k}

(* The inductive invariant: Runs may be infinite, the executions under way are *)
(* finitely many at any time.                                                  *)
GroupsOK ==
  \A k \in Keys :
    /\ IsFiniteSet(Busy(k))
    /\ waitExec[k] = 0 => Busy(k) = {}
    /\ waitExec[k] # 0 => waitGroups[k][waitExec[k]] = Cardinality(Busy(k))

(* Only COMMON_HANDLING holds the lock over a step, from the lookup of the     *)
(* channel to the receive.                                                     *)
LockOK == \A e \in Runs : exec[e].pc = "recv" <=> accessLock = e

-----------------------------------------------------------------------------
(* Most steps leave the wait groups alone and end or start no execution.       *)
LEMMA GroupsSame ==
  ASSUME GroupsOK, UNCHANGED <<waitExec, waitGroups>>,
         \A e \in Runs : /\ Alive(e)' <=> Alive(e)
                         /\ Alive(e) => exec'[e].key = exec[e].key
  PROVE  GroupsOK'
<1>1. \A k \in Keys : Busy(k)' = Busy(k)
  BY DEF Busy
<1> QED BY <1>1 DEF GroupsOK

LEMMA GroupsMoved ==
  ASSUME GroupsOK, UNCHANGED <<waitExec, waitGroups>>, NEW e \in Runs, Alive(e), Moved(e, RunPC)
  PROVE  GroupsOK'
<1>1. \A f \in Runs : (Alive(f)' <=> Alive(f)) /\ (Alive(f) => exec'[f].key = exec[f].key)
  BY DEF Moved, Alive
<1> QED BY <1>1, GroupsSame

(* d.WaitExec[key].Add(1) comes with the execution.                            *)
LEMMA GroupsStart ==
  ASSUME StateOK, IndexOK, GroupsOK, NEW e \in Runs, ExecStart(e), NEW k \in Keys, k = exec[e].key
  PROVE  GroupsOK'
<1> DEFINE r == [exec[e] EXCEPT !.pc = "spawned", !.seq = seqNo[k] + 1]
           wgs == IF NoWaitGroup(k) THEN Append(waitGroups[k], 0) ELSE waitGroups[k]
           w == IF NoWaitGroup(k) THEN Len(wgs) ELSE waitExec[k]
<1>1. /\ exec[e].pc = "checked" /\ Goes(e, r)
      /\ waitExec' = [waitExec EXCEPT ![k] = w]
      /\ waitGroups' = [waitGroups EXCEPT ![k] = [wgs EXCEPT ![w] = wgs[w] + 1]]
  BY DEF ExecStart
<1>2. wgs \in Seq(Int) /\ w \in 1..Len(wgs)
  BY <1>1, SMTT(20) DEF StateOK, IndexOK, NoWaitGroup
<1>3. wgs[w] = Cardinality(Busy(k)) /\ IsFiniteSet(Busy(k))
  <2>1. CASE NoWaitGroup(k)
    <3>1. waitGroups[k] \in Seq(Int) /\ wgs = Append(waitGroups[k], 0) /\ w = Len(waitGroups[k]) + 1
      BY <1>1, <2>1 DEF StateOK
    <3>2. wgs[w] = 0
      BY <3>1
    <3>3. Busy(k) = {} /\ IsFiniteSet(Busy(k))
      BY <1>1, <2>1 DEF GroupsOK, NoWaitGroup
    <3> QED BY <3>2, <3>3, FS_EmptySet
  <2>2. CASE ~NoWaitGroup(k)
    BY <1>1, <2>2 DEF GroupsOK, NoWaitGroup
  <2> QED BY <2>1, <2>2
<1>4. r.pc = "spawned" /\ r.key = k
  BY DEF StateOK, RunState
<1> HIDE DEF r, wgs, w
<1>5. exec'[e] = r /\ \A f \in Runs : f # e => exec'[f] = exec[f]
  BY <1>1, GoesOnly
<1>6. e \notin Busy(k) /\ Busy(k)' = Busy(k) \cup {e} /\ \A j \in Keys : j # k => Busy(j)' = Busy(j)
  <2>1. ~Alive(e) /\ Alive(e)' /\ exec'[e].key = k
    BY <1>1, <1>4, <1>5 DEF Alive, RunPC
  <2>2. \A f \in Runs : f # e => (Alive(f)' <=> Alive(f)) /\ exec'[f] = exec[f]
    BY <1>5 DEF Alive
  <2> QED BY <2>1, <2>2 DEF Busy
<1>7. IsFiniteSet(Busy(k)') /\ Cardinality(Busy(k)') = Cardinality(Busy(k)) + 1
  BY <1>3, <1>6, FS_AddElement
<1>8. waitExec'[k] = w /\ w # 0 /\ waitGroups'[k][w] = wgs[w] + 1
  <2>1. waitGroups'[k] = [wgs EXCEPT ![w] = wgs[w] + 1] /\ waitExec'[k] = w
    BY <1>1 DEF StateOK
  <2>2. w \in DOMAIN wgs /\ w # 0
    BY <1>2
  <2> QED BY <2>1, <2>2
<1>9. \A j \in Keys : j # k => waitExec'[j] = waitExec[j] /\ waitGroups'[j] = waitGroups[j]
  BY <1>1 DEF StateOK
<1> QED BY <1>3, <1>6, <1>7, <1>8, <1>9 DEF GroupsOK

(* d.WaitExec[key].Done() comes with the end of the execution.                 *)
LEMMA GroupsRelease ==
  ASSUME StateOK, IndexOK, GroupsOK, NEW e \in Runs, Release(e), NEW k \in Keys, k = exec[e].key
  PROVE  GroupsOK'
<1> DEFINE w == waitExec[k]
<1>1. /\ exec[e].pc = "recv" /\ Goes(e, IdleRun) /\ w # 0
      /\ waitGroups' = [waitGroups EXCEPT ![k][w] = @ - 1] /\ waitExec' = waitExec
  BY DEF Release, maps
<1>2. waitGroups[k] \in Seq(Int) /\ w \in 1..Len(waitGroups[k])
  BY <1>1 DEF StateOK, IndexOK
<1>3. waitGroups[k][w] = Cardinality(Busy(k)) /\ IsFiniteSet(Busy(k))
  BY <1>1 DEF GroupsOK
<1>4. waitGroups'[k][w] = waitGroups[k][w] - 1
  BY <1>1, <1>2 DEF StateOK
<1>5. \A j \in Keys : j # k => waitGroups'[j] = waitGroups[j]
  BY <1>1 DEF StateOK
<1>6. exec'[e] = IdleRun /\ \A f \in Runs : f # e => exec'[f] = exec[f]
  BY <1>1, GoesOnly
<1>7. e \in Busy(k)
  BY <1>1 DEF Busy, Alive, RunPC
<1> HIDE DEF w
<1>8. Busy(k)' = Busy(k) \ {e} /\ \A j \in Keys : j # k => Busy(j)' = Busy(j)
  <2>1. ~Alive(e)'
    BY <1>6 DEF Alive, IdleRun, RunPC
  <2>2. \A f \in Runs : f # e => (Alive(f)' <=> Alive(f)) /\ exec'[f] = exec[f]
    BY <1>6 DEF Alive
  <2>3. \A j \in Keys : j # k => e \notin Busy(j)
    BY DEF Busy
  <2> QED BY <2>1, <2>2, <2>3 DEF Busy
<1>9. IsFiniteSet(Busy(k)') /\ Cardinality(Busy(k)') = Cardinality(Busy(k)) - 1
  BY <1>3, <1>7, <1>8, FS_RemoveElement
<1> QED BY <1>1, <1>3, <1>4, <1>5, <1>8, <1>9 DEF GroupsOK, w

-----------------------------------------------------------------------------
LEMMA LockSame ==
  ASSUME LockOK, accessLock' = accessLock,
         \A e \in Runs : exec'[e].pc = "recv" <=> exec[e].pc = "recv"
  PROVE  LockOK'
  BY DEF LockOK

(* A goroutine that neither comes to the receive nor leaves it.                *)
LEMMA LockMoved ==
  ASSUME LockOK, accessLock' = accessLock, NEW e \in Runs, exec[e].pc # "recv", NEW P,
         "recv" \notin P, exec'[e].pc \in P, \A f \in Runs \ {e} : exec'[f] = exec[f]
  PROVE  LockOK'
  BY LockSame

(* The two invariants hold at the start, and each step keeps them.             *)
LEMMA InitGroupsLock == Init => GroupsOK /\ LockOK
<1> SUFFICES ASSUME Init PROVE GroupsOK /\ LockOK
  OBVIOUS
<1>1. \A e \in Runs : exec[e].pc = "idle" /\ ~Alive(e)
  BY DEF Init, IdleRun, Alive, RunPC
<1>2. \A k \in Keys : Busy(k) = {} /\ waitExec[k] = 0
  BY <1>1 DEF Busy, Init
<1>3. accessLock \notin Runs
  BY NoneAssumption DEF Init
<1> QED BY <1>1, <1>2, <1>3, FS_EmptySet DEF GroupsOK, LockOK

(* A step of an execution that stays one, and does not touch the lock.         *)
LEMMA BothMoved ==
  ASSUME GroupsOK, LockOK, UNCHANGED <<waitExec, waitGroups, accessLock>>, NEW e \in Runs,
         Alive(e), exec[e].pc # "recv", NEW P, P \subseteq RunPC \ {"recv"}, Moved(e, P)
  PROVE  GroupsOK' /\ LockOK'
<1>1. Moved(e, RunPC)
  BY DEF Moved
<1> QED BY <1>1, GroupsMoved, LockMoved DEF Moved

LEMMA ProgressGroupsLock ==
  ASSUME StateOK, IndexOK, GroupsOK, LockOK, NEW e \in Runs, Progress(e) \/ EndsByItself(e)
  PROVE  GroupsOK' /\ LockOK'
<1> USE DEF maps, heap
<1>1. CASE CommonLock(e)
  <2>1. From(e, "common", {"recv"}) /\ accessLock = None /\ accessLock' = e
        /\ UNCHANGED <<waitExec, waitGroups>>
    BY <1>1, Moves DEF CommonLock
  <2>2. Alive(e) /\ Moved(e, RunPC)
    BY <2>1 DEF From, Moved, Alive, RunPC
  <2>3. \A f \in Runs : exec[f].pc # "recv"
    BY <2>1, NoneAssumption DEF LockOK
  <2>4. LockOK'
    BY <2>1, <2>3 DEF LockOK, From, Moved
  <2> QED BY <2>1, <2>2, <2>4, GroupsMoved
<1>2. CASE Release(e)
  <2>1. exec[e].pc = "recv" /\ accessLock' = None /\ exec'[e] = IdleRun
        /\ \A f \in Runs : f # e => exec'[f] = exec[f]
    BY <1>2, GoesOnly DEF Release
  <2>2. \A f \in Runs : f # e => exec[f].pc # "recv"
    BY <2>1 DEF LockOK
  <2>3. LockOK'
    BY <2>1, <2>2, NoneAssumption DEF LockOK, IdleRun
  <2>4. exec[e].key \in Keys
    BY <2>1, Indices
  <2> QED BY <1>2, <2>3, <2>4, GroupsRelease
<1>3. CASE StartFails(e) \/ CommandTimesOut(e) \/ CommandFails(e)
  <2>1. exec[e].key \in Keys /\ UNCHANGED <<waitExec, waitGroups, accessLock>>
    BY <1>3, Indices DEF StartFails, CommandTimesOut, CommandFails
  <2>2. exec[e].pc \in {"ready", "select"} /\ Moved(e, {"view"})
    BY <1>3, <2>1, CommandMoves
  <2> QED BY <2>1, <2>2, BothMoved DEF Alive, RunPC
<1>4. CASE RecvKill(e)
  <2>1. exec[e].key \in Keys /\ UNCHANGED <<waitExec, waitGroups, accessLock>>
    BY <1>4, Indices DEF RecvKill
  <2>2. exec[e].pc = "select" /\ Moved(e, {"view", "select"})
    BY <1>4, <2>1, KillMoves DEF Moved
  <2> QED BY <2>1, <2>2, BothMoved DEF Alive, RunPC
<1>5. CASE ReturnFromCommand(e)
  <2>1. exec[e].pc = "view" /\ Moved(e, {"ready", "common"})
        /\ UNCHANGED <<waitExec, waitGroups, accessLock>>
    BY <1>5, ReturnMoves DEF ReturnFromCommand, Moved
  <2> QED BY <2>1, BothMoved DEF Alive, RunPC
<1>6. CASE LookupExecChan(e) \/ Acquire(e) \/ Begin(e) \/ SilentFailure(e) \/ StartCommand(e)
           \/ CommandSucceeds(e) \/ SucceedView(e) \/ Succeed(e)
  <2>1. UNCHANGED <<waitExec, waitGroups, accessLock>>
    BY <1>6 DEF LookupExecChan, Acquire, Begin, SilentFailure, StartCommand, CommandSucceeds,
                SucceedView, Succeed
  <2>2. /\ exec[e].pc \in RunPC \ {"recv"}
        /\ Moved(e, {"queued", "begin", "common", "ready", "select", "lastview"})
    BY <1>6, Moves DEF From, Moved, RunPC
  <2> QED BY <2>1, <2>2, BothMoved DEF Alive, RunPC
<1> QED BY <1>1, <1>2, <1>3, <1>4, <1>5, <1>6 DEF Progress, EndsByItself

LEMMA StepGroupsLock ==
  StateOK /\ IndexOK /\ GroupsOK /\ LockOK /\ [Next]_vars => GroupsOK' /\ LockOK'
<1> SUFFICES ASSUME StateOK, IndexOK, GroupsOK, LockOK, [Next]_vars PROVE GroupsOK' /\ LockOK'
  OBVIOUS
<1> USE DEF maps, heap
<1>1. ASSUME NEW e \in Runs, NEW k \in Keys, ExecCheck(e, k) PROVE GroupsOK' /\ LockOK'
  <2> DEFINE r == [IdleRun EXCEPT !.pc = "checked", !.key = k]
  <2>1. Goes(e, r) /\ r.pc = "checked" /\ exec[e].pc = "idle"
        /\ UNCHANGED <<waitExec, waitGroups, accessLock>>
    BY <1>1 DEF ExecCheck, IdleRun
  <2> HIDE DEF r
  <2>2. exec'[e].pc = "checked" /\ \A f \in Runs : f # e => exec'[f] = exec[f]
    BY <2>1, GoesOnly
  <2>3. \A f \in Runs : (Alive(f)' <=> Alive(f)) /\ (Alive(f) => exec'[f].key = exec[f].key)
    BY <2>1, <2>2 DEF Alive, RunPC
  <2>4. \A f \in Runs : exec'[f].pc = "recv" <=> exec[f].pc = "recv"
    BY <2>1, <2>2
  <2> QED BY <2>1, <2>3, <2>4, GroupsSame, LockSame
<1>2. ASSUME NEW e \in Runs, ExecStart(e) PROVE GroupsOK' /\ LockOK'
  <2> DEFINE r == [exec[e] EXCEPT !.pc = "spawned", !.seq = seqNo[exec[e].key] + 1]
  <2>1. Goes(e, r) /\ r.pc = "spawned" /\ exec[e].pc = "checked" /\ accessLock' = accessLock
    BY <1>2 DEF ExecStart, StateOK, RunState
  <2> HIDE DEF r
  <2>2. \A f \in Runs : exec'[f].pc = "recv" <=> exec[f].pc = "recv"
    BY <2>1, GoesOnly
  <2>3. exec[e].key \in Keys
    BY <2>1, Indices
  <2> QED BY <1>2, <2>1, <2>2, <2>3, GroupsStart, LockSame
<1>3. ASSUME NEW e \in Runs, Progress(e) \/ EndsByItself(e) PROVE GroupsOK' /\ LockOK'
  BY <1>3, ProgressGroupsLock
<1>4. CASE UNCHANGED <<waitExec, waitGroups, accessLock, exec>>
  BY <1>4, GroupsSame, LockSame DEF Alive
<1>5. CASE Restart
  <2>1. \A e \in Runs : exec'[e].pc = "idle" /\ ~Alive(e)'
    BY <1>5 DEF Restart, IdleRun, Alive, RunPC
  <2>2. \A k \in Keys : Busy(k)' = {} /\ waitExec'[k] = 0
    BY <1>5, <2>1 DEF Restart, Busy
  <2>3. accessLock' \notin Runs
    BY <1>5, NoneAssumption DEF Restart
  <2> QED BY <2>1, <2>2, <2>3, FS_EmptySet DEF GroupsOK, LockOK
<1> QED BY <1>1, <1>2, <1>3, <1>4, <1>5
        DEF Next, Step, KillRequested, KillGoroutine, KillCheck, KillMake, KillLookup, KillSend,
            DelJobExecution, Evict, KillRequest, vars

LEMMA GroupsLock == Spec => [](GroupsOK /\ LockOK)
<1>1. Init => StateOK /\ IndexOK /\ GroupsOK /\ LockOK
  BY InitType, InitIndex, InitGroupsLock
<1>2. (StateOK /\ IndexOK /\ GroupsOK /\ LockOK) /\ [Next]_vars
      => (StateOK /\ IndexOK /\ GroupsOK /\ LockOK)'
  BY StepType, StepIndex, StepGroupsLock
<1> QED BY <1>1, <1>2, PTL DEF Spec

(* The wait group that delJob waits on counts the executions of the job that   *)
(* were started and have not ended (execJob, COMMON_HANDLING).                 *)
THEOREM GroupsCount == Spec => []WaitGroupCountsRuns
<1>1. GroupsOK => WaitGroupCountsRuns
  BY DEF GroupsOK, WaitGroupCountsRuns, Busy
<1> QED BY <1>1, GroupsLock, PTL

(* Whoever holds accessLock finds its token in the channel and a counter to    *)
(* decrement: it never waits with the lock held (COMMON_HANDLING).             *)
THEOREM LockIsGivenBack == Spec => []LockHolderNeverWaits
<1>1. TypeOK /\ EngineOK /\ GroupsOK /\ LockOK => LockHolderNeverWaits
  <2> SUFFICES ASSUME TypeOK, EngineOK, GroupsOK, LockOK, NEW e \in Runs, accessLock = e
               PROVE  /\ exec[e].pc = "recv"
                      /\ exec[e].chan \in DOMAIN execChans[exec[e].key]
                      /\ CanRecv(execChans[exec[e].key][exec[e].chan])
                      /\ waitExec[exec[e].key] # 0
                      /\ waitGroups[exec[e].key][waitExec[exec[e].key]] > 0
    BY DEF TypeOK, LockHolderNeverWaits
  <2> DEFINE k == exec[e].key
  <2>1. exec[e].pc = "recv" /\ k \in Keys /\ Alive(e) /\ InSlot(e)
    BY Indices DEF LockOK, EngineOK, Alive, InSlot, SlotPC, RunPC
  <2>2. exec[e].chan = execChan[k] /\ execChan[k] # 0 /\ execChans[k][execChan[k]] # <<>>
    BY <2>1 DEF EngineOK, SlotOK, Slot
  <2>3. execChans[k] \in Seq(Chan) /\ execChan[k] \in 1..Len(execChans[k])
    BY <2>1, <2>2, Indices DEF EngineOK, StateOK, IndexOK
  <2>4. exec[e].chan \in DOMAIN execChans[k]
    BY <2>2, <2>3
  <2>5. e \in Busy(k) /\ IsFiniteSet(Busy(k))
    BY <2>1 DEF Busy, GroupsOK
  <2>6. Cardinality(Busy(k)) \in Nat /\ Cardinality(Busy(k)) # 0
    BY <2>5, FS_CardinalityType, FS_EmptySet
  <2>7. waitExec[k] # 0 /\ waitGroups[k][waitExec[k]] = Cardinality(Busy(k))
    BY <2>1, <2>5 DEF GroupsOK
  <2> QED BY <2>1, <2>2, <2>4, <2>6, <2>7 DEF CanRecv
<1> QED BY <1>1, TypeCorrect, Engine, GroupsLock, PTL

-----------------------------------------------------------------------------
(* A token in the channel of a job belongs to one of its executions.           *)
TokenOwned ==
  \A k \in Keys :
    execChan[k] # 0 /\ Slot(k) # <<>> => \E f \in Runs : InSlot(f) /\ exec[f].key = k

(* A goroutine of a kill request that found or made a channel finds one again. *)
KillsPosted ==
  \A g \in Killers : /\ kill[g].pc = "lookup" => killChan[kill[g].key] # 0
                     /\ kill[g].pc = "send" => kill[g].chan # 0

LEMMA TokenSame ==
  ASSUME TokenOwned, UNCHANGED <<execChan, execChans>>,
         \A f \in Runs : InSlot(f) => InSlot(f)' /\ exec'[f].key = exec[f].key
  PROVE  TokenOwned'
<1> SUFFICES ASSUME NEW k \in Keys, execChan[k] # 0, Slot(k) # <<>>
             PROVE  \E f \in Runs : InSlot(f)' /\ exec'[f].key = k
  BY DEF TokenOwned, Slot
<1> QED BY DEF TokenOwned

LEMMA TokenMoved ==
  ASSUME TokenOwned, UNCHANGED <<execChan, execChans>>, NEW e \in Runs,
         \/ InSlot(e) /\ Moved(e, SlotPC)
         \/ ~InSlot(e) /\ \A f \in Runs : f # e => exec'[f] = exec[f]
  PROVE  TokenOwned'
<1>1. \A f \in Runs : InSlot(f) => InSlot(f)' /\ exec'[f].key = exec[f].key
  BY DEF Moved, InSlot
<1> QED BY <1>1, TokenSame

(* Acquire puts the token in, Release takes the only one out.                  *)
LEMMA TokenAcquired ==
  ASSUME StateOK, TokenOwned, NEW e \in Runs, Acquire(e), NEW k \in Keys, k = exec[e].key
  PROVE  TokenOwned'
<1>1. From(e, "queued", {"begin"})
  BY Moves
<1>2. InSlot(e)' /\ exec'[e].key = k /\ \A f \in Runs : InSlot(f) => InSlot(f)' /\ exec'[f].key = exec[f].key
  BY <1>1 DEF From, Moved, InSlot, SlotPC, RunPC
<1>3. execChan' = execChan /\ \A j \in Keys : j # k => execChans'[j] = execChans[j]
  BY DEF Acquire, StateOK, maps
<1> SUFFICES ASSUME NEW j \in Keys, execChan[j] # 0, Slot(j)' # <<>>
             PROVE  \E f \in Runs : InSlot(f)' /\ exec'[f].key = j
  BY <1>3 DEF TokenOwned
<1>4. j # k => Slot(j) # <<>>
  BY <1>3 DEF Slot
<1> QED BY <1>2, <1>4 DEF TokenOwned

LEMMA OneTail == ASSUME NEW s \in Seq(Int), s # <<>>, Len(s) <= 1 PROVE Tail(s) = <<>>
<1> DEFINE n == Len(s)
<1>1. n \in Nat /\ n <= 1
  BY LenProperties
<1>2. n # 0
  BY EmptySeq
<1>3. n = 1
  <2> HIDE DEF n
  <2> QED BY <1>1, <1>2
<1>4. Tail(s) \in Seq(Int) /\ Len(Tail(s)) = 0
  BY <1>3, HeadTailProperties
<1> QED BY <1>4, EmptySeq

LEMMA TokenReleased ==
  ASSUME StateOK, IndexOK, SlotOK, TokenOwned, NEW e \in Runs, Release(e),
         NEW k \in Keys, k = exec[e].key
  PROVE  TokenOwned'
<1> DEFINE c == execChan[k]
<1>1. InSlot(e) /\ exec[e].pc = "recv"
  BY DEF Release, InSlot, SlotPC, RunPC
<1>2. exec'[e] = IdleRun /\ \A f \in Runs : f # e => exec'[f] = exec[f]
  BY GoesOnly DEF Release
<1>3. execChan' = execChan /\ \A j \in Keys : j # k => execChans'[j] = execChans[j]
  BY DEF StateOK, Release, maps
<1>4. exec[e].chan = c /\ c # 0
  BY <1>1 DEF SlotOK, Release
<1>5. c \in 1..Len(execChans[k]) /\ execChans[k] \in Seq(Seq(Int))
  BY <1>4, Indices DEF IndexOK, StateOK, Chan
<1>6. execChans[k][c] \in Seq(Int) /\ execChans[k][c] # <<>> /\ Len(execChans[k][c]) <= 1
  BY <1>1, <1>4, <1>5 DEF SlotOK, Slot
<1>7. execChans'[k][c] = Tail(execChans[k][c])
  BY <1>4, <1>5 DEF StateOK, Release, Drained
<1>8. Slot(k)' = <<>>
  <2> HIDE DEF c
  <2>3. Tail(execChans[k][c]) = <<>>
    BY <1>6, OneTail
  <2> QED BY <1>3, <1>7, <2>3 DEF Slot, c
<1> HIDE DEF c
<1> SUFFICES ASSUME NEW j \in Keys, execChan[j] # 0, Slot(j)' # <<>>
             PROVE  \E f \in Runs : InSlot(f)' /\ exec'[f].key = j
  BY <1>3 DEF TokenOwned
<1>9. j # k
  BY <1>8
<1>10. Slot(j) # <<>>
  BY <1>3, <1>9 DEF Slot
<1>11. PICK f \in Runs : InSlot(f) /\ exec[f].key = j
  BY <1>10 DEF TokenOwned
<1> QED BY <1>2, <1>9, <1>11 DEF InSlot

LEMMA TokenStarted ==
  ASSUME StateOK, TokenOwned, NEW e \in Runs, ExecStart(e), NEW k \in Keys, k = exec[e].key
  PROVE  TokenOwned'
<1>1. exec[e].pc = "checked" /\ \A f \in Runs : f # e => exec'[f] = exec[f]
  BY GoesOnly DEF ExecStart
<1>2. \A j \in Keys : j # k => execChan'[j] = execChan[j] /\ execChans'[j] = execChans[j]
  BY DEF StateOK, ExecStart
<1>3. execChan[k] # 0 => execChan'[k] = execChan[k] /\ execChans'[k] = execChans[k]
  BY DEF StateOK, ExecStart
<1>4. execChan[k] = 0 => Slot(k)' = <<>>
  <2> SUFFICES ASSUME execChan[k] = 0 PROVE Slot(k)' = <<>>
    OBVIOUS
  <2> DEFINE L == execChans[k]
  <2>1. execChan'[k] = Len(L) + 1 /\ execChans'[k] = Append(L, <<>>) /\ L \in Seq(Chan)
    BY DEF StateOK, ExecStart, NewChan
  <2>2. <<>> \in Chan
    BY DEF Chan
  <2> HIDE DEF L
  <2>3. Append(L, <<>>)[Len(L) + 1] = <<>>
    BY <2>1, <2>2, AppendProperties
  <2> QED BY <2>1, <2>3 DEF Slot
<1>5. \A f \in Runs : InSlot(f) => InSlot(f)' /\ exec'[f].key = exec[f].key
  BY <1>1 DEF InSlot, SlotPC, RunPC
<1> SUFFICES ASSUME NEW j \in Keys, execChan'[j] # 0, Slot(j)' # <<>>
             PROVE  \E f \in Runs : InSlot(f)' /\ exec'[f].key = j
  BY DEF TokenOwned
<1>6. execChan[j] # 0 /\ Slot(j) # <<>>
  BY <1>2, <1>3, <1>4 DEF Slot
<1> QED BY <1>5, <1>6 DEF TokenOwned

(* Every step of an execution keeps the owner of the token.                    *)
LEMMA ProgressToken ==
  ASSUME StateOK, IndexOK, SlotOK, TokenOwned, NEW e \in Runs, Progress(e) \/ EndsByItself(e)
  PROVE  TokenOwned'
<1> USE DEF maps, heap
<1>1. CASE Acquire(e)
  BY <1>1, TokenAcquired, Indices DEF Acquire
<1>2. CASE Release(e)
  BY <1>2, TokenReleased, Indices DEF Release
<1>3. CASE LookupExecChan(e)
  <2>1. From(e, "spawned", {"queued"}) /\ UNCHANGED <<execChan, execChans>>
    BY <1>3, Moves DEF LookupExecChan
  <2> QED BY <2>1, TokenMoved DEF From, Moved, InSlot, SlotPC, RunPC
<1>4. CASE StartFails(e) \/ CommandTimesOut(e) \/ CommandFails(e)
  <2>1. exec[e].key \in Keys /\ UNCHANGED <<execChan, execChans>>
    BY <1>4, Indices DEF StartFails, CommandTimesOut, CommandFails
  <2>2. exec[e].pc \in {"ready", "select"} /\ Moved(e, {"view"})
    BY <1>4, <2>1, CommandMoves
  <2> QED BY <2>1, <2>2, TokenMoved DEF Moved, InSlot, SlotPC, RunPC
<1>5. CASE RecvKill(e)
  <2>1. exec[e].key \in Keys /\ UNCHANGED <<execChan, execChans>>
    BY <1>5, Indices DEF RecvKill
  <2>2. exec[e].pc = "select" /\ Moved(e, {"view", "select"})
    BY <1>5, <2>1, KillMoves DEF Moved
  <2> QED BY <2>1, <2>2, TokenMoved DEF Moved, InSlot, SlotPC, RunPC
<1>6. CASE ReturnFromCommand(e)
  <2>1. exec[e].pc = "view" /\ Moved(e, {"ready", "common"}) /\ UNCHANGED <<execChan, execChans>>
    BY <1>6, ReturnMoves DEF ReturnFromCommand, Moved
  <2> QED BY <2>1, TokenMoved DEF Moved, InSlot, SlotPC, RunPC
<1>7. CASE Begin(e) \/ SilentFailure(e) \/ StartCommand(e)
           \/ CommandSucceeds(e) \/ SucceedView(e) \/ Succeed(e) \/ CommonLock(e)
  <2>1. UNCHANGED <<execChan, execChans>>
    BY <1>7 DEF Begin, SilentFailure, StartCommand, CommandSucceeds, SucceedView, Succeed, CommonLock
  <2>2. exec[e].pc \in SlotPC /\ Moved(e, {"ready", "common", "select", "lastview", "recv"})
    <3> USE DEF SlotPC, RunPC, From, Moved
    <3>1. CASE Begin(e) BY <3>1, Moves
    <3>2. CASE SilentFailure(e) BY <3>2, Moves
    <3>3. CASE StartCommand(e) BY <3>3, Moves
    <3>4. CASE CommandSucceeds(e) BY <3>4, Moves
    <3>5. CASE SucceedView(e) BY <3>5, Moves
    <3>6. CASE Succeed(e) BY <3>6, Moves
    <3>7. CASE CommonLock(e) BY <3>7, Moves
    <3> QED BY ONLY <1>7, <3>1, <3>2, <3>3, <3>4, <3>5, <3>6, <3>7
  <2>3. InSlot(e) /\ Moved(e, SlotPC)
    BY <2>2 DEF Moved, InSlot, SlotPC, RunPC
  <2> QED BY <2>1, <2>3, TokenMoved DEF Moved, InSlot, SlotPC, RunPC
<1> QED BY <1>1, <1>2, <1>3, <1>4, <1>5, <1>6, <1>7 DEF Progress, EndsByItself

LEMMA InitToken == Init => TokenOwned /\ KillsPosted
  BY DEF Init, TokenOwned, KillsPosted, IdleKill

LEMMA StepToken == StateOK /\ IndexOK /\ SlotOK /\ TokenOwned /\ [Next]_vars => TokenOwned'
<1> SUFFICES ASSUME StateOK, IndexOK, SlotOK, TokenOwned, [Next]_vars PROVE TokenOwned'
  OBVIOUS
<1> USE DEF maps, heap
<1>1. ASSUME NEW e \in Runs, NEW k \in Keys, ExecCheck(e, k) PROVE TokenOwned'
  <2> DEFINE r == [IdleRun EXCEPT !.pc = "checked", !.key = k]
  <2>1. Goes(e, r) /\ exec[e].pc = "idle" /\ UNCHANGED <<execChan, execChans>>
    BY <1>1 DEF ExecCheck
  <2> HIDE DEF r
  <2> QED BY <2>1, GoesOnly, TokenMoved DEF InSlot, SlotPC, RunPC
<1>2. ASSUME NEW e \in Runs, ExecStart(e) PROVE TokenOwned'
  BY <1>2, TokenStarted, Indices DEF ExecStart
<1>3. ASSUME NEW e \in Runs, Progress(e) \/ EndsByItself(e) PROVE TokenOwned'
  BY <1>3, ProgressToken
<1>4. CASE UNCHANGED <<execChan, execChans, exec>>
  BY <1>4, TokenSame DEF InSlot
<1>5. CASE Restart
  BY <1>5 DEF Restart, TokenOwned
<1> QED BY <1>1, <1>2, <1>3, <1>4, <1>5
        DEF Next, Step, KillRequested, KillGoroutine, KillCheck, KillMake, KillLookup, KillSend,
            DelJobExecution, Evict, KillRequest, vars

(* Only goroutines of kill requests change kill and killChan, where a channel  *)
(* that was made stays.                                                        *)
LEMMA StepPosted == StateOK /\ KillsPosted /\ [Next]_vars => KillsPosted'
<1> SUFFICES ASSUME StateOK, KillsPosted, [Next]_vars PROVE KillsPosted'
  OBVIOUS
<1> USE DEF maps
<1>1. CASE UNCHANGED <<kill, killChan>>
  BY <1>1 DEF KillsPosted
<1>2. ASSUME NEW g \in Killers, NEW r, KGoes(g, r), killChan' = killChan,
             r.pc = "lookup" => killChan[r.key] # 0, r.pc = "send" => r.chan # 0
      PROVE  KillsPosted'
  <2>1. kill'[g] = r /\ \A h \in Killers : h # g => kill'[h] = kill[h]
    BY <1>2 DEF KGoes, StateOK
  <2> QED BY <1>2, <2>1 DEF KillsPosted
<1>3. ASSUME NEW g \in Killers, NEW k \in Keys, NEW n \in KillArgs, KillRequest(g, k, n)
      PROVE  KillsPosted'
  <2> DEFINE r == [pc |-> "check", key |-> k, seq |-> n, chan |-> 0]
  <2>1. KGoes(g, r) /\ killChan' = killChan /\ r.pc = "check"
    BY <1>3 DEF KillRequest
  <2> HIDE DEF r
  <2> QED BY <2>1, <1>2
<1>4. ASSUME NEW g \in Killers, KillCheck(g) PROVE KillsPosted'
  <2> DEFINE r == [kill[g] EXCEPT !.pc = IF killChan[kill[g].key] = 0 THEN "make" ELSE "lookup"]
  <2>1. KGoes(g, r) /\ killChan' = killChan /\ r.key = kill[g].key
        /\ r.pc = IF killChan[kill[g].key] = 0 THEN "make" ELSE "lookup"
    BY <1>4 DEF KillCheck, StateOK, KillState
  <2> HIDE DEF r
  <2> QED BY <2>1, <1>2
<1>5. ASSUME NEW g \in Killers, KillMake(g) PROVE KillsPosted'
  <2> DEFINE k == kill[g].key
             r == [kill[g] EXCEPT !.pc = "lookup"]
             n == Len(killChans[k]) + 1
  <2>1. k \in Keys /\ n # 0 /\ r.pc = "lookup" /\ r.key = k /\ KGoes(g, r)
        /\ killChan' = [killChan EXCEPT ![k] = n]
    BY <1>5, Indices DEF KillMake, StateOK, KillState
  <2> HIDE DEF k, n, r
  <2>2. kill'[g] = r /\ \A h \in Killers : h # g => kill'[h] = kill[h]
    BY <2>1 DEF KGoes, StateOK
  <2>3. killChan'[k] = n /\ \A j \in Keys : j # k => killChan'[j] = killChan[j]
    BY <2>1 DEF StateOK
  <2>4. \A h \in Killers : kill[h].pc = "lookup" => kill[h].key \in Keys
    BY Indices
  <2> QED BY <2>1, <2>2, <2>3, <2>4 DEF KillsPosted
<1>6. ASSUME NEW g \in Killers, KillLookup(g) PROVE KillsPosted'
  <2> DEFINE r == [kill[g] EXCEPT !.pc = "send", !.chan = killChan[kill[g].key]]
  <2>1. KGoes(g, r) /\ killChan' = killChan /\ r.pc = "send" /\ r.chan = killChan[kill[g].key]
        /\ kill[g].pc = "lookup"
    BY <1>6 DEF KillLookup, StateOK, KillState
  <2>2. r.chan # 0
    BY <2>1 DEF KillsPosted
  <2> HIDE DEF r
  <2> QED BY <2>1, <2>2, <1>2
<1>7. ASSUME NEW g \in Killers, KillSend(g) PROVE KillsPosted'
  BY <1>7, <1>2 DEF KillSend, IdleKill
<1>8. CASE Restart
  BY <1>8 DEF Restart, KillsPosted, IdleKill
<1> QED BY <1>1, <1>3, <1>4, <1>5, <1>6, <1>7, <1>8
        DEF Next, Step, KillRequested, KillGoroutine, vars, ExecCheck, ExecStart, Progress, EndsByItself,
            LookupExecChan, Acquire, Begin, SilentFailure, StartFails, StartCommand, RecvKill,
            CommandTimesOut, CommandFails, CommandSucceeds, ReturnFromCommand, Succeed, SucceedView,
            CommonLock, Release, DelJobExecution, Evict

(* No place in ExecChan is lost, so that a queued execution waits for one that *)
(* will give its place back; and no goroutine of a kill request waits at a nil *)
(* channel (runJobExecution, COMMON_HANDLING, killJobExecution).               *)
THEOREM NobodyWaitsInVain == Spec => []WaitsAreForSomebody
<1>1. Init => EngineOK /\ TokenOwned /\ KillsPosted
  BY InitType, InitIndex, InitSlot, InitRecords, InitToken DEF EngineOK
<1>2. EngineOK /\ TokenOwned /\ KillsPosted /\ [Next]_vars => (EngineOK /\ TokenOwned /\ KillsPosted)'
  BY StepType, StepIndex, StepSlot, StepRecords, StepToken, StepPosted DEF EngineOK
<1>3. EngineOK /\ TokenOwned /\ KillsPosted => WaitsAreForSomebody
  <2> SUFFICES ASSUME EngineOK, TokenOwned, KillsPosted, NEW e \in Runs, exec[e].pc = "queued",
                      NEW k \in Keys, k = exec[e].key
               PROVE  /\ exec[e].chan # 0
                      /\ \/ CanSend(execChans[k][exec[e].chan])
                         \/ \E f \in Runs : InSlot(f) /\ exec[f].key = k
    BY Indices DEF WaitsAreForSomebody, EngineOK, KillsPosted
  <2>1. exec[e].chan = execChan[k] /\ execChan[k] # 0
    BY DEF EngineOK, SlotOK, Alive, RunPC
  <2>2. CASE Slot(k) = <<>>
    BY <2>1, <2>2 DEF Slot, CanSend
  <2>3. CASE Slot(k) # <<>>
    BY <2>1, <2>3 DEF TokenOwned
  <2> QED BY <2>1, <2>2, <2>3
<1> QED BY <1>1, <1>2, <1>3, PTL DEF Spec

-----------------------------------------------------------------------------
(* A channel that is received from is not what it was.                         *)
LEMMA ShorterTail == ASSUME NEW s \in Seq(Int), s # <<>> PROVE Tail(s) # s
  BY HeadTailProperties, EmptySeq, LenProperties

(* Where a step of an execution leads it: its commands, and the channel that   *)
(* its select listens to.                                                      *)
Leads(r, s) ==
  \/ r.pc = "spawned" /\ s.pc = "queued"
  \/ r.pc = "queued" /\ s.pc = "begin"
  \/ r.pc = "begin" /\ s.pc \in {"ready", "common"}
  \/ r.pc = "ready" /\ s.pc \in {"lastview", "common"}
  \/ r.pc = "ready" /\ s.pc = "select" /\ s.todo = r.todo /\ s.chan = killChan[r.key]
  \/ r.pc \in {"ready", "select"} /\ s.pc = "view" /\ s.todo = r.todo
  \/ r.pc = "select" /\ s.pc = "select" /\ s.chan = killChan[r.key] /\ killChans' # killChans
  \/ r.pc \in {"select", "view"} /\ s.pc = "ready" /\ s.todo = r.todo - 1
  \/ r.pc \in {"view", "lastview"} /\ s.pc = "common"
  \/ r.pc = "common" /\ s.pc = "recv"

LEMMA Leading ==
  ASSUME StateOK, IndexOK, NEW e \in Runs, Progress(e) \/ EndsByItself(e)
  PROVE  /\ \A f \in Runs \ {e} : exec'[f] = exec[f]
         /\ \/ exec[e].pc = "recv" /\ exec'[e] = IdleRun
            \/ exec'[e].key = exec[e].key /\ Leads(exec[e], exec'[e])
<1> DEFINE Goal == /\ \A f \in Runs \ {e} : exec'[f] = exec[f]
                   /\ \/ exec[e].pc = "recv" /\ exec'[e] = IdleRun
                      \/ exec'[e].key = exec[e].key /\ Leads(exec[e], exec'[e])
<1> USE DEF From, Moved
<1>0. exec[e] \in RunState
  BY DEF StateOK
<1>1. CASE Release(e)
  BY <1>1, GoesOnly DEF Release
<1>2. CASE LookupExecChan(e)
  BY <1>2, Moves DEF Leads
<1>3. CASE Acquire(e)
  BY <1>3, Moves DEF Leads
<1>4. CASE Begin(e)
  BY <1>4, Moves DEF Leads
<1>5. CASE SilentFailure(e)
  BY <1>5, Moves DEF Leads
<1>6. CASE StartCommand(e)
  <2> DEFINE r == [exec[e] EXCEPT !.pc = "select", !.chan = killChan[exec[e].key]]
  <2>1. exec[e].pc = "ready" /\ Goes(e, r) /\ r.pc = "select" /\ r.key = exec[e].key
        /\ r.todo = exec[e].todo /\ r.chan = killChan[exec[e].key]
    BY <1>0, <1>6 DEF StartCommand, RunState
  <2> HIDE DEF r
  <2> QED BY <2>1, GoesOnly DEF Leads
<1>7. CASE CommandSucceeds(e) \/ ReturnFromCommand(e)
  <2> DEFINE r == [exec[e] EXCEPT !.pc = "common"]
  <2>1. exec[e].pc \in {"select", "view"}
        /\ (Goes(e, NextCommand(e)) \/ (exec[e].pc = "view" /\ Goes(e, r)))
    BY <1>7 DEF CommandSucceeds, ReturnFromCommand
  <2>2. NextCommand(e).pc = "ready" /\ NextCommand(e).key = exec[e].key
        /\ NextCommand(e).todo = exec[e].todo - 1 /\ r.pc = "common" /\ r.key = exec[e].key
    BY <1>0 DEF NextCommand, RunState
  <2> HIDE DEF r
  <2>3. CASE Goes(e, NextCommand(e))
    BY <2>1, <2>2, <2>3, GoesOnly DEF Leads
  <2>4. CASE exec[e].pc = "view" /\ Goes(e, r)
    BY <2>2, <2>4, GoesOnly DEF Leads
  <2> QED BY <2>1, <2>3, <2>4
<1>8. ASSUME NEW c, NEW ret, EndCommand(e, c, ret), exec[e].pc \in {"ready", "select"}
      PROVE  Goal
  <2> DEFINE r == [exec[e] EXCEPT !.pc = "view", !.ret = ret, !.chan = 0]
  <2>1. Goes(e, r) /\ r.pc = "view" /\ r.key = exec[e].key /\ r.todo = exec[e].todo
    BY <1>0, <1>8 DEF EndCommand, RunState
  <2> HIDE DEF r
  <2> QED BY <1>8, <2>1, GoesOnly DEF Leads
<1>9. CASE StartFails(e) \/ CommandTimesOut(e) \/ CommandFails(e)
  BY <1>8, <1>9 DEF StartFails, CommandTimesOut, CommandFails
<1>10. CASE RecvKill(e)
  <2> DEFINE k == exec[e].key
             c == exec[e].chan
             r == [exec[e] EXCEPT !.chan = killChan[k]]
  <2>1. exec[e].pc = "select" /\ k \in Keys /\ c # 0 /\ killChans[k][c] # <<>>
        /\ killChans' = [killChans EXCEPT ![k][c] = Tail(killChans[k][c])]
    BY <1>10, Indices DEF RecvKill, CanRecv, Drained
  <2>2. CASE Matches(Head(killChans[k][c]), exec[e].seq)
    BY <1>10, <2>1, <2>2, <1>8 DEF RecvKill
  <2>3. CASE ~Matches(Head(killChans[k][c]), exec[e].seq)
    <3>1. Goes(e, r) /\ r.pc = "select" /\ r.key = k /\ r.chan = killChan[k]
      BY <1>0, <1>10, <2>1, <2>3 DEF RecvKill, RunState
    <3>2. c \in 1..Len(killChans[k]) /\ killChans[k] \in Seq(Chan)
      <4>1. c \in Nat /\ c <= Len(killChans[k]) /\ Len(killChans[k]) \in Nat
        BY <2>1, Indices DEF IndexOK
      <4>2. killChans[k] \in Seq(Chan)
        BY <2>1 DEF StateOK
      <4> QED BY <2>1, <4>1, <4>2
    <3>3. killChans[k][c] \in Seq(Int)
      BY <3>2 DEF Chan
    <3>4. killChans'[k][c] = Tail(killChans[k][c])
      BY <2>1, <3>2 DEF StateOK
    <3>5. Tail(killChans[k][c]) # killChans[k][c]
      BY <2>1, <3>3, ShorterTail
    <3>6. killChans' # killChans
      BY <3>4, <3>5
    <3> HIDE DEF r
    <3> QED BY <2>1, <3>1, <3>6, GoesOnly DEF Leads
  <2> QED BY <2>2, <2>3
<1>11. CASE Succeed(e)
  BY <1>11, Moves DEF Leads
<1>12. CASE SucceedView(e)
  BY <1>12, Moves DEF Leads
<1>13. CASE CommonLock(e)
  BY <1>13, Moves DEF Leads
<1> QED BY <1>1, <1>2, <1>3, <1>4, <1>5, <1>6, <1>7, <1>9, <1>10, <1>11, <1>12, <1>13
        DEF Progress, EndsByItself

(* What every step does to the executions: one of them moves on, one is        *)
(* created, all end, or nothing changes.                                       *)
LEMMA RunSteps ==
  ASSUME StateOK, IndexOK, [Next]_vars
  PROVE  \/ \E e \in Runs : Progress(e) \/ EndsByItself(e)
         \/ \E e \in Runs : /\ ~Alive(e) /\ exec'[e].pc \in {"checked", "spawned"}
                            /\ \A f \in Runs \ {e} : exec'[f] = exec[f]
                            /\ UNCHANGED <<kill, killChan>>
         \/ Restart
         \/ exec' = exec /\ UNCHANGED <<kill, killChan>>
         \/ exec' = exec /\ \E g \in Killers :
              KillGoroutine(g) \/ \E k \in Keys, n \in KillArgs : KillRequest(g, k, n)
<1> DEFINE Starts == \E e \in Runs : /\ ~Alive(e) /\ exec'[e].pc \in {"checked", "spawned"}
                                     /\ \A f \in Runs \ {e} : exec'[f] = exec[f]
                                     /\ UNCHANGED <<kill, killChan>>
<1> USE DEF maps
<1>1. ASSUME NEW e \in Runs, NEW k \in Keys, ExecCheck(e, k) PROVE Starts
  <2> DEFINE r == [IdleRun EXCEPT !.pc = "checked", !.key = k]
  <2>1. Goes(e, r) /\ r.pc = "checked" /\ exec[e].pc = "idle" /\ UNCHANGED <<kill, killChan>>
    BY <1>1 DEF ExecCheck, IdleRun
  <2> HIDE DEF r
  <2> QED BY <2>1, GoesOnly DEF Alive, RunPC
<1>2. ASSUME NEW e \in Runs, ExecStart(e) PROVE Starts
  <2> DEFINE r == [exec[e] EXCEPT !.pc = "spawned", !.seq = seqNo[exec[e].key] + 1]
  <2>1. Goes(e, r) /\ r.pc = "spawned" /\ exec[e].pc = "checked" /\ UNCHANGED <<kill, killChan>>
    BY <1>2 DEF ExecStart, StateOK, RunState
  <2> HIDE DEF r
  <2> QED BY <2>1, GoesOnly DEF Alive, RunPC
<1>3. ASSUME NEW g \in Killers, KillGoroutine(g) \/ \E k \in Keys, n \in KillArgs : KillRequest(g, k, n)
      PROVE  exec' = exec
  BY <1>3 DEF KillGoroutine, KillCheck, KillMake, KillLookup, KillSend, KillRequest
<1>4. (\E k \in Keys, n \in Seqs : DelJobExecution(k, n)) \/ (\E k \in Keys : Evict(k)) \/ UNCHANGED vars
      => exec' = exec /\ UNCHANGED <<kill, killChan>>
  BY DEF DelJobExecution, Evict, vars
<1> QED BY <1>1, <1>2, <1>3, <1>4 DEF Next, Step, KillRequested

-----------------------------------------------------------------------------
(* The two measures, place by place.                                           *)
LEMMA Measures ==
  ASSUME NEW r \in RunState
  PROVE  /\ r.pc = "spawned" => Ahead(r) = 3
         /\ r.pc = "queued" => Ahead(r) = 2
         /\ r.pc = "begin" => Ahead(r) = 1
         /\ r.pc \notin {"spawned", "queued", "begin"} => Ahead(r) = 0
         /\ r.pc = "ready" => Left(r) = 3 * r.todo + 3
         /\ r.pc = "select" => Left(r) = 3 * r.todo + 2
         /\ r.pc = "view" => Left(r) = 3 * r.todo + 1
         /\ r.pc = "lastview" => Left(r) = 2
         /\ r.pc = "common" => Left(r) = 1
         /\ r.pc = "recv" => Left(r) = 0
  BY DEF Ahead, Left

(* Every step of an execution decreases one of them, but for the receipt of a  *)
(* kill request that is for another execution.                                 *)
LEMMA Nearer ==
  ASSUME NEW r \in RunState, NEW s \in RunState, Leads(r, s)
  PROVE  \/ Ahead(s) < Ahead(r)
         \/ Ahead(s) = Ahead(r) /\ Left(s) < Left(r)
         \/ r.pc = "select" /\ s.pc = "select" /\ killChans' # killChans
<1>1. r.todo \in Nat /\ s.todo \in Nat
  BY DEF RunState
<1>2. CASE r.pc \in {"spawned", "queued", "begin"}
  BY <1>2, Measures DEF Leads
<1>3. CASE r.pc \notin {"spawned", "queued", "begin"}
  <2>1. Ahead(r) = 0 /\ Ahead(s) = 0
    BY <1>3, Measures DEF Leads
  <2>2. CASE r.pc = "ready"
    BY <1>1, <2>1, <2>2, Measures DEF Leads
  <2>3. CASE r.pc = "select"
    BY <1>1, <2>1, <2>3, Measures DEF Leads
  <2>4. CASE r.pc = "view"
    <3>1. Left(r) = 3 * r.todo + 1
      BY <2>4, Measures
    <3>2. CASE s.pc = "ready" /\ s.todo = r.todo - 1
      <4>1. Left(s) = 3 * s.todo + 3
        BY <3>2, Measures
      <4> QED BY <1>1, <2>1, <3>1, <3>2, <4>1
    <3>3. CASE s.pc = "common"
      <4>1. Left(s) = 1 /\ r.todo # 0
        BY <2>4, <3>3, Measures DEF RunState
      <4> QED BY <1>1, <2>1, <3>1, <4>1
    <3> QED BY <2>4, <3>2, <3>3 DEF Leads
  <2>5. CASE r.pc \in {"lastview", "common"}
    BY <2>1, <2>5, Measures DEF Leads
  <2> QED BY <1>3, <2>2, <2>3, <2>4, <2>5 DEF Leads
<1> QED BY <1>2, <1>3

(* Whatever an execution does brings it nearer to its end, on every path of    *)
(* commands, failures, kills and timeouts (runJobExecution, ExecAsync).        *)
THEOREM RunsNeverGoBack == Spec => RunsAdvance
<1> DEFINE Advances(e) == \/ exec'[e] = IdleRun
                          \/ Ahead(exec'[e]) < Ahead(exec[e])
                          \/ Ahead(exec'[e]) = Ahead(exec[e]) /\ Left(exec'[e]) < Left(exec[e])
                          \/ exec[e].pc = "select" /\ exec'[e].pc = "select" /\ killChans' # killChans
<1>1. EngineOK /\ EngineOK' /\ [Next]_vars =>
        \A e \in Runs : Alive(e) /\ exec'[e] # exec[e] => Advances(e)
  <2> SUFFICES ASSUME EngineOK, EngineOK', [Next]_vars, NEW e \in Runs, Alive(e), exec'[e] # exec[e]
               PROVE  Advances(e)
    OBVIOUS
  <2>1. StateOK /\ IndexOK /\ exec[e] \in RunState /\ exec'[e] \in RunState
    BY DEF EngineOK, StateOK
  <2>2. CASE \E f \in Runs : Progress(f) \/ EndsByItself(f)
    <3>1. PICK f \in Runs : Progress(f) \/ EndsByItself(f)
      BY <2>2
    <3>2. f = e
      BY <2>1, <3>1, Leading
    <3>3. exec'[e] = IdleRun \/ Leads(exec[e], exec'[e])
      BY <2>1, <3>1, <3>2, Leading
    <3> QED BY <2>1, <3>3, Nearer
  <2>3. CASE Restart
    BY <2>3 DEF Restart
  <2> QED BY <2>1, <2>2, <2>3, RunSteps
<1> QED BY <1>1, Engine, PTL DEF Spec, RunsAdvance

-----------------------------------------------------------------------------
(* The values that wait in the kill channels of a job.                         *)
Holds(s, v) == \E i \in 1..Len(s) : s[i] = v

Posted(h, k, v) == \E c \in 1..Len(h[k]) : Holds(h[k][c], v)

(* What goes through the channels, and what goroutines carry to them, is what  *)
(* clients asked for.                                                          *)
AskedOK ==
  /\ asked \subseteq Keys \X KillArgs
  /\ \A k \in Keys, v \in Int : Posted(killChans, k, v) => <<k, v>> \in asked
  /\ \A g \in Killers : kill[g].pc # "idle" => <<kill[g].key, kill[g].seq>> \in asked

(* One element of a sequence is replaced.                                      *)
LEMMA EditedElement ==
  ASSUME NEW S, NEW s \in Seq(S), NEW c \in 1..Len(s), NEW v
  PROVE  /\ Len([s EXCEPT ![c] = v]) = Len(s)
         /\ [s EXCEPT ![c] = v][c] = v
         /\ \A d \in 1..Len(s) : d # c => [s EXCEPT ![c] = v][d] = s[d]
<1>1. DOMAIN [s EXCEPT ![c] = v] = 1..Len(s) /\ Len(s) \in Nat
  OBVIOUS
<1> QED BY <1>1

(* make, a send and a receive post nothing but the value that is sent.         *)
LEMMA PostedMade ==
  ASSUME NEW h \in [Keys -> Seq(Chan)], NEW hh, NEW k \in Keys, hh = [h EXCEPT ![k] = Append(@, NewChan)],
         NEW j \in Keys, NEW v, Posted(hh, j, v)
  PROVE  Posted(h, j, v)
<1>1. CASE j # k
  <2>1. hh[j] = h[j]
    BY <1>1
  <2> QED BY <2>1 DEF Posted
<1>2. CASE j = k
  <2> DEFINE s == h[k]
  <2>1. s \in Seq(Chan) /\ hh[k] = Append(s, <<>>)
    BY DEF NewChan
  <2>2. PICK c \in 1..Len(hh[k]) : Holds(hh[k][c], v)
    BY <1>2 DEF Posted
  <2> HIDE DEF s
  <2>3. <<>> \in Chan
    BY DEF Chan
  <2>4. Len(hh[k]) = Len(s) + 1 /\ hh[k][Len(s) + 1] = <<>> /\ \A d \in 1..Len(s) : hh[k][d] = s[d]
    <3> DEFINE u == Append(s, <<>>)
    <3>1. Len(u) = Len(s) + 1 /\ u[Len(s) + 1] = <<>> /\ \A d \in 1..Len(s) : u[d] = s[d]
      BY <2>1, <2>3, AppendProperties
    <3>2. hh[k] = u
      BY <2>1
    <3> HIDE DEF u
    <3> QED BY <3>1, <3>2
  <2>5. c # Len(s) + 1
    BY <2>2, <2>4 DEF Holds
  <2>6. Len(s) \in Nat
    BY <2>1, LenProperties
  <2>7. c \in 1..Len(s) /\ hh[k][c] = s[c]
    BY <2>2, <2>4, <2>5, <2>6
  <2> QED BY <1>2, <2>2, <2>7 DEF Posted, s
<1> QED BY <1>1, <1>2

(* The heap hh is h with s in channel c of job k.                              *)
Put(h, hh, k, c, s) == hh = [h EXCEPT ![k][c] = s]

LEMMA PostedEdited ==
  ASSUME NEW h \in [Keys -> Seq(Chan)], NEW hh, NEW k \in Keys, NEW c \in 1..Len(h[k]), NEW s,
         Put(h, hh, k, c, s), NEW j \in Keys, NEW v, Posted(hh, j, v)
  PROVE  Posted(h, j, v) \/ (j = k /\ Holds(s, v))
<1>1. CASE j # k
  <2>1. hh[j] = h[j]
    BY <1>1 DEF Put
  <2> QED BY <2>1 DEF Posted
<1>2. CASE j = k
  <2>1. h[k] \in Seq(Chan) /\ hh[k] = [h[k] EXCEPT ![c] = s]
    BY DEF Put
  <2>2. Len(hh[k]) = Len(h[k]) /\ hh[k][c] = s /\ \A d \in 1..Len(h[k]) : d # c => hh[k][d] = h[k][d]
    BY <2>1, EditedElement
  <2> QED BY <1>2, <2>2 DEF Posted
<1> QED BY <1>1, <1>2

LEMMA HeldSent ==
  ASSUME NEW t \in Seq(Int), NEW w \in Int, NEW u, u = Append(t, w), NEW v, Holds(u, v)
  PROVE  Holds(t, v) \/ v = w
<1>1. PICK i \in 1..Len(u) : u[i] = v
  BY DEF Holds
<1>2. Len(u) = Len(t) + 1 /\ u[Len(t) + 1] = w /\ \A d \in 1..Len(t) : u[d] = t[d]
  BY AppendProperties
<1>3. v = w \/ (i \in 1..Len(t) /\ t[i] = v)
  BY <1>1, <1>2, LenProperties
<1> QED BY <1>3 DEF Holds

LEMMA PostedDrained ==
  ASSUME NEW h \in [Keys -> Seq(Chan)], NEW hh, NEW k \in Keys, NEW c \in 1..Len(h[k]), h[k][c] # <<>>,
         hh = [h EXCEPT ![k][c] = Tail(h[k][c])], NEW j \in Keys, NEW v, Posted(hh, j, v)
  PROVE  Posted(h, j, v)
<1> DEFINE t == h[k][c]
<1>1. t \in Seq(Int) /\ t # <<>>
  BY DEF Chan
<1>2. Posted(h, j, v) \/ (j = k /\ Holds(Tail(t), v))
  <2> DEFINE u == Tail(t)
  <2>1. /\ Put(h, hh, k, c, u) /\ Posted(hh, j, v) /\ h \in [Keys -> Seq(Chan)]
        /\ k \in Keys /\ c \in 1..Len(h[k]) /\ j \in Keys
    BY DEF Put
  <2> HIDE DEF u, t
  <2>2. Posted(h, j, v) \/ (j = k /\ Holds(u, v))
    BY ONLY <2>1, PostedEdited
  <2> QED BY <2>2 DEF u
<1>3. CASE j = k /\ Holds(Tail(t), v)
  <2>1. PICK i \in 1..Len(Tail(t)) : Tail(t)[i] = v
    BY <1>3 DEF Holds
  <2> HIDE DEF t
  <2>2. Len(Tail(t)) = Len(t) - 1 /\ \A d \in 1..Len(Tail(t)) : Tail(t)[d] = t[d + 1]
    BY <1>1, HeadTailProperties
  <2>3. i + 1 \in 1..Len(t) /\ t[i + 1] = v
    BY <2>1, <2>2, <1>1, LenProperties
  <2> QED BY <1>3, <2>3 DEF Posted, Holds, t
<1> QED BY <1>2, <1>3

-----------------------------------------------------------------------------
(* What a step does not post and nobody starts to carry was asked before.      *)
LEMMA AskedFrame ==
  ASSUME AskedOK, asked' = asked,
         \A k \in Keys, v \in Int :
           Posted(killChans', k, v) => Posted(killChans, k, v) \/ <<k, v>> \in asked,
         \A g \in Killers : kill'[g].pc # "idle" =>
           kill[g].pc # "idle" /\ kill'[g].key = kill[g].key /\ kill'[g].seq = kill[g].seq
  PROVE  AskedOK'
<1>1. \A k \in Keys, v \in Int : Posted(killChans', k, v) => <<k, v>> \in asked'
  BY DEF AskedOK
<1>2. \A k \in Keys, v \in Int : Posted(killChans, k, v)' => <<k, v>> \in asked'
  BY <1>1 DEF Posted, Holds
<1>3. \A g \in Killers : kill'[g].pc # "idle" => <<kill'[g].key, kill'[g].seq>> \in asked'
  BY DEF AskedOK
<1> QED BY <1>2, <1>3 DEF AskedOK

(* An execution only takes values out of the kill channels.                    *)
LEMMA ProgressAsked ==
  ASSUME StateOK, IndexOK, AskedOK, asked' = asked, NEW e \in Runs, Progress(e) \/ EndsByItself(e)
  PROVE  AskedOK'
<1> USE DEF maps, heap
<1>1. CASE RecvKill(e)
  <2> DEFINE k == exec[e].key
             c == exec[e].chan
  <2>1. /\ k \in Keys /\ c \in 1..Len(killChans[k]) /\ killChans[k][c] # <<>> /\ kill' = kill
        /\ killChans' = [killChans EXCEPT ![k][c] = Tail(killChans[k][c])]
    BY <1>1, Indices DEF RecvKill, CanRecv, Drained, IndexOK
  <2>2. killChans \in [Keys -> Seq(Chan)]
    BY DEF StateOK
  <2> HIDE DEF k, c
  <2>3. \A j \in Keys, v \in Int : Posted(killChans', j, v) => Posted(killChans, j, v)
    BY <2>1, <2>2, PostedDrained
  <2> QED BY <2>1, <2>3, AskedFrame
<1>2. CASE UNCHANGED <<kill, killChans>>
  <2>1. \A j \in Keys, v \in Int : Posted(killChans', j, v) => Posted(killChans, j, v)
    BY <1>2
  <2> QED BY <1>2, <2>1, AskedFrame
<1> QED BY <1>1, <1>2
        DEF Progress, EndsByItself, LookupExecChan, Acquire, Begin, SilentFailure, StartFails, StartCommand,
            CommandTimesOut, CommandFails, CommandSucceeds, ReturnFromCommand, Succeed, SucceedView,
            CommonLock, Release

(* The goroutine of a request posts the number it was started with.            *)
LEMMA KillAsked ==
  ASSUME StateOK, IndexOK, AskedOK, asked' = asked, NEW g \in Killers, KillGoroutine(g)
  PROVE  AskedOK'
<1> USE DEF maps, heap
<1>0. kill[g] \in KillState /\ killChans \in [Keys -> Seq(Chan)]
  BY DEF StateOK
<1>1. ASSUME NEW r, KGoes(g, r), kill[g].pc # "idle",
             r.pc = "idle" \/ (r.key = kill[g].key /\ r.seq = kill[g].seq),
             \A k \in Keys, v \in Int :
               Posted(killChans', k, v) => Posted(killChans, k, v) \/ <<k, v>> \in asked
      PROVE  AskedOK'
  <2>1. kill'[g] = r /\ \A h \in Killers : h # g => kill'[h] = kill[h]
    BY <1>1 DEF KGoes, StateOK
  <2> QED BY <1>1, <2>1, AskedFrame
<1>2. CASE KillCheck(g) \/ KillLookup(g)
  <2> DEFINE r == [kill[g] EXCEPT !.pc = IF killChan[kill[g].key] = 0 THEN "make" ELSE "lookup"]
             s == [kill[g] EXCEPT !.pc = "send", !.chan = killChan[kill[g].key]]
  <2>1. kill[g].pc # "idle" /\ killChans' = killChans /\ (KGoes(g, r) \/ KGoes(g, s))
    BY <1>2 DEF KillCheck, KillLookup
  <2>2. r.key = kill[g].key /\ r.seq = kill[g].seq /\ s.key = kill[g].key /\ s.seq = kill[g].seq
    BY <1>0 DEF KillState
  <2> HIDE DEF r, s
  <2> QED BY <2>1, <2>2, <1>1
<1>3. CASE KillMake(g)
  <2> DEFINE k == kill[g].key
             r == [kill[g] EXCEPT !.pc = "lookup"]
  <2>1. kill[g].pc # "idle" /\ k \in Keys /\ KGoes(g, r)
        /\ killChans' = [killChans EXCEPT ![k] = Append(@, NewChan)]
    BY <1>3, Indices DEF KillMake
  <2>2. r.key = kill[g].key /\ r.seq = kill[g].seq
    BY <1>0 DEF KillState
  <2>3. \A j \in Keys, v \in Int : Posted(killChans', j, v) => Posted(killChans, j, v)
    BY <1>0, <2>1, PostedMade
  <2> HIDE DEF r
  <2> QED BY <2>1, <2>2, <2>3, <1>1
<1>4. CASE KillSend(g)
  <2> DEFINE k == kill[g].key
             c == kill[g].chan
             w == kill[g].seq
  <2>1. /\ kill[g].pc # "idle" /\ k \in Keys /\ c \in 1..Len(killChans[k]) /\ KGoes(g, IdleKill)
        /\ killChans' = [killChans EXCEPT ![k][c] = Append(killChans[k][c], w)]
    BY <1>4, Indices DEF KillSend, Sent, IndexOK
  <2>2. <<k, w>> \in asked /\ w \in Int
    BY <1>0, <2>1 DEF AskedOK, KillState
  <2> HIDE DEF k, c, w
  <2>3. ASSUME NEW j \in Keys, NEW v, Posted(killChans', j, v)
        PROVE  Posted(killChans, j, v) \/ (j = k /\ v = w)
    <3> DEFINE x == Append(killChans[k][c], w)
    <3>1. Put(killChans, killChans', k, c, x) /\ x = Append(killChans[k][c], w)
      BY <2>1 DEF Put
    <3> HIDE DEF x
    <3>2. Posted(killChans, j, v) \/ (j = k /\ Holds(x, v))
      BY <1>0, <2>1, <2>3, <3>1, PostedEdited
    <3>3. killChans[k][c] \in Seq(Int)
      BY <1>0, <2>1 DEF Chan
    <3>4. Holds(x, v) => Holds(killChans[k][c], v) \/ v = w
      BY <2>2, <3>1, <3>3, HeldSent
    <3>5. Holds(killChans[k][c], v) => Posted(killChans, k, v)
      BY <2>1 DEF Posted
    <3> QED BY <3>2, <3>4, <3>5
  <2> QED BY <2>1, <2>2, <2>3, <1>1 DEF IdleKill
<1> QED BY <1>2, <1>3, <1>4 DEF KillGoroutine

(* A request is remembered before its goroutine starts.                        *)
LEMMA RequestAsked ==
  ASSUME StateOK, AskedOK, NEW g \in Killers, NEW k \in Keys, NEW n \in KillArgs, HKillRequest(g, k, n)
  PROVE  AskedOK'
<1> DEFINE r == [pc |-> "check", key |-> k, seq |-> n, chan |-> 0]
<1>1. KGoes(g, r) /\ killChans' = killChans /\ asked' = asked \cup {<<k, n>>}
      /\ r.key = k /\ r.seq = n
  BY DEF HKillRequest, KillRequest, heap
<1> HIDE DEF r
<1>2. kill'[g] = r /\ \A h \in Killers : h # g => kill'[h] = kill[h]
  BY <1>1 DEF KGoes, StateOK
<1>3. \A j \in Keys, v \in Int : Posted(killChans, j, v)' => <<j, v>> \in asked'
  BY <1>1 DEF AskedOK, Posted, Holds
<1>4. \A h \in Killers : kill'[h].pc # "idle" => <<kill'[h].key, kill'[h].seq>> \in asked'
  BY <1>1, <1>2 DEF AskedOK
<1> QED BY <1>1, <1>3, <1>4 DEF AskedOK

LEMMA InitAsked == HInit => AskedOK
  BY DEF HInit, Init, AskedOK, Posted, Holds, IdleKill

LEMMA StepAsked == StateOK /\ IndexOK /\ AskedOK /\ [HNext]_hvars => AskedOK'
<1> SUFFICES ASSUME StateOK, IndexOK, AskedOK, [HNext]_hvars PROVE AskedOK'
  OBVIOUS
<1> USE DEF maps, heap
<1>1. ASSUME UNCHANGED <<kill, killChans, asked>> PROVE AskedOK'
  BY <1>1 DEF AskedOK, Posted, Holds
<1>2. CASE HRestart
  <2>1. asked' = {} /\ killChans' = [k \in Keys |-> <<>>] /\ kill' = [g \in Killers |-> IdleKill]
    BY <1>2 DEF HRestart, Restart
  <2> QED BY <2>1 DEF AskedOK, Posted, Holds, IdleKill
<1>3. CASE HStep
  <2>1. CASE \E e \in Runs : Progress(e) \/ EndsByItself(e)
    BY <1>3, <2>1, ProgressAsked DEF HStep
  <2>2. CASE \E g \in Killers : KillGoroutine(g)
    BY <1>3, <2>2, KillAsked DEF HStep
  <2>3. ASSUME \/ \E e \in Runs, k \in Keys : ExecCheck(e, k)
               \/ \E e \in Runs : ExecStart(e)
               \/ \E k \in Keys, n \in Seqs : DelJobExecution(k, n)
               \/ \E k \in Keys : Evict(k)
        PROVE  UNCHANGED <<kill, killChans>>
    BY <2>3 DEF ExecCheck, ExecStart, DelJobExecution, Evict
  <2> QED BY <1>1, <1>3, <2>1, <2>2, <2>3 DEF HStep, Step
<1>4. CASE UNCHANGED hvars
  BY <1>1, <1>4 DEF hvars, vars
<1> QED BY <1>2, <1>3, <1>4, RequestAsked DEF HNext

-----------------------------------------------------------------------------
(* The row was killed in this step.                                            *)
NowKilled(k, n) == Killed(job'[k][n]) /\ ~Killed(job[k][n])

Cause(k, n) == <<k, n>> \in asked' \/ <<k, EXEC_KILL_ALL>> \in asked'

LEMMA KilledColumns ==
  ASSUME NEW r, Killed(r)
  PROVE  r # None /\ r.finished = EXEC_DONE /\ r.status = EXEC_FAILURE /\ r.cancelled = EXEC_CANCELLED
  BY DEF Killed, Ended

(* An update kills no row but the one it writes.                               *)
LEMMA UpdateKills ==
  ASSUME StateOK, NEW k \in Keys, NEW m, NEW r, Update(k, m, r), NEW j \in Keys, NEW n \in Seqs,
         NowKilled(j, n)
  PROVE  j = k /\ n = m /\ Killed(r)
<1>1. job' # job
  BY DEF NowKilled
<1>2. Record(k, m) # None /\ job' = [job EXCEPT ![k][m] = r]
  BY <1>1 DEF Update
<1>3. m \in Seqs
  BY <1>2 DEF Record
<1>4. job'[k][m] = r /\ \A i \in Keys, l \in Seqs : (i # k \/ l # m) => job'[i][l] = job[i][l]
  BY <1>2, <1>3 DEF StateOK
<1> QED BY <1>4 DEF NowKilled

(* The only update that writes a killed row follows the receipt of a request.  *)
LEMMA ProgressKills ==
  ASSUME StateOK, IndexOK, AskedOK, asked' = asked, NEW e \in Runs, Progress(e) \/ EndsByItself(e),
         NEW j \in Keys, NEW n \in Seqs, NowKilled(j, n)
  PROVE  Cause(j, n)
<1> USE DEF maps, heap, db
<1> DEFINE k == exec[e].key
           m == exec[e].seq
           code == Head(killChans[k][exec[e].chan])
<1>1. job' # job
  BY DEF NowKilled
<1>2. \A c : c # EXEC_CANCELLED => ~Killed(Ended(EXEC_FAILURE, c))
  BY DEF Killed, Ended
<1>3. ~Killed(Ended(EXEC_SUCCESS, EXEC_NOT_CANCELLED))
  BY DEF Killed, Ended, EXEC_SUCCESS, EXEC_FAILURE
<1>4. CASE StartFails(e) \/ CommandTimesOut(e) \/ CommandFails(e)
  <2>1. k \in Keys /\ \E c \in {EXEC_NOT_CANCELLED, EXEC_TIMEOUT} : Update(k, m, Ended(EXEC_FAILURE, c))
    BY <1>4, Indices DEF StartFails, CommandTimesOut, CommandFails, EndCommand
  <2> HIDE DEF k, m
  <2>2. PICK c \in {EXEC_NOT_CANCELLED, EXEC_TIMEOUT} : Update(k, m, Ended(EXEC_FAILURE, c))
    BY <2>1
  <2>3. c # EXEC_CANCELLED
    BY DEF EXEC_NOT_CANCELLED, EXEC_TIMEOUT, EXEC_CANCELLED
  <2> QED BY <1>2, <2>1, <2>2, <2>3, UpdateKills
<1>5. CASE Succeed(e)
  <2>1. k \in Keys /\ Update(k, m, Ended(EXEC_SUCCESS, EXEC_NOT_CANCELLED))
    BY <1>5, Indices DEF Succeed
  <2> QED BY <1>3, <2>1, UpdateKills
<1>6. CASE RecvKill(e)
  <2>1. k \in Keys /\ exec[e].chan \in 1..Len(killChans[k]) /\ killChans[k][exec[e].chan] # <<>>
    BY <1>6, Indices DEF RecvKill, CanRecv, IndexOK
  <2>2. Matches(code, m) /\ Update(k, m, Ended(EXEC_FAILURE, EXEC_CANCELLED))
    BY <1>1, <1>6 DEF RecvKill, EndCommand
  <2>3. killChans[k][exec[e].chan] \in Seq(Int)
    <3>1. killChans[k] \in Seq(Chan)
      BY <2>1 DEF StateOK
    <3> QED BY <2>1, <3>1 DEF Chan
  <2>4. Posted(killChans, k, code) /\ code \in Int
    <3> DEFINE s == killChans[k][exec[e].chan]
    <3>1. s \in Seq(Int) /\ s # <<>>
      BY <2>1, <2>3
    <3> HIDE DEF s
    <3>2. Head(s) = s[1] /\ Head(s) \in Int /\ Len(s) \in Nat /\ Len(s) # 0
      BY <3>1, HeadTailProperties, EmptySeq, LenProperties
    <3>3. Holds(s, Head(s))
      BY <3>2 DEF Holds
    <3> QED BY <2>1, <3>2, <3>3 DEF Posted, s
  <2>5. <<k, code>> \in asked
    BY <2>1, <2>4 DEF AskedOK
  <2>6. j = k /\ n = m
    BY <2>1, <2>2, UpdateKills
  <2> QED BY <2>2, <2>5, <2>6 DEF Matches, Cause
<1> QED BY <1>1, <1>4, <1>5, <1>6
        DEF Progress, EndsByItself, LookupExecChan, Acquire, Begin, SilentFailure, StartCommand,
            CommandSucceeds, ReturnFromCommand, SucceedView, CommonLock, Release

LEMMA RequestKills ==
  ASSUME StateOK, NEW k \in Keys, NEW m, SetExecutionCancelled(k, m),
         NEW j \in Keys, NEW n \in Seqs, NowKilled(j, n)
  PROVE  j = k /\ n = m
<1>1. job' = [job EXCEPT ![k][m].cancelled = EXEC_CANCELLED]
  BY DEF NowKilled, SetExecutionCancelled
<1> QED BY <1>1 DEF StateOK, NowKilled

LEMMA StepKills ==
  ASSUME StateOK, IndexOK, AskedOK, [HNext]_hvars, NEW j \in Keys, NEW n \in Seqs, NowKilled(j, n)
  PROVE  Cause(j, n)
<1>1. job' # job
  BY DEF NowKilled
<1>2. ASSUME NEW g \in Killers, NEW k \in Keys, NEW m \in KillArgs, HKillRequest(g, k, m)
      PROVE  Cause(j, n)
  BY <1>2, RequestKills DEF HKillRequest, KillRequest, Cause
<1>3. ASSUME NEW e \in Runs, ExecStart(e) PROVE FALSE
  <2>1. job' = [job EXCEPT ![exec[e].key][seqNo[exec[e].key] + 1] = NewRow]
    BY <1>1, <1>3 DEF ExecStart
  <2>2. job'[j][n] = NewRow
    BY <2>1 DEF NowKilled, StateOK
  <2> QED BY <2>2, KilledColumns DEF NowKilled, NewRow, EXEC_DONE, EXEC_NOT_DONE
<1>4. ASSUME NEW k \in Keys, NEW m \in Seqs, DelJobExecution(k, m) PROVE FALSE
  <2>1. job'[j][n] = None
    BY <1>4 DEF DelJobExecution, NowKilled, StateOK
  <2> QED BY <2>1, KilledColumns DEF NowKilled
<1>5. ASSUME NEW e \in Runs, Progress(e) \/ EndsByItself(e), asked' = asked PROVE Cause(j, n)
  BY <1>5, ProgressKills
<1>6. job' = job \/ (asked' = asked /\ \E e \in Runs : Progress(e) \/ EndsByItself(e))
      \/ (\E e \in Runs : ExecStart(e)) \/ (\E k \in Keys, m \in Seqs : DelJobExecution(k, m))
      \/ (\E g \in Killers, k \in Keys, m \in KillArgs : HKillRequest(g, k, m))
  BY DEF HNext, HStep, HRestart, Restart, Step, hvars, vars, db, ExecCheck, Evict, KillGoroutine, KillCheck,
         KillMake, KillLookup, KillSend
<1> QED BY <1>1, <1>2, <1>3, <1>4, <1>5, <1>6

LEMMA HistoryIsSpec ==
  /\ HInit => Init
  /\ [HNext]_hvars => [Next]_vars
  BY DEF HInit, HNext, HKillRequest, HStep, HRestart, Next, KillRequested, hvars

(* Only the execution a client asked to kill is killed, whatever waits in the  *)
(* channel: provided nobody asks for number EXEC_KILL_ALL, which is every      *)
(* number (killJobExecution, ExecAsync).                                       *)
THEOREM OnlyAskedAreKilled ==
  ASSUME EXEC_KILL_ALL \notin KillArgs
  PROVE  HSpec => KilledWasAsked
<1> DEFINE HInv == StateOK /\ IndexOK /\ AskedOK
<1>1. HInit => HInv
  BY InitType, InitIndex, InitAsked, HistoryIsSpec
<1>2. HInv /\ [HNext]_hvars => HInv'
  BY StepType, StepIndex, StepAsked, HistoryIsSpec
<1>3. HInv /\ HInv' /\ [HNext]_hvars =>
        \A k \in Keys, n \in Seqs :
          Killed(job'[k][n]) /\ ~Killed(job[k][n]) => <<k, n>> \in asked \cup asked'
  <2> SUFFICES ASSUME HInv, HInv', [HNext]_hvars, NEW k \in Keys, NEW n \in Seqs, NowKilled(k, n)
               PROVE  <<k, n>> \in asked'
    BY DEF NowKilled
  <2>1. Cause(k, n)
    BY StepKills
  <2>2. asked' \subseteq Keys \X KillArgs
    BY DEF AskedOK
  <2> QED BY <2>1, <2>2 DEF Cause
<1> QED BY <1>1, <1>2, <1>3, PTL DEF HSpec, KilledWasAsked

-----------------------------------------------------------------------------
(* This step leaves the outcomes of all executions that are done as they are.  *)
Final(r, s) == Done(r) => s = None \/ (Done(s) /\ s.status = r.status)

OutcomesKept == \A k \in Keys, n \in Seqs : Final(job[k][n], job'[k][n])

LEMMA OutcomesSame == UNCHANGED job => OutcomesKept
  BY DEF OutcomesKept, Final

(* An update of a record that is open, or not there.                           *)
LEMMA OutcomeWritten ==
  ASSUME StateOK, NEW k \in Keys, NEW m, NEW r, Update(k, m, r), Record(k, m) # None => OpenAt(k, m)
  PROVE  OutcomesKept
<1>1. CASE Record(k, m) = None
  BY <1>1, OutcomesSame DEF Update
<1>2. CASE Record(k, m) # None
  <2>1. m \in Seqs /\ ~Done(job[k][m]) /\ job' = [job EXCEPT ![k][m] = r]
    BY <1>2 DEF Update, Record, OpenAt
  <2>2. \A j \in Keys, n \in Seqs : (j # k \/ n # m) => job'[j][n] = job[j][n]
    BY <2>1 DEF StateOK
  <2> QED BY <2>1, <2>2 DEF OutcomesKept, Final
<1> QED BY <1>1, <1>2

(* An execution writes its outcome while its record is open.                   *)
LEMMA ProgressOutcomes ==
  ASSUME FirstSeq > 0, StateOK, RecordsOK, NEW e \in Runs, Progress(e) \/ EndsByItself(e)
  PROVE  OutcomesKept
<1> USE DEF db
<1>1. ASSUME exec[e].pc \in {"ready", "select"}
      PROVE  exec[e].key \in Keys /\ OpenAt(exec[e].key, exec[e].seq)
  BY <1>1, Indices DEF RecordsOK, Opened
<1>2. CASE StartFails(e) \/ CommandTimesOut(e) \/ CommandFails(e) \/ Succeed(e)
  <2>1. exec[e].pc \in {"ready", "select"} /\ \E r : Update(exec[e].key, exec[e].seq, r)
    BY <1>2 DEF StartFails, CommandTimesOut, CommandFails, Succeed, EndCommand
  <2> QED BY <1>1, <2>1, OutcomeWritten
<1>3. CASE RecvKill(e)
  <2>1. exec[e].pc = "select" /\ (job' = job \/ \E r : Update(exec[e].key, exec[e].seq, r))
    BY <1>3 DEF RecvKill, EndCommand
  <2> QED BY <1>1, <2>1, OutcomeWritten, OutcomesSame
<1>4. CASE UNCHANGED job
  BY <1>4, OutcomesSame
<1> QED BY <1>2, <1>3, <1>4
        DEF Progress, EndsByItself, LookupExecChan, Acquire, Begin, SilentFailure, StartCommand,
            CommandSucceeds, ReturnFromCommand, SucceedView, CommonLock, Release

LEMMA CancelOutcomes ==
  ASSUME StateOK, NEW k \in Keys, NEW m, SetExecutionCancelled(k, m)
  PROVE  OutcomesKept
<1>1. CASE Record(k, m) = None
  BY <1>1, OutcomesSame DEF SetExecutionCancelled
<1>2. CASE Record(k, m) # None
  <2> DEFINE r == [job[k][m] EXCEPT !.cancelled = EXEC_CANCELLED]
  <2>1. m \in Seqs /\ job[k][m] \in Row
    BY <1>2 DEF Record, StateOK
  <2>2. r \in Row /\ r.finished = job[k][m].finished /\ r.status = job[k][m].status
    BY <2>1 DEF Row, EXEC_CANCELLED
  <2>3. job' = [job EXCEPT ![k] = [job[k] EXCEPT ![m] = r]]
    BY <1>2, <2>1 DEF SetExecutionCancelled, StateOK
  <2> HIDE DEF r
  <2>4. job'[k][m] = r /\ \A j \in Keys, n \in Seqs : (j # k \/ n # m) => job'[j][n] = job[j][n]
    BY <2>1, <2>3 DEF StateOK
  <2>5. Final(job[k][m], r)
    BY <2>1, <2>2, NoneAssumption DEF Final, Done
  <2> QED BY <2>4, <2>5 DEF OutcomesKept, Final
<1> QED BY <1>1, <1>2

LEMMA StepOutcomes ==
  ASSUME FirstSeq > 0, StateOK, RecordsOK, [Next]_vars
  PROVE  OutcomesKept
<1>1. ASSUME NEW e \in Runs, ExecStart(e) PROVE OutcomesKept
  <2> DEFINE k == exec[e].key
             n == seqNo[k] + 1
  <2>1. k \in Keys /\ n \in Seqs /\ seqNo[k] \in Nat
    BY <1>1, Indices DEF ExecStart, StateOK
  <2>2. job[k][n] = None
    BY <2>1 DEF RecordsOK
  <2>3. job' = job \/ job' = [job EXCEPT ![k][n] = NewRow]
    BY <1>1 DEF ExecStart
  <2> HIDE DEF k, n
  <2>4. \A j \in Keys, m \in Seqs : (j # k \/ m # n) => job'[j][m] = job[j][m]
    BY <2>1, <2>3 DEF StateOK
  <2> QED BY <2>2, <2>4 DEF OutcomesKept, Final, Done
<1>2. ASSUME NEW k \in Keys, NEW m \in Seqs, DelJobExecution(k, m) PROVE OutcomesKept
  <2>1. job'[k][m] = None /\ \A j \in Keys, n \in Seqs : (j # k \/ n # m) => job'[j][n] = job[j][n]
    BY <1>2 DEF DelJobExecution, StateOK
  <2> QED BY <2>1 DEF OutcomesKept, Final
<1>3. ASSUME NEW g \in Killers, NEW k \in Keys, NEW m \in KillArgs, KillRequest(g, k, m)
      PROVE  OutcomesKept
  BY <1>3, CancelOutcomes DEF KillRequest
<1>4. ASSUME NEW e \in Runs, Progress(e) \/ EndsByItself(e) PROVE OutcomesKept
  BY <1>4, ProgressOutcomes
<1>5. job' = job \/ (\E e \in Runs : ExecStart(e) \/ Progress(e) \/ EndsByItself(e))
      \/ (\E k \in Keys, m \in Seqs : DelJobExecution(k, m))
      \/ (\E g \in Killers, k \in Keys, m \in KillArgs : KillRequest(g, k, m))
  BY DEF Next, Restart, Step, KillRequested, vars, db, ExecCheck, Evict, KillGoroutine, KillCheck,
         KillMake, KillLookup, KillSend
<1> QED BY <1>1, <1>2, <1>3, <1>4, <1>5, OutcomesSame

(* Where no execution has the number 1, which is also EXEC_FINISHED, nobody    *)
(* writes a second outcome of an execution (runJobExecution, ExecAsync).       *)
THEOREM OutcomesAreFinal ==
  ASSUME FirstSeq > 0
  PROVE  Spec => OutcomeIsFinal
<1>1. EngineOK /\ [Next]_vars =>
        \A k \in Keys, n \in Seqs :
          Done(job[k][n]) => \/ job'[k][n] = None
                             \/ Done(job'[k][n]) /\ job'[k][n].status = job[k][n].status
  BY StepOutcomes DEF EngineOK, OutcomesKept, Final
<1> QED BY <1>1, Engine, PTL DEF Spec, OutcomeIsFinal
=============================================================================
