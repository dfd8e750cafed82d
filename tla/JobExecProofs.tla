--------------------------- MODULE JobExecProofs ---------------------------
(***************************************************************************)
(* Proofs about JobExec, for every set of jobs, goroutines and plans.      *)
(***************************************************************************)
EXTENDS JobExec, SequenceTheorems, WellFoundedInduction, TLAPS

(* The indices the maps and the goroutines hold point into the heaps. *)
IndexOK ==
  /\ \A k \in Keys : /\ killChan[k] <= Len(killChans[k])
                     /\ execChan[k] <= Len(execChans[k])
                     /\ waitExec[k] <= Len(waitGroups[k])
  /\ \A e \in Runs :
       /\ exec[e].pc = "select" => exec[e].chan <= Len(killChans[exec[e].key])
       /\ exec[e].pc \in {"queued", "recv"} => exec[e].chan <= Len(execChans[exec[e].key])
  /\ \A g \in Killers : kill[g].pc = "send" => kill[g].chan <= Len(killChans[kill[g].key])

(* Replacing one element of one sequence of a family keeps the family typed.   *)
LEMMA ExceptHeap ==
  ASSUME NEW S, NEW h \in [Keys -> Seq(S)], NEW k \in Keys, NEW i \in 1..Len(h[k]), NEW v \in S
  PROVE  /\ [h EXCEPT ![k][i] = v] \in [Keys -> Seq(S)]
         /\ \A j \in Keys : Len([h EXCEPT ![k][i] = v][j]) = Len(h[j])
<1>1. /\ [h[k] EXCEPT ![i] = v] \in Seq(S)
      /\ Len([h[k] EXCEPT ![i] = v]) = Len(h[k])
  BY ExceptSeq
<1>2. [h EXCEPT ![k][i] = v] = [h EXCEPT ![k] = [h[k] EXCEPT ![i] = v]]
  OBVIOUS
<1> QED
  BY <1>1, <1>2

(* Replacing an element keeps the length of a sequence.                        *)
LEMMA ExceptLen ==
  ASSUME NEW S, NEW h \in [Keys -> Seq(S)], NEW k, NEW i, NEW v
  PROVE  \A j \in Keys : Len([h EXCEPT ![k][i] = v][j]) = Len(h[j])
<1>1. \A s \in Seq(S) : Len([s EXCEPT ![i] = v]) = Len(s)
  <2> SUFFICES ASSUME NEW s \in Seq(S) PROVE Len([s EXCEPT ![i] = v]) = Len(s)
    OBVIOUS
  <2>1. DOMAIN [s EXCEPT ![i] = v] = 1..Len(s) /\ Len(s) \in Nat
    OBVIOUS
  <2> QED
    BY <2>1
<1>2. \A j \in Keys : [h EXCEPT ![k][i] = v][j] \in {h[j], [h[j] EXCEPT ![i] = v]}
  OBVIOUS
<1> QED
  BY <1>1, <1>2

(* A goroutine that goes to a typed state leaves exec typed.                   *)
LEMMA GoesTyped ==
  ASSUME exec \in [Runs -> RunState], NEW e \in Runs, NEW r \in RunState, Goes(e, r)
  PROVE  /\ exec' \in [Runs -> RunState]
         /\ exec'[e] = r
         /\ \A f \in Runs : f # e => exec'[f] = exec[f]
  BY DEF Goes

(* Goes changes the state of its goroutine and of no other.                    *)
LEMMA GoesOnly ==
  ASSUME StateOK, NEW e \in Runs, NEW r, Goes(e, r)
  PROVE  /\ exec[e] \in RunState
         /\ exec'[e] = r
         /\ \A f \in Runs : f # e => exec'[f] = exec[f]
  BY DEF Goes, StateOK

(* A step of goroutine e to record r changes no other goroutine.               *)
LEMMA GoesPc ==
  ASSUME StateOK, NEW e \in Runs, NEW r, Goes(e, r), NEW p, r.pc = p
  PROVE  \A f \in Runs : exec'[f] = exec[f] \/ exec'[f].pc = p
  BY GoesOnly

(* A kill goroutine that goes to a typed state leaves kill typed.              *)
LEMMA KGoesTyped ==
  ASSUME kill \in [Killers -> KillState], NEW g \in Killers, NEW r \in KillState, KGoes(g, r)
  PROVE  /\ kill' \in [Killers -> KillState]
         /\ kill'[g] = r
         /\ \A h \in Killers : h # g => kill'[h] = kill[h]
  BY DEF KGoes

(* The idle goroutines are typed.                                              *)
LEMMA IdleTyped == IdleRun \in RunState /\ IdleKill \in KillState
  BY DEF IdleRun, IdleKill, RunState, KillState

(* The columns Ended writes are a row of the table.                            *)
LEMMA EndedTyped ==
  \A s \in {EXEC_SUCCESS, EXEC_FAILURE},
     c \in {EXEC_NOT_CANCELLED, EXEC_CANCELLED, EXEC_TIMEOUT} : Ended(s, c) \in Row
  BY DEF Ended, Row

(* Updating a record keeps the table typed.                                    *)
LEMMA UpdateTyped ==
  ASSUME job \in [Keys -> [Seqs -> Row \cup {None}]], NEW k \in Keys, NEW n, NEW r \in Row,
         Update(k, n, r)
  PROVE  job' \in [Keys -> [Seqs -> Row \cup {None}]]
  BY DEF Update

(* Writing the outcome of a command keeps table, view and goroutines typed.    *)
LEMMA EndCommandTyped ==
  ASSUME StateOK, NEW e \in Runs, exec[e].pc # "idle", exec[e].todo # 0,
         NEW c \in {EXEC_NOT_CANCELLED, EXEC_CANCELLED, EXEC_TIMEOUT}, NEW ret \in Int,
         EndCommand(e, c, ret)
  PROVE  /\ exec' \in [Runs -> RunState]
         /\ job' \in [Keys -> [Seqs -> Row \cup {None}]]
         /\ jobView' = jobView
<1>1. [exec[e] EXCEPT !.pc = "view", !.ret = ret, !.chan = 0] \in RunState
  BY ZenonT(40) DEF StateOK, RunState, RunPC
<1>2. exec[e].key \in Keys
  BY DEF StateOK, RunState
<1>3. Ended(EXEC_FAILURE, c) \in Row
  BY EndedTyped
<1> QED
  BY <1>1, <1>2, <1>3, GoesTyped, UpdateTyped DEF EndCommand, StateOK

(* A bounded set of natural numbers has a greatest element. *)
LEMMA BoundedHasMax ==
  ASSUME NEW S \in SUBSET Nat, S # {}, NEW b \in Nat, \A n \in S : n <= b
  PROVE  \E m \in S : \A n \in S : n <= m
<1> DEFINE T == {x \in Nat : \E n \in S : x = b - n}
<1>1. \A n \in S : b - n \in T
  OBVIOUS
<1>2. PICK x \in T : \A y \in T : <<y, x>> \notin OpToRel(<, Nat)
  BY <1>1, NatLessThanWellFounded, WFMin
<1>3. \A y \in T : ~ (y < x)
  BY <1>2 DEF OpToRel
<1>4. PICK m \in S : x = b - m
  OBVIOUS
<1>5. \A n \in S : n <= m
  BY <1>1, <1>3, <1>4
<1> QED
  BY <1>5

(* recoverSeqNo finds a greatest number: there are finitely many records. *)
LEMMA RecoverTyped == RecoverSeqNo \in [Keys -> Nat]
<1> SUFFICES ASSUME NEW k \in Keys
             PROVE  Max({FirstSeq} \cup {n \in Seqs : job[k][n] # None}) \in Nat
  BY DEF RecoverSeqNo
<1> DEFINE S == {FirstSeq} \cup {n \in Seqs : job[k][n] # None}
<1>1. S \subseteq Nat /\ FirstSeq \in S /\ \A n \in S : n <= FirstSeq \/ n <= MaxSeq
  BY BoundsAssumption DEF Seqs
<1>2. \E b \in Nat : \A n \in S : n <= b
  BY <1>1, BoundsAssumption
<1>3. \E m \in S : \A n \in S : n <= m
  BY <1>1, <1>2, BoundedHasMax
<1> QED
  BY <1>1, <1>3 DEF Max

(* NextCommand is typed: the command that ended was still to do.               *)
LEMMA NextTyped ==
  ASSUME StateOK, NEW e \in Runs, exec[e].pc \in {"select", "view"}
  PROVE  NextCommand(e) \in RunState
<1>1. exec[e] \in RunState /\ exec[e].todo - 1 \in Nat /\ exec[e].key \in Keys
  BY SMTT(20) DEF StateOK, RunState
<1> DEFINE t == exec[e].todo - 1
<1> HIDE DEF t
<1>2. [exec[e] EXCEPT !.pc = "ready", !.todo = t, !.chan = 0] \in RunState
  BY <1>1 DEF RunState, RunPC, t
<1> QED
  BY <1>2 DEF NextCommand, t

(* SetExecutionCancelled keeps the table typed.                                *)
LEMMA CancelTyped ==
  ASSUME StateOK, NEW k \in Keys, NEW n, SetExecutionCancelled(k, n)
  PROVE  job' \in [Keys -> [Seqs -> Row \cup {None}]]
<1>1. CASE Record(k, n) = None
  BY <1>1 DEF SetExecutionCancelled, StateOK
<1>2. CASE Record(k, n) # None
  <2>1. n \in Seqs /\ job[k][n] \in Row
    BY <1>2 DEF Record, StateOK
  <2>2. [job[k][n] EXCEPT !.cancelled = EXEC_CANCELLED] \in Row
    BY <2>1 DEF Row
  <2>3. job' = [job EXCEPT ![k] = [job[k] EXCEPT ![n] = [job[k][n] EXCEPT !.cancelled = EXEC_CANCELLED]]]
    BY <1>2, <2>1 DEF SetExecutionCancelled, StateOK
  <2> QED
    BY <2>1, <2>2, <2>3 DEF StateOK
<1> QED
  BY <1>1, <1>2

(* The initial state is typed.                                                 *)
LEMMA InitType == Init => StateOK
  BY IdleTyped, BoundsAssumption DEF Init, StateOK, EXEC_NONE, EXEC_SUCCESS, EXEC_FAILURE

(* Every step preserves StateOK, given that channel indices are valid.          *)
LEMMA StepType == StateOK /\ IndexOK /\ [Next]_vars => StateOK'
<1> SUFFICES ASSUME StateOK, IndexOK, [Next]_vars PROVE StateOK'
  OBVIOUS
<1> USE DEF maps, heap, db
<1>1. ASSUME NEW e \in Runs, NEW k \in Keys, ExecCheck(e, k) PROVE StateOK'
  <2>1. [IdleRun EXCEPT !.pc = "checked", !.key = k] \in RunState
    BY IdleTyped DEF RunState, IdleRun
  <2> QED
    BY <1>1, <2>1, GoesTyped DEF StateOK, ExecCheck
<1>2. ASSUME NEW e \in Runs, ExecStart(e) PROVE StateOK'
  <2> DEFINE k == exec[e].key
             n == seqNo[k] + 1
             wgs == IF NoWaitGroup(k) THEN Append(waitGroups[k], 0) ELSE waitGroups[k]
             w == IF NoWaitGroup(k) THEN Len(wgs) ELSE waitExec[k]
  <2>1. k \in Keys /\ n \in Nat /\ n \in Seqs
    BY <1>2, SMTT(20) DEF StateOK, RunState, ExecStart
  <2>2. [exec[e] EXCEPT !.pc = "spawned", !.seq = n] \in RunState
    BY <1>2, <2>1, ZenonT(40) DEF StateOK, RunState, RunPC
  <2>3. exec' \in [Runs -> RunState] /\ seqNo' \in [Keys -> Nat]
    BY <1>2, <2>1, <2>2, GoesTyped DEF StateOK, ExecStart
  <2>4. job' \in [Keys -> [Seqs -> Row \cup {None}]]
    BY <1>2, <2>1 DEF StateOK, ExecStart, NewRow, Row
  <2>5. wgs \in Seq(Int) /\ w \in 1..Len(wgs)
    BY <2>1 DEF StateOK, IndexOK, NoWaitGroup
  <2>6. wgs[w] + 1 \in Int /\ [wgs EXCEPT ![w] = wgs[w] + 1] \in Seq(Int)
    <3> HIDE DEF wgs, w
    <3>1. wgs[w] + 1 \in Int
      BY <2>5
    <3> QED
      BY <2>5, <3>1, ExceptSeq
  <2>7. waitExec' \in [Keys -> Nat] /\ waitGroups' \in [Keys -> Seq(Int)]
    <3>1. waitExec' = [waitExec EXCEPT ![k] = w]
          /\ waitGroups' = [waitGroups EXCEPT ![k] = [wgs EXCEPT ![w] = wgs[w] + 1]]
      BY <1>2 DEF ExecStart
    <3>2. waitExec \in [Keys -> Nat] /\ waitGroups \in [Keys -> Seq(Int)] /\ w \in Nat
      BY <2>5 DEF StateOK
    <3> HIDE DEF k, wgs, w
    <3> QED BY <2>1, <2>6, <3>1, <3>2
  <2>8. NewChan \in Chan
    BY DEF NewChan, Chan
  <2>9. execChan' \in [Keys -> Nat] /\ execChans' \in [Keys -> Seq(Chan)]
    BY <1>2, <2>1, <2>8, SMTT(20) DEF StateOK, ExecStart
  <2> QED
    BY <1>2, <2>3, <2>4, <2>7, <2>9 DEF StateOK, ExecStart
<1>3. ASSUME NEW e \in Runs, LookupExecChan(e) PROVE StateOK'
  <2>1. [exec[e] EXCEPT !.pc = "queued", !.chan = execChan[exec[e].key]] \in RunState
    BY <1>3, ZenonT(40) DEF StateOK, RunState, RunPC, LookupExecChan
  <2> QED
    BY <1>3, <2>1, GoesTyped DEF StateOK, LookupExecChan
<1>4. ASSUME NEW e \in Runs, Acquire(e) PROVE StateOK'
  <2>1. [exec[e] EXCEPT !.pc = "begin", !.chan = 0] \in RunState
    BY <1>4, ZenonT(40) DEF StateOK, RunState, RunPC, Acquire
  <2> DEFINE k == exec[e].key
             c == exec[e].chan
  <2>2. k \in Keys /\ c \in 1..Len(execChans[k])
    BY <1>4 DEF StateOK, IndexOK, RunState, Acquire
  <2>3. Sent(execChans[k][c], EXEC_GOROUTINE) \in Chan
    BY <2>2 DEF StateOK, Chan, Sent, EXEC_GOROUTINE
  <2>4. execChans' \in [Keys -> Seq(Chan)]
    BY <1>4, <2>2, <2>3, ExceptHeap DEF StateOK, Acquire
  <2> QED
    BY <1>4, <2>1, <2>4, GoesTyped DEF StateOK, Acquire
<1>5. ASSUME NEW e \in Runs, Begin(e) PROVE StateOK'
  <2>1. [exec[e] EXCEPT !.pc = "common"] \in RunState
    BY <1>5, ZenonT(40) DEF StateOK, RunState, RunPC, Begin
  <2>2. \A p \in Plans : [exec[e] EXCEPT !.pc = "ready", !.todo = p] \in RunState
    BY <1>5, PlansAssumption, ZenonT(40) DEF StateOK, RunState, RunPC, Begin
  <2>3. exec' \in [Runs -> RunState]
    BY <1>5, <2>1, <2>2, GoesTyped DEF StateOK, Begin
  <2> QED
    BY <1>5, <2>3 DEF StateOK, Begin
<1>6. ASSUME NEW e \in Runs, SilentFailure(e) PROVE StateOK'
  <2>1. [exec[e] EXCEPT !.pc = "common"] \in RunState
    BY <1>6, ZenonT(40) DEF StateOK, RunState, RunPC, SilentFailure
  <2> QED
    BY <1>6, <2>1, GoesTyped DEF StateOK, SilentFailure
<1>7. ASSUME NEW e \in Runs, StartFails(e) PROVE StateOK'
  <2>1. exec[e].pc # "idle" /\ exec[e].todo # 0
    BY <1>7 DEF StartFails
  <2>2. /\ exec' \in [Runs -> RunState]
        /\ job' \in [Keys -> [Seqs -> Row \cup {None}]]
        /\ jobView' = jobView
    BY <1>7, <2>1, EndCommandTyped DEF StartFails, EXEC_ERROR
  <2> QED
    BY <1>7, <2>2 DEF StateOK, StartFails
<1>8. ASSUME NEW e \in Runs, StartCommand(e) PROVE StateOK'
  <2>1. [exec[e] EXCEPT !.pc = "select", !.chan = killChan[exec[e].key]] \in RunState
    BY <1>8, ZenonT(40) DEF StateOK, RunState, RunPC, StartCommand
  <2> QED
    BY <1>8, <2>1, GoesTyped DEF StateOK, StartCommand
<1>9. ASSUME NEW e \in Runs, RecvKill(e) PROVE StateOK'
  <2> DEFINE k == exec[e].key
             c == exec[e].chan
             code == Head(killChans[k][c])
  <2>1. k \in Keys /\ c \in Nat /\ exec[e].todo # 0 /\ exec[e].pc # "idle"
    BY <1>9 DEF StateOK, RunState, RecvKill
  <2>2. c \in 1..Len(killChans[k])
    BY <1>9, <2>1 DEF StateOK, IndexOK, RecvKill
  <2>3. code \in Int /\ Drained(killChans[k][c]) \in Chan
    BY <1>9, <2>1, <2>2, SMTT(20) DEF StateOK, RecvKill, Chan, Drained, CanRecv
  <2>4. killChans' \in [Keys -> Seq(Chan)]
    BY <1>9, <2>1, <2>2, <2>3, ExceptHeap DEF StateOK, RecvKill
  <2>5. [exec[e] EXCEPT !.chan = killChan[k]] \in RunState
    BY <2>1, ZenonT(40) DEF StateOK, RunState
  <2>6. /\ exec' \in [Runs -> RunState]
        /\ job' \in [Keys -> [Seqs -> Row \cup {None}]]
        /\ jobView' = jobView
    <3>1. CASE Matches(code, exec[e].seq)
      BY <1>9, <2>1, <2>3, <3>1, EndCommandTyped DEF RecvKill
    <3>2. CASE ~Matches(code, exec[e].seq)
      BY <1>9, <2>5, <3>2, GoesTyped DEF StateOK, RecvKill
    <3> QED
      BY <3>1, <3>2
  <2> QED
    BY <1>9, <2>4, <2>6 DEF StateOK, RecvKill
<1>10. ASSUME NEW e \in Runs, CommandTimesOut(e) PROVE StateOK'
  <2>1. exec[e].pc # "idle" /\ exec[e].todo # 0
    BY <1>10 DEF StateOK, RunState, CommandTimesOut
  <2>2. /\ exec' \in [Runs -> RunState]
        /\ job' \in [Keys -> [Seqs -> Row \cup {None}]]
        /\ jobView' = jobView
    BY <1>10, <2>1, EndCommandTyped DEF CommandTimesOut, EXEC_TIMEOUT
  <2> QED
    BY <1>10, <2>2 DEF StateOK, CommandTimesOut
<1>11. ASSUME NEW e \in Runs, CommandFails(e) PROVE StateOK'
  <2>1. exec[e].pc # "idle" /\ exec[e].todo # 0
    BY <1>11 DEF StateOK, RunState, CommandFails
  <2>2. /\ exec' \in [Runs -> RunState]
        /\ job' \in [Keys -> [Seqs -> Row \cup {None}]]
        /\ jobView' = jobView
    BY <1>11, <2>1, EndCommandTyped DEF CommandFails, EXEC_ERROR
  <2> QED
    BY <1>11, <2>2 DEF StateOK, CommandFails
<1>12. ASSUME NEW e \in Runs, CommandSucceeds(e) PROVE StateOK'
  <2>1. NextCommand(e) \in RunState
    BY <1>12, NextTyped DEF CommandSucceeds
  <2> QED
    BY <1>12, <2>1, GoesTyped DEF StateOK, CommandSucceeds
<1>13. ASSUME NEW e \in Runs, ReturnFromCommand(e) PROVE StateOK'
  <2>1. NextCommand(e) \in RunState
    BY <1>13, NextTyped DEF ReturnFromCommand
  <2>2. [exec[e] EXCEPT !.pc = "common"] \in RunState
    BY <1>13, ZenonT(40) DEF StateOK, RunState, RunPC, ReturnFromCommand
  <2>3. exec' \in [Runs -> RunState]
    BY <1>13, <2>1, <2>2, GoesTyped DEF StateOK, ReturnFromCommand
  <2> QED
    BY <1>13, <2>3 DEF StateOK, ReturnFromCommand, EXEC_SUCCESS, EXEC_NONE, EXEC_FAILURE
<1>14. ASSUME NEW e \in Runs, Succeed(e) PROVE StateOK'
  <2>1. [exec[e] EXCEPT !.pc = "lastview"] \in RunState /\ exec[e].key \in Keys
    BY <1>14 DEF StateOK, RunState, RunPC, Succeed
  <2>2. job' \in [Keys -> [Seqs -> Row \cup {None}]]
    BY <1>14, <2>1, EndedTyped, UpdateTyped DEF StateOK, Succeed
  <2> QED
    BY <1>14, <2>1, <2>2, GoesTyped DEF StateOK, Succeed
<1>15. ASSUME NEW e \in Runs, SucceedView(e) PROVE StateOK'
  <2>1. [exec[e] EXCEPT !.pc = "common"] \in RunState
    BY <1>15, ZenonT(40) DEF StateOK, RunState, RunPC, SucceedView
  <2> QED
    BY <1>15, <2>1, GoesTyped DEF StateOK, SucceedView, EXEC_SUCCESS, EXEC_NONE, EXEC_FAILURE
<1>16. ASSUME NEW e \in Runs, CommonLock(e) PROVE StateOK'
  <2>1. [exec[e] EXCEPT !.pc = "recv", !.chan = execChan[exec[e].key]] \in RunState
    BY <1>16, ZenonT(40) DEF StateOK, RunState, RunPC, CommonLock
  <2> QED
    BY <1>16, <2>1, GoesTyped DEF StateOK, CommonLock
<1>17. ASSUME NEW e \in Runs, Release(e) PROVE StateOK'
  <2> DEFINE k == exec[e].key
             c == exec[e].chan
             w == waitExec[k]
  <2>1. k \in Keys /\ c \in 1..Len(execChans[k]) /\ w \in 1..Len(waitGroups[k])
    BY <1>17, SMTT(20) DEF StateOK, IndexOK, RunState, Release
  <2>2. Drained(execChans[k][c]) \in Chan
    BY <1>17, <2>1, SMTT(20) DEF StateOK, Release, Chan, Drained, CanRecv
  <2>3. execChans' \in [Keys -> Seq(Chan)]
    BY <1>17, <2>1, <2>2, ExceptHeap DEF StateOK, Release
  <2>4. waitGroups[k][w] - 1 \in Int
    BY <2>1, SMTT(20) DEF StateOK
  <2>5. waitGroups' \in [Keys -> Seq(Int)]
    BY <1>17, <2>1, <2>4, ExceptHeap DEF StateOK, Release
  <2> QED
    BY <1>17, <2>3, <2>5, IdleTyped, GoesTyped DEF StateOK, Release
<1>18. ASSUME NEW g \in Killers, NEW k \in Keys, NEW i \in KillArgs, KillRequest(g, k, i) PROVE StateOK'
  <2>1. [pc |-> "check", key |-> k, seq |-> i, chan |-> 0] \in KillState
    BY ArgsAssumption DEF KillState
  <2>2. job' \in [Keys -> [Seqs -> Row \cup {None}]]
    BY <1>18, CancelTyped DEF KillRequest
  <2> QED
    BY <1>18, <2>1, <2>2, KGoesTyped DEF StateOK, KillRequest
<1>19. ASSUME NEW g \in Killers, KillCheck(g) PROVE StateOK'
  <2>1. \A p \in {"make", "lookup"} : [kill[g] EXCEPT !.pc = p] \in KillState
    BY <1>19 DEF StateOK, KillState, KillCheck
  <2> QED
    BY <1>19, <2>1, KGoesTyped DEF StateOK, KillCheck
<1>20. ASSUME NEW g \in Killers, KillMake(g) PROVE StateOK'
  <2>1. [kill[g] EXCEPT !.pc = "lookup"] \in KillState /\ kill[g].key \in Keys
    BY <1>20 DEF StateOK, KillState, KillMake
  <2>2. NewChan \in Chan
    BY DEF NewChan, Chan
  <2>3. killChans' \in [Keys -> Seq(Chan)] /\ killChan' \in [Keys -> Nat]
    BY <1>20, <2>1, <2>2 DEF StateOK, KillMake
  <2> QED
    BY <1>20, <2>1, <2>3, KGoesTyped DEF StateOK, KillMake
<1>21. ASSUME NEW g \in Killers, KillLookup(g) PROVE StateOK'
  <2>1. [kill[g] EXCEPT !.pc = "send", !.chan = killChan[kill[g].key]] \in KillState
    BY <1>21 DEF StateOK, KillState, KillLookup
  <2> QED
    BY <1>21, <2>1, KGoesTyped DEF StateOK, KillLookup
<1>22. ASSUME NEW g \in Killers, KillSend(g) PROVE StateOK'
  <2> DEFINE k == kill[g].key
             c == kill[g].chan
  <2>1. k \in Keys /\ c \in 1..Len(killChans[k]) /\ kill[g].seq \in Int
    BY <1>22 DEF StateOK, IndexOK, KillState, KillSend
  <2>2. Sent(killChans[k][c], kill[g].seq) \in Chan
    BY <2>1 DEF StateOK, Chan, Sent
  <2>3. killChans' \in [Keys -> Seq(Chan)]
    BY <1>22, <2>1, <2>2, ExceptHeap DEF StateOK, KillSend
  <2> QED
    BY <1>22, <2>3, IdleTyped, KGoesTyped DEF StateOK, KillSend
<1>23. ASSUME NEW k \in Keys, NEW i \in Seqs, DelJobExecution(k, i) PROVE StateOK'
  BY <1>23 DEF StateOK, DelJobExecution
<1>24. ASSUME NEW k \in Keys, Evict(k) PROVE StateOK'
  BY <1>24 DEF StateOK, Evict
<1>25. ASSUME Restart PROVE StateOK'
  <2>1. RecoverSeqNo \in [Keys -> Nat]
    BY RecoverTyped
  <2> QED
    BY <1>25, <2>1, IdleTyped DEF StateOK, Restart
<1>26. ASSUME UNCHANGED vars PROVE StateOK'
  BY <1>26 DEF StateOK, vars
<1> QED
  BY <1>1, <1>2, <1>3, <1>4, <1>5, <1>6, <1>7, <1>8, <1>9, <1>10, <1>11, <1>12,
     <1>13, <1>14, <1>15, <1>16, <1>17, <1>18, <1>19, <1>20, <1>21, <1>22, <1>23, <1>24,
     <1>25, <1>26
     DEF Next, Step, Progress, EndsByItself, KillGoroutine, KillRequested

(* In the initial state all indices are valid.                                 *)
LEMMA InitIndex == Init => IndexOK
  BY DEF Init, IndexOK, IdleRun, IdleKill

(* Indices and lengths are natural numbers, and who is busy works for a job.   *)
LEMMA Indices ==
  ASSUME StateOK
  PROVE  /\ \A e \in Runs : exec[e].chan \in Nat /\ (exec[e].pc # "idle" => exec[e].key \in Keys)
         /\ \A g \in Killers : kill[g].chan \in Nat /\ (kill[g].pc # "idle" => kill[g].key \in Keys)
         /\ \A k \in Keys : /\ killChan[k] \in Nat /\ Len(killChans[k]) \in Nat
                            /\ execChan[k] \in Nat /\ Len(execChans[k]) \in Nat
                            /\ waitExec[k] \in Nat /\ Len(waitGroups[k]) \in Nat
  BY DEF StateOK, RunState, KillState

(* Every step keeps the channel and wait group indices valid.                  *)
LEMMA StepIndex == StateOK /\ IndexOK /\ [Next]_vars => IndexOK'
<1> SUFFICES ASSUME StateOK, IndexOK, [Next]_vars PROVE IndexOK'
  OBVIOUS
<1> USE DEF maps, heap, db
<1>1. ASSUME NEW e \in Runs, NEW k \in Keys, ExecCheck(e, k) PROVE IndexOK'
  BY <1>1 DEF IndexOK, StateOK, RunState, KillState, IdleRun, Goes, ExecCheck
<1>2. ASSUME NEW e \in Runs, ExecStart(e) PROVE IndexOK'
  <2> DEFINE k == exec[e].key
             n == seqNo[k] + 1
  <2>1. k \in Keys /\ n \in Nat
    BY <1>2, SMTT(20) DEF StateOK, RunState, ExecStart
  <2>2. \A j \in Keys : /\ Len(execChans'[j]) \in Nat
                        /\ execChan'[j] <= Len(execChans'[j])
                        /\ Len(execChans[j]) <= Len(execChans'[j])
    <3>1. CASE execChan[k] = 0
      <4>1. /\ execChan' = [execChan EXCEPT ![k] = Len(execChans[k]) + 1]
            /\ execChans' = [execChans EXCEPT ![k] = Append(execChans[k], NewChan)]
        BY <1>2, <2>1, <3>1 DEF StateOK, ExecStart
      <4>2. Len(Append(execChans[k], NewChan)) = Len(execChans[k]) + 1
        BY <2>1, AppendProperties DEF StateOK, Chan, NewChan
      <4> QED
        <5>1. \A j \in Keys : j # k => execChan'[j] = execChan[j] /\ execChans'[j] = execChans[j]
          BY <4>1 DEF StateOK
        <5>2. execChan'[k] = Len(execChans[k]) + 1 /\ Len(execChans'[k]) = Len(execChans[k]) + 1
          BY <2>1, <4>1, <4>2 DEF StateOK
        <5> HIDE DEF k
        <5> QED
          BY <2>1, <5>1, <5>2, Indices DEF IndexOK
    <3>2. CASE execChan[k] # 0
      <4>1. execChan' = execChan /\ execChans' = execChans
        BY <1>2, <2>1, <3>2 DEF StateOK, ExecStart
      <4> QED
        BY <4>1, Indices DEF IndexOK
    <3> QED
      BY <3>1, <3>2
  <2>3. \A j \in Keys : waitExec'[j] <= Len(waitGroups'[j])
    <3> DEFINE wgs == IF NoWaitGroup(k) THEN Append(waitGroups[k], 0) ELSE waitGroups[k]
               w == IF NoWaitGroup(k) THEN Len(wgs) ELSE waitExec[k]
    <3>1. waitExec' = [waitExec EXCEPT ![k] = w]
          /\ waitGroups' = [waitGroups EXCEPT ![k] = [wgs EXCEPT ![w] = wgs[w] + 1]]
      BY <1>2 DEF ExecStart
    <3>2. waitExec \in [Keys -> Nat] /\ waitGroups \in [Keys -> Seq(Int)]
      BY DEF StateOK
    <3>3. wgs \in Seq(Int) /\ w <= Len(wgs)
      BY <2>1 DEF StateOK, IndexOK, NoWaitGroup
    <3>4. \A j \in Keys : waitExec[j] <= Len(waitGroups[j])
      BY DEF IndexOK
    <3> HIDE DEF k, wgs, w
    <3>5. Len([wgs EXCEPT ![w] = wgs[w] + 1]) = Len(wgs)
      <4>1. DOMAIN [wgs EXCEPT ![w] = wgs[w] + 1] = 1..Len(wgs) /\ Len(wgs) \in Nat
        BY <3>3
      <4> QED BY <4>1
    <3> QED BY <2>1, <3>1, <3>2, <3>3, <3>4, <3>5
  <2>4. \A f \in Runs : \/ exec'[f] = exec[f]
                        \/ exec'[f].pc = "spawned"
    BY <1>2 DEF StateOK, RunState, ExecStart, Goes
  <2>5. UNCHANGED <<killChan, killChans, kill>>
    BY <1>2 DEF ExecStart
  <2> QED
    BY <2>2, <2>3, <2>4, <2>5, Indices DEF IndexOK
<1>3. ASSUME NEW e \in Runs, LookupExecChan(e) PROVE IndexOK'
  BY <1>3 DEF IndexOK, StateOK, RunState, KillState, Goes, LookupExecChan
<1>4. ASSUME NEW e \in Runs, Acquire(e) PROVE IndexOK'
  <2>1. \A k \in Keys : Len(execChans'[k]) = Len(execChans[k])
    BY <1>4, ExceptLen, SMTT(20) DEF StateOK, Acquire
  <2>2. \A f \in Runs : exec'[f] = exec[f] \/ exec'[f].pc = "begin"
    BY <1>4 DEF StateOK, RunState, Acquire, Goes
  <2> QED
    BY <1>4, <2>1, <2>2, ZenonT(40) DEF IndexOK, StateOK, RunState, Acquire
<1>5. ASSUME NEW e \in Runs, Begin(e) PROVE IndexOK'
  <2>1. \A f \in Runs : exec'[f] = exec[f] \/ exec'[f].pc \in {"common", "ready"}
    <3>1. CASE Goes(e, [exec[e] EXCEPT !.pc = "common"])
      BY <3>1, GoesOnly DEF RunState
    <3>2. CASE \E p \in Plans : Goes(e, [exec[e] EXCEPT !.pc = "ready", !.todo = p])
      <4> PICK p \in Plans : Goes(e, [exec[e] EXCEPT !.pc = "ready", !.todo = p])
        BY <3>2
      <4> QED
        <5> DEFINE r == [exec[e] EXCEPT !.pc = "ready", !.todo = p]
        <5>1. r.pc = "ready"
          BY DEF StateOK, RunState
        <5> HIDE DEF r
        <5>2. Goes(e, r)
          BY DEF r
        <5> QED
          BY <5>1, <5>2, GoesPc
    <3> QED
      BY <1>5, <3>1, <3>2 DEF Begin
  <2> QED
    BY <1>5, <2>1 DEF IndexOK, Begin
<1>6. ASSUME NEW e \in Runs, SilentFailure(e) PROVE IndexOK'
  BY <1>6 DEF IndexOK, StateOK, RunState, KillState, Goes, SilentFailure
<1>7. ASSUME NEW e \in Runs, StartFails(e) PROVE IndexOK'
  BY <1>7 DEF IndexOK, StateOK, RunState, KillState, EndCommand, Goes, StartFails
<1>8. ASSUME NEW e \in Runs, StartCommand(e) PROVE IndexOK'
  BY <1>8 DEF IndexOK, StateOK, RunState, KillState, Goes, StartCommand
<1>9. ASSUME NEW e \in Runs, RecvKill(e) PROVE IndexOK'
  <2>1. \A k \in Keys : Len(killChans'[k]) = Len(killChans[k])
    BY <1>9, ExceptLen DEF StateOK, RecvKill
  <2>2. \A f \in Runs : \/ exec'[f] = exec[f]
                        \/ exec'[f].pc = "view"
                        \/ /\ exec'[f].pc = "select"
                           /\ exec'[f].key = exec[f].key
                           /\ exec'[f].chan = killChan[exec[f].key]
    <3> DEFINE code == Head(killChans[exec[e].key][exec[e].chan])
    <3>1. CASE Goes(e, [exec[e] EXCEPT !.pc = "view", !.ret = code, !.chan = 0])
      <4> DEFINE r == [exec[e] EXCEPT !.pc = "view", !.ret = code, !.chan = 0]
      <4>1. r.pc = "view"
        BY DEF StateOK, RunState
      <4> HIDE DEF r
      <4>2. Goes(e, r)
        BY <3>1 DEF r
      <4> QED
        BY <4>1, <4>2, GoesPc
    <3>2. CASE Goes(e, [exec[e] EXCEPT !.chan = killChan[exec[e].key]])
      BY <1>9, <3>2, GoesOnly, SMTT(20) DEF RunState, RecvKill
    <3> QED
      BY <1>9, <3>1, <3>2 DEF RecvKill, EndCommand
  <2>3. \A f \in Runs : exec'[f].pc = "select" => exec'[f].key \in Keys
    BY <1>9, <2>2, StepType DEF StateOK, RunState
  <2> QED
    BY <1>9, <2>1, <2>2, <2>3, Indices, SMTT(60) DEF IndexOK, RecvKill
<1>10. ASSUME NEW e \in Runs, CommandTimesOut(e) PROVE IndexOK'
  BY <1>10 DEF IndexOK, StateOK, RunState, KillState, EndCommand, Goes, CommandTimesOut
<1>11. ASSUME NEW e \in Runs, CommandFails(e) PROVE IndexOK'
  BY <1>11 DEF IndexOK, StateOK, RunState, KillState, EndCommand, Goes, CommandFails
<1>12. ASSUME NEW e \in Runs, CommandSucceeds(e) PROVE IndexOK'
  BY <1>12 DEF IndexOK, StateOK, RunState, KillState, NextCommand, Goes, CommandSucceeds
<1>13. ASSUME NEW e \in Runs, ReturnFromCommand(e) PROVE IndexOK'
  <2>1. \A f \in Runs : exec'[f] = exec[f] \/ exec'[f].pc \in {"common", "ready"}
    <3>1. CASE Goes(e, NextCommand(e))
      <4>1. NextCommand(e).pc = "ready"
        BY DEF StateOK, RunState, NextCommand
      <4> QED
        BY <3>1, <4>1, GoesPc
    <3>2. CASE Goes(e, [exec[e] EXCEPT !.pc = "common"])
      BY <3>2, GoesOnly DEF RunState
    <3> QED
      BY <1>13, <3>1, <3>2 DEF ReturnFromCommand
  <2> QED
    BY <1>13, <2>1 DEF IndexOK, ReturnFromCommand
<1>14. ASSUME NEW e \in Runs, Succeed(e) PROVE IndexOK'
  BY <1>14 DEF IndexOK, StateOK, RunState, KillState, Goes, Succeed
<1>15. ASSUME NEW e \in Runs, SucceedView(e) PROVE IndexOK'
  BY <1>15 DEF IndexOK, StateOK, RunState, KillState, Goes, SucceedView
<1>16. ASSUME NEW e \in Runs, CommonLock(e) PROVE IndexOK'
  BY <1>16 DEF IndexOK, StateOK, RunState, KillState, Goes, CommonLock
<1>17. ASSUME NEW e \in Runs, Release(e) PROVE IndexOK'
  <2>1. \A k \in Keys : /\ Len(execChans'[k]) = Len(execChans[k])
                        /\ Len(waitGroups'[k]) = Len(waitGroups[k])
    BY <1>17, ExceptLen, SMTT(20) DEF StateOK, Release
  <2>2. \A f \in Runs : exec'[f] = exec[f] \/ exec'[f].pc = "idle"
    BY <1>17 DEF StateOK, IdleRun, Release, Goes
  <2> QED
    BY <1>17, <2>1, <2>2, Indices DEF IndexOK, Release
<1>18. ASSUME NEW g \in Killers, NEW k \in Keys, NEW i \in KillArgs, KillRequest(g, k, i) PROVE IndexOK'
  BY <1>18 DEF IndexOK, StateOK, RunState, KillState, KGoes, KillRequest
<1>19. ASSUME NEW g \in Killers, KillCheck(g) PROVE IndexOK'
  BY <1>19 DEF IndexOK, StateOK, RunState, KillState, KGoes, KillCheck
<1>20. ASSUME NEW g \in Killers, KillMake(g) PROVE IndexOK'
  <2>1. \A k \in Keys : /\ Len(killChans'[k]) \in Nat
                        /\ killChan'[k] <= Len(killChans'[k])
                        /\ Len(killChans[k]) <= Len(killChans'[k])
    BY <1>20, SMTT(20) DEF StateOK, IndexOK, KillState, KillMake
  <2>2. \A h \in Killers : kill'[h] = kill[h] \/ kill'[h].pc = "lookup"
    BY <1>20 DEF StateOK, KillState, KillMake, KGoes
  <2> QED
    BY <1>20, <2>1, <2>2, Indices DEF IndexOK, KillMake
<1>21. ASSUME NEW g \in Killers, KillLookup(g) PROVE IndexOK'
  BY <1>21 DEF IndexOK, StateOK, RunState, KillState, KGoes, KillLookup
<1>22. ASSUME NEW g \in Killers, KillSend(g) PROVE IndexOK'
  <2>1. \A k \in Keys : Len(killChans'[k]) = Len(killChans[k])
    BY <1>22, ExceptLen, SMTT(20) DEF StateOK, KillSend
  <2>2. \A h \in Killers : kill'[h] = kill[h] \/ kill'[h].pc = "idle"
    BY <1>22 DEF StateOK, IdleKill, KillSend, KGoes
  <2> QED
    BY <1>22, <2>1, <2>2, Indices, SMTT(20) DEF IndexOK, KillSend
<1>23. ASSUME NEW k \in Keys, NEW i \in Seqs, DelJobExecution(k, i) PROVE IndexOK'
  BY <1>23 DEF IndexOK, StateOK, RunState, KillState, DelJobExecution
<1>24. ASSUME NEW k \in Keys, Evict(k) PROVE IndexOK'
  BY <1>24 DEF IndexOK, StateOK, RunState, KillState, Evict
<1>25. ASSUME Restart PROVE IndexOK'
  BY <1>25 DEF IndexOK, StateOK, RunState, KillState, IdleRun, IdleKill, Restart
<1>26. ASSUME UNCHANGED vars PROVE IndexOK'
  BY <1>26 DEF IndexOK, StateOK, RunState, KillState, vars
<1> QED
  BY <1>1, <1>2, <1>3, <1>4, <1>5, <1>6, <1>7, <1>8, <1>9, <1>10, <1>11, <1>12,
     <1>13, <1>14, <1>15, <1>16, <1>17, <1>18, <1>19, <1>20, <1>21, <1>22, <1>23, <1>24,
     <1>25, <1>26
     DEF Next, Step, Progress, EndsByItself, KillGoroutine, KillRequested

(* Only executions take the lock. *)
LEMMA StepLock == [Next]_vars => accessLock' \in Runs \cup {None, accessLock}
<1> SUFFICES ASSUME [Next]_vars PROVE accessLock' \in Runs \cup {None, accessLock}
  OBVIOUS
<1>1. ASSUME NEW e \in Runs, Progress(e) \/ EndsByItself(e) PROVE accessLock' \in {e, None, accessLock}
  BY <1>1 DEF Progress, EndsByItself, LookupExecChan, Acquire, Begin, SilentFailure, StartFails,
     StartCommand, RecvKill, CommandTimesOut, CommandFails, CommandSucceeds, ReturnFromCommand,
     Succeed, SucceedView, CommonLock, Release
<1>2. ASSUME NEW e \in Runs, ExecStart(e) \/ \E k \in Keys : ExecCheck(e, k) PROVE accessLock' = accessLock
  BY <1>2 DEF ExecCheck, ExecStart
<1>3. ASSUME NEW g \in Killers, KillGoroutine(g) \/ \E k \in Keys, n \in KillArgs : KillRequest(g, k, n)
      PROVE  accessLock' = accessLock
  BY <1>3 DEF KillGoroutine, KillRequest, KillCheck, KillMake, KillLookup, KillSend
<1>4. ASSUME NEW k \in Keys, Evict(k) \/ \E n \in Seqs : DelJobExecution(k, n)
      PROVE  accessLock' = accessLock
  BY <1>4 DEF Evict, DelJobExecution
<1>5. Restart \/ UNCHANGED vars => accessLock' \in {None, accessLock}
  BY DEF Restart, vars
<1> QED BY <1>1, <1>2, <1>3, <1>4, <1>5 DEF Next, Step, KillRequested

(* Type correctness of the engine. *)
THEOREM TypeCorrect == Spec => []TypeOK
<1>1. Init => TypeOK /\ IndexOK
  BY InitType, InitIndex DEF Init, TypeOK
<1>2. (TypeOK /\ IndexOK) /\ [Next]_vars => (TypeOK /\ IndexOK)'
  BY StepType, StepIndex, StepLock DEF TypeOK
<1> QED
  BY <1>1, <1>2, PTL DEF Spec
-----------------------------------------------------------------------------
Slot(k) == execChans[k][execChan[k]]

(* The inductive invariant behind SerialExecution: all executions of a job use *)
(* the channel that ExecChan holds for it, whoever is between its send and its *)
(* receive has a token in it, and there is room for one token.                 *)
SlotOK ==
  /\ \A k \in Keys : execChan[k] # 0 => Len(Slot(k)) <= 1
  /\ \A e \in Runs : Alive(e) => execChan[exec[e].key] # 0
  /\ \A e \in Runs : exec[e].pc \in {"queued", "recv"} => exec[e].chan = execChan[exec[e].key]
  /\ \A e \in Runs : InSlot(e) => Slot(exec[e].key) # <<>>
  /\ SerialExecution

(* Most steps leave the channels of executions alone and move one goroutine,   *)
(* neither into the slot of its job nor out of it.                             *)
LEMMA SlotFrame ==
  ASSUME StateOK, SlotOK, UNCHANGED <<execChan, execChans>>,
         NEW e \in Runs, NEW r, Goes(e, r),
         r.pc \in RunPC => exec[e].pc \in RunPC /\ r.key = exec[e].key,
         r.pc \in SlotPC => exec[e].pc \in SlotPC,
         r.pc \in {"queued", "recv"} => r.chan = execChan[r.key]
  PROVE  SlotOK'
<1> DEFINE Same(f) == exec'[f] = exec[f]
<1>1. exec'[e] = r /\ \A f \in Runs : f # e => Same(f)
  BY GoesOnly
<1>2. SlotPC \subseteq RunPC
  BY DEF SlotPC
<1>3. \A f \in Runs : Alive(f)' => Alive(f) /\ exec'[f].key = exec[f].key
  BY <1>1 DEF Alive
<1>4. \A f \in Runs : InSlot(f)' => InSlot(f) /\ exec'[f].key = exec[f].key
  BY <1>1, <1>2 DEF InSlot
<1>5. \A f \in Runs : exec'[f].pc \in {"queued", "recv"} => exec'[f].chan = execChan[exec'[f].key]
  BY <1>1 DEF SlotOK
<1>6. SerialExecution'
  BY <1>4 DEF SlotOK, SerialExecution
<1> QED
  BY <1>3, <1>4, <1>5, <1>6 DEF SlotOK, Slot

(* A step that touches neither goroutines nor their channels keeps SlotOK.     *)
LEMMA SlotSame ==
  ASSUME SlotOK, UNCHANGED <<execChan, execChans, exec>>
  PROVE  SlotOK'
  BY DEF SlotOK, Slot, SerialExecution, Alive, InSlot

(* No execution exists in the initial state.                                   *)
LEMMA InitSlot == Init => SlotOK
  BY DEF Init, SlotOK, SerialExecution, Alive, InSlot, IdleRun, RunPC, SlotPC

(* Every step of every goroutine, and a restart, preserves SlotOK.             *)
LEMMA StepSlot == StateOK /\ IndexOK /\ SlotOK /\ [Next]_vars => SlotOK'
<1> SUFFICES ASSUME StateOK, IndexOK, SlotOK, [Next]_vars PROVE SlotOK'
  OBVIOUS
<1> USE DEF maps, heap, db
<1>1. ASSUME NEW e \in Runs, NEW k \in Keys, ExecCheck(e, k) PROVE SlotOK'
  <2> DEFINE r == [IdleRun EXCEPT !.pc = "checked", !.key = k]
  <2>1. r.pc = "checked"
    BY <1>1 DEF StateOK, RunState, ExecCheck, IdleRun
  <2>2. Goes(e, r) /\ UNCHANGED <<execChan, execChans>>
    BY <1>1 DEF ExecCheck
  <2>3. exec[e].pc = "idle"
    BY <1>1 DEF RunPC, SlotPC, ExecCheck
  <2> HIDE DEF r
  <2> QED
    BY <2>1, <2>2, <2>3, SlotFrame DEF RunPC, SlotPC
<1>2. ASSUME NEW e \in Runs, ExecStart(e) PROVE SlotOK'
  <2> DEFINE k == exec[e].key
             r == [exec[e] EXCEPT !.pc = "spawned", !.seq = seqNo[k] + 1]
  <2>1. k \in Keys /\ r.pc = "spawned" /\ r.key = k
    BY <1>2 DEF StateOK, RunState, ExecStart
  <2>2. exec'[e] = r /\ \A f \in Runs : f # e => exec'[f] = exec[f]
    BY <1>2, GoesOnly DEF ExecStart
  <2>3. \A j \in Keys : j # k => execChan'[j] = execChan[j] /\ execChans'[j] = execChans[j]
    BY <1>2 DEF StateOK, ExecStart
  <2>4. execChan'[k] # 0 /\ Len(execChans'[k][execChan'[k]]) <= 1
    <3> DEFINE L == execChans[k]
    <3>1. L \in Seq(Chan) /\ execChan[k] \in Nat
      BY <2>1 DEF StateOK
    <3>2. CASE execChan[k] = 0
      <4>1. execChan'[k] = Len(L) + 1 /\ execChans'[k] = Append(L, <<>>)
        BY <1>2, <2>1, <3>2 DEF StateOK, ExecStart, NewChan
      <4>2. <<>> \in Chan /\ Len(<<>>) = 0
        BY DEF Chan
      <4> HIDE DEF L
      <4>3. Append(L, <<>>)[Len(L) + 1] = <<>> /\ Len(L) \in Nat
        BY <3>1, <4>2, AppendProperties
      <4> QED
        BY <4>1, <4>2, <4>3 DEF Slot
    <3>3. CASE execChan[k] # 0
      <4>1. execChan'[k] = execChan[k] /\ execChans'[k] = L
        BY <1>2, <2>1, <3>3 DEF StateOK, ExecStart
      <4> QED
        BY <2>1, <3>1, <3>3, <4>1 DEF SlotOK, Slot
    <3> QED
      BY <3>1, <3>2, <3>3
  <2>5. execChan[k] # 0 => execChan'[k] = execChan[k] /\ execChans'[k] = execChans[k]
    BY <1>2, <2>1 DEF StateOK, ExecStart
  <2> HIDE DEF k, r
  <2>6. \A f \in Runs : InSlot(f)' => f # e /\ InSlot(f) /\ exec'[f] = exec[f]
    BY <2>1, <2>2 DEF InSlot, SlotPC, RunPC
  <2>7. \A f \in Runs : Alive(f)' => f = e \/ (Alive(f) /\ exec'[f] = exec[f])
    BY <2>2 DEF Alive
  <2>8. \A f \in Runs : exec'[f].pc \in {"queued", "recv"} => exec'[f].chan = execChan'[exec'[f].key]
    <3> SUFFICES ASSUME NEW f \in Runs, exec'[f].pc \in {"queued", "recv"}
                 PROVE  exec'[f].chan = execChan'[exec'[f].key]
      OBVIOUS
    <3>1. f # e /\ exec'[f] = exec[f] /\ Alive(f) /\ exec[f].key \in Keys
      BY <2>1, <2>2, Indices DEF Alive, RunPC
    <3> QED
      BY <2>3, <2>5, <3>1 DEF SlotOK
  <2>9. SerialExecution'
    BY <2>6 DEF SlotOK, SerialExecution
  <2>10. \A f \in Runs : InSlot(f)' => Slot(exec[f].key)' # <<>>
    <3> SUFFICES ASSUME NEW f \in Runs, InSlot(f)' PROVE Slot(exec[f].key)' # <<>>
      OBVIOUS
    <3>1. InSlot(f) /\ exec'[f] = exec[f] /\ Alive(f) /\ exec[f].key \in Keys
      BY <2>6, Indices DEF InSlot, Alive, SlotPC, RunPC
    <3> QED
      BY <2>3, <2>5, <3>1 DEF SlotOK, Slot
  <2>11. \A j \in Keys : execChan'[j] # 0 => Len(Slot(j)') <= 1
    BY <2>3, <2>4 DEF SlotOK, Slot
  <2>12. \A f \in Runs : Alive(f)' => execChan'[exec'[f].key] # 0
    <3> SUFFICES ASSUME NEW f \in Runs, Alive(f)', f # e PROVE execChan'[exec'[f].key] # 0
      BY <2>1, <2>2, <2>4
    <3>1. Alive(f) /\ exec'[f] = exec[f] /\ exec[f].key \in Keys
      BY <2>7, Indices DEF Alive, RunPC
    <3> QED
      BY <2>3, <2>4, <3>1 DEF SlotOK
  <2> QED
    BY <2>6, <2>8, <2>9, <2>10, <2>11, <2>12 DEF SlotOK, Slot
<1>3. ASSUME NEW e \in Runs, LookupExecChan(e) PROVE SlotOK'
  <2> DEFINE r == [exec[e] EXCEPT !.pc = "queued", !.chan = execChan[exec[e].key]]
  <2>1. r.pc = "queued" /\ r.key = exec[e].key /\ r.chan = execChan[r.key]
    BY <1>3 DEF StateOK, RunState, SlotOK, Alive, RunPC, LookupExecChan
  <2>2. Goes(e, r) /\ UNCHANGED <<execChan, execChans>>
    BY <1>3 DEF LookupExecChan
  <2>3. exec[e].pc = "spawned"
    BY <1>3 DEF RunPC, SlotPC, LookupExecChan
  <2> HIDE DEF r
  <2> QED
    BY <2>1, <2>2, <2>3, SlotFrame DEF RunPC, SlotPC
<1>4. ASSUME NEW e \in Runs, Acquire(e) PROVE SlotOK'
  <2> DEFINE k == exec[e].key
             r == [exec[e] EXCEPT !.pc = "begin", !.chan = 0]
             c == execChan[k]
  <2>1. k \in Keys /\ r.pc = "begin" /\ r.key = k
    BY <1>4 DEF StateOK, RunState, Acquire
  <2>2. exec'[e] = r /\ \A f \in Runs : f # e => exec'[f] = exec[f]
    BY <1>4, GoesOnly DEF Acquire
  <2>3. execChan' = execChan /\ \A j \in Keys : j # k => execChans'[j] = execChans[j]
    BY <1>4 DEF StateOK, Acquire
  <2>4. Alive(e) /\ exec[e].chan = c /\ c \in 1..Len(execChans[k]) /\ execChans[k] \in Seq(Chan)
    BY <1>4, <2>1, Indices DEF SlotOK, IndexOK, StateOK, Acquire, Alive, RunPC
  <2>5. execChans[k][c] \in Seq(Int) /\ Len(execChans[k][c]) < 1
    BY <1>4, <2>1, <2>4 DEF StateOK, Chan, Acquire, CanSend
  <2>6. execChans'[k][c] = Append(execChans[k][c], EXEC_GOROUTINE)
    <3>1. execChans' = [execChans EXCEPT ![k][c] = Append(execChans[k][c], EXEC_GOROUTINE)]
      BY <1>4, <2>4 DEF Acquire, Sent
    <3>2. execChans \in [Keys -> Seq(Chan)] /\ DOMAIN execChans[k] = 1..Len(execChans[k])
      BY <2>1 DEF StateOK
    <3> HIDE DEF k, c
    <3> QED
      BY <2>1, <2>4, <3>1, <3>2
  <2>7. execChans[k][c] = <<>> /\ execChans'[k][c] # <<>> /\ Len(execChans'[k][c]) <= 1
    <3> DEFINE v == execChans[k][c]
    <3>1. v \in Seq(Int) /\ Len(v) < 1 /\ execChans'[k][c] = Append(v, EXEC_GOROUTINE)
      BY <2>5, <2>6
    <3> HIDE DEF v
    <3>2. EXEC_GOROUTINE \in Int
      BY DEF EXEC_GOROUTINE
    <3>3. Len(Append(v, EXEC_GOROUTINE)) = Len(v) + 1 /\ Append(v, EXEC_GOROUTINE) # <<>> /\ v = <<>>
      BY <3>1, <3>2, AppendProperties
    <3> QED
      BY <3>1, <3>3 DEF v
  <2> HIDE DEF k, r, c
  <2>8. \A f \in Runs : InSlot(f) => exec[f].key # k
    BY <2>7 DEF SlotOK, Slot, c
  <2>9. \A f \in Runs : InSlot(f)' => f = e \/ (InSlot(f) /\ exec'[f] = exec[f])
    BY <2>2 DEF InSlot
  <2>10. \A f \in Runs : Alive(f)' => Alive(f) /\ exec'[f].key = exec[f].key
    BY <2>1, <2>2, <2>4 DEF Alive, k
  <2>11. \A f \in Runs : exec'[f].pc \in {"queued", "recv"} => exec'[f].chan = execChan'[exec'[f].key]
    BY <2>1, <2>2, <2>3 DEF SlotOK
  <2>12. SerialExecution'
    BY <2>1, <2>2, <2>8, <2>9 DEF SlotOK, SerialExecution
  <2>13. \A f \in Runs : InSlot(f)' => Slot(exec[f].key)' # <<>>
    <3> SUFFICES ASSUME NEW f \in Runs, InSlot(f)', f # e PROVE Slot(exec[f].key)' # <<>>
      BY <2>1, <2>2, <2>3, <2>7 DEF Slot, c
    <3>1. InSlot(f) /\ exec'[f] = exec[f] /\ exec[f].key \in Keys
      BY <2>9, Indices DEF InSlot, SlotPC, RunPC
    <3> QED
      BY <2>3, <2>8, <3>1 DEF SlotOK, Slot
  <2>14. \A j \in Keys : execChan'[j] # 0 => Len(Slot(j)') <= 1
    BY <2>3, <2>7 DEF SlotOK, Slot, c
  <2> QED
    BY <2>3, <2>10, <2>11, <2>12, <2>13, <2>14, ZenonT(40) DEF SlotOK
<1>5. ASSUME NEW e \in Runs, Begin(e) PROVE SlotOK'
  <2>1. CASE Goes(e, [exec[e] EXCEPT !.pc = "common"])
    <3> DEFINE r == [exec[e] EXCEPT !.pc = "common"]
    <3>1. r.pc = "common" /\ r.key = exec[e].key
      BY DEF StateOK, RunState
    <3> HIDE DEF r
    <3> QED
      BY <1>5, <2>1, <3>1, SlotFrame DEF Begin, RunPC, SlotPC, r
  <2>2. CASE \E p \in Plans : Goes(e, [exec[e] EXCEPT !.pc = "ready", !.todo = p])
    <3> PICK p \in Plans : Goes(e, [exec[e] EXCEPT !.pc = "ready", !.todo = p])
      BY <2>2
    <3> DEFINE r == [exec[e] EXCEPT !.pc = "ready", !.todo = p]
    <3>1. r.pc = "ready" /\ r.key = exec[e].key
      BY DEF StateOK, RunState
    <3>2. Goes(e, r)
      OBVIOUS
    <3> HIDE DEF r
    <3> QED
      BY <1>5, <3>1, <3>2, SlotFrame DEF Begin, RunPC, SlotPC
  <2> QED
    BY <1>5, <2>1, <2>2 DEF Begin
<1>6. ASSUME NEW e \in Runs, SilentFailure(e) PROVE SlotOK'
  <2> DEFINE r == [exec[e] EXCEPT !.pc = "common"]
  <2>1. r.pc = "common" /\ r.key = exec[e].key
    BY <1>6 DEF StateOK, RunState, SilentFailure
  <2>2. Goes(e, r) /\ UNCHANGED <<execChan, execChans>>
    BY <1>6 DEF SilentFailure
  <2>3. exec[e].pc \in SlotPC
    BY <1>6 DEF RunPC, SlotPC, SilentFailure
  <2> HIDE DEF r
  <2> QED
    BY <2>1, <2>2, <2>3, SlotFrame DEF RunPC, SlotPC
<1>7. ASSUME NEW e \in Runs, StartFails(e) PROVE SlotOK'
  <2> DEFINE r == [exec[e] EXCEPT !.pc = "view", !.ret = EXEC_ERROR, !.chan = 0]
  <2>1. r.pc = "view" /\ r.key = exec[e].key
    BY <1>7 DEF StateOK, RunState, StartFails
  <2>2. Goes(e, r) /\ UNCHANGED <<execChan, execChans>>
    BY <1>7 DEF StartFails, EndCommand
  <2>3. exec[e].pc \in SlotPC
    BY <1>7 DEF RunPC, SlotPC, StartFails
  <2> HIDE DEF r
  <2> QED
    BY <2>1, <2>2, <2>3, SlotFrame DEF RunPC, SlotPC
<1>8. ASSUME NEW e \in Runs, StartCommand(e) PROVE SlotOK'
  <2> DEFINE r == [exec[e] EXCEPT !.pc = "select", !.chan = killChan[exec[e].key]]
  <2>1. r.pc = "select" /\ r.key = exec[e].key
    BY <1>8 DEF StateOK, RunState, StartCommand
  <2>2. Goes(e, r) /\ UNCHANGED <<execChan, execChans>>
    BY <1>8 DEF StartCommand
  <2>3. exec[e].pc \in SlotPC
    BY <1>8 DEF RunPC, SlotPC, StartCommand
  <2> HIDE DEF r
  <2> QED
    BY <2>1, <2>2, <2>3, SlotFrame DEF RunPC, SlotPC
<1>9. ASSUME NEW e \in Runs, RecvKill(e) PROVE SlotOK'
  <2> DEFINE code == Head(killChans[exec[e].key][exec[e].chan])
             r1 == [exec[e] EXCEPT !.pc = "view", !.ret = code, !.chan = 0]
             r2 == [exec[e] EXCEPT !.chan = killChan[exec[e].key]]
  <2>1. r1.pc = "view" /\ r1.key = exec[e].key /\ r2.pc = "select" /\ r2.key = exec[e].key
    BY <1>9 DEF StateOK, RunState, RecvKill
  <2>2. Goes(e, r1) \/ Goes(e, r2)
    BY <1>9 DEF RecvKill, EndCommand
  <2>3. exec[e].pc = "select" /\ UNCHANGED <<execChan, execChans>>
    BY <1>9 DEF RecvKill
  <2> HIDE DEF r1, r2
  <2>4. CASE Goes(e, r1)
    BY <2>1, <2>3, <2>4, SlotFrame DEF RunPC, SlotPC
  <2>5. CASE Goes(e, r2)
    BY <2>1, <2>3, <2>5, SlotFrame DEF RunPC, SlotPC
  <2> QED
    BY <2>2, <2>4, <2>5
<1>10. ASSUME NEW e \in Runs, CommandTimesOut(e) PROVE SlotOK'
  <2> DEFINE r == [exec[e] EXCEPT !.pc = "view", !.ret = EXEC_TIMEOUT, !.chan = 0]
  <2>1. r.pc = "view" /\ r.key = exec[e].key
    BY <1>10 DEF StateOK, RunState, CommandTimesOut
  <2>2. Goes(e, r) /\ UNCHANGED <<execChan, execChans>>
    BY <1>10 DEF CommandTimesOut, EndCommand
  <2>3. exec[e].pc \in SlotPC
    BY <1>10 DEF RunPC, SlotPC, CommandTimesOut
  <2> HIDE DEF r
  <2> QED
    BY <2>1, <2>2, <2>3, SlotFrame DEF RunPC, SlotPC
<1>11. ASSUME NEW e \in Runs, CommandFails(e) PROVE SlotOK'
  <2> DEFINE r == [exec[e] EXCEPT !.pc = "view", !.ret = EXEC_ERROR, !.chan = 0]
  <2>1. r.pc = "view" /\ r.key = exec[e].key
    BY <1>11 DEF StateOK, RunState, CommandFails
  <2>2. Goes(e, r) /\ UNCHANGED <<execChan, execChans>>
    BY <1>11 DEF CommandFails, EndCommand
  <2>3. exec[e].pc \in SlotPC
    BY <1>11 DEF RunPC, SlotPC, CommandFails
  <2> HIDE DEF r
  <2> QED
    BY <2>1, <2>2, <2>3, SlotFrame DEF RunPC, SlotPC
<1>12. ASSUME NEW e \in Runs, CommandSucceeds(e) PROVE SlotOK'
  <2> DEFINE r == NextCommand(e)
  <2>1. r.pc = "ready" /\ r.key = exec[e].key
    BY <1>12 DEF StateOK, RunState, CommandSucceeds, NextCommand
  <2>2. Goes(e, r) /\ UNCHANGED <<execChan, execChans>>
    BY <1>12 DEF CommandSucceeds
  <2>3. exec[e].pc \in SlotPC
    BY <1>12 DEF RunPC, SlotPC, CommandSucceeds
  <2> HIDE DEF r
  <2> QED
    BY <2>1, <2>2, <2>3, SlotFrame DEF RunPC, SlotPC
<1>13. ASSUME NEW e \in Runs, ReturnFromCommand(e) PROVE SlotOK'
  <2> DEFINE r1 == NextCommand(e)
             r2 == [exec[e] EXCEPT !.pc = "common"]
  <2>1. r1.pc = "ready" /\ r1.key = exec[e].key /\ r2.pc = "common" /\ r2.key = exec[e].key
    BY DEF StateOK, RunState, NextCommand
  <2>2. Goes(e, r1) \/ Goes(e, r2)
    BY <1>13 DEF ReturnFromCommand
  <2>3. exec[e].pc = "view" /\ UNCHANGED <<execChan, execChans>>
    BY <1>13 DEF ReturnFromCommand
  <2> HIDE DEF r1, r2
  <2>4. CASE Goes(e, r1)
    BY <2>1, <2>3, <2>4, SlotFrame DEF RunPC, SlotPC
  <2>5. CASE Goes(e, r2)
    BY <2>1, <2>3, <2>5, SlotFrame DEF RunPC, SlotPC
  <2> QED
    BY <2>2, <2>4, <2>5
<1>14. ASSUME NEW e \in Runs, Succeed(e) PROVE SlotOK'
  <2> DEFINE r == [exec[e] EXCEPT !.pc = "lastview"]
  <2>1. r.pc = "lastview" /\ r.key = exec[e].key
    BY <1>14 DEF StateOK, RunState, Succeed
  <2>2. Goes(e, r) /\ UNCHANGED <<execChan, execChans>>
    BY <1>14 DEF Succeed
  <2>3. exec[e].pc \in SlotPC
    BY <1>14 DEF RunPC, SlotPC, Succeed
  <2> HIDE DEF r
  <2> QED
    BY <2>1, <2>2, <2>3, SlotFrame DEF RunPC, SlotPC
<1>15. ASSUME NEW e \in Runs, SucceedView(e) PROVE SlotOK'
  <2> DEFINE r == [exec[e] EXCEPT !.pc = "common"]
  <2>1. r.pc = "common" /\ r.key = exec[e].key
    BY <1>15 DEF StateOK, RunState, SucceedView
  <2>2. Goes(e, r) /\ UNCHANGED <<execChan, execChans>>
    BY <1>15 DEF SucceedView
  <2>3. exec[e].pc \in SlotPC
    BY <1>15 DEF RunPC, SlotPC, SucceedView
  <2> HIDE DEF r
  <2> QED
    BY <2>1, <2>2, <2>3, SlotFrame DEF RunPC, SlotPC
<1>16. ASSUME NEW e \in Runs, CommonLock(e) PROVE SlotOK'
  <2> DEFINE r == [exec[e] EXCEPT !.pc = "recv", !.chan = execChan[exec[e].key]]
  <2>1. r.pc = "recv" /\ r.key = exec[e].key /\ r.chan = execChan[r.key]
    BY <1>16 DEF StateOK, RunState, SlotOK, Alive, RunPC, CommonLock
  <2>2. Goes(e, r) /\ UNCHANGED <<execChan, execChans>>
    BY <1>16 DEF CommonLock
  <2>3. exec[e].pc \in SlotPC
    BY <1>16 DEF RunPC, SlotPC, CommonLock
  <2> HIDE DEF r
  <2> QED
    BY <2>1, <2>2, <2>3, SlotFrame DEF RunPC, SlotPC
<1>17. ASSUME NEW e \in Runs, Release(e) PROVE SlotOK'
  <2> DEFINE k == exec[e].key
             c == execChan[k]
  <2>1. k \in Keys /\ InSlot(e) /\ Alive(e)
    BY <1>17 DEF StateOK, RunState, Release, InSlot, Alive, SlotPC, RunPC
  <2>2. exec'[e] = IdleRun /\ \A f \in Runs : f # e => exec'[f] = exec[f]
    BY <1>17, GoesOnly DEF Release
  <2>3. execChan' = execChan /\ \A j \in Keys : j # k => execChans'[j] = execChans[j]
    BY <1>17 DEF StateOK, Release
  <2>4. exec[e].chan = c /\ c \in 1..Len(execChans[k]) /\ execChans[k] \in Seq(Chan)
    BY <1>17, <2>1, Indices DEF SlotOK, IndexOK, StateOK, Release
  <2>5. execChans[k][c] \in Seq(Int) /\ execChans[k][c] # <<>> /\ Len(execChans[k][c]) <= 1
    BY <2>1, <2>4 DEF Chan, SlotOK, Slot
  <2>6. execChans'[k][c] = Tail(execChans[k][c])
    BY <1>17, <2>1, <2>4 DEF StateOK, Release, Drained
  <2>7. Len(execChans'[k][c]) <= 1
    BY <2>5, <2>6, HeadTailProperties
  <2> HIDE DEF k, c
  <2>8. \A f \in Runs : InSlot(f) /\ f # e => exec[f].key # k
    BY <2>1 DEF SlotOK, SerialExecution, k
  <2>9. \A f \in Runs : InSlot(f)' => f # e /\ InSlot(f) /\ exec'[f] = exec[f]
    BY <2>2 DEF InSlot, IdleRun, SlotPC, RunPC
  <2>10. \A f \in Runs : Alive(f)' => Alive(f) /\ exec'[f] = exec[f]
    BY <2>2 DEF Alive, IdleRun, RunPC
  <2>11. \A f \in Runs : exec'[f].pc \in {"queued", "recv"} => exec'[f].chan = execChan'[exec'[f].key]
    BY <2>2, <2>3 DEF SlotOK, IdleRun
  <2>12. SerialExecution'
    BY <2>9 DEF SlotOK, SerialExecution
  <2>13. \A f \in Runs : InSlot(f)' => Slot(exec[f].key)' # <<>>
    <3> SUFFICES ASSUME NEW f \in Runs, InSlot(f)' PROVE Slot(exec[f].key)' # <<>>
      OBVIOUS
    <3>1. f # e /\ InSlot(f) /\ exec'[f] = exec[f] /\ exec[f].key \in Keys
      BY <2>9, Indices DEF InSlot, SlotPC, RunPC
    <3> QED
      BY <2>3, <2>8, <3>1 DEF SlotOK, Slot
  <2>14. \A j \in Keys : execChan'[j] # 0 => Len(Slot(j)') <= 1
    BY <2>3, <2>7 DEF SlotOK, Slot, c
  <2> QED
    BY <2>3, <2>10, <2>11, <2>12, <2>13, <2>14 DEF SlotOK
<1>18. ASSUME NEW g \in Killers, NEW k \in Keys, NEW i \in KillArgs, KillRequest(g, k, i) PROVE SlotOK'
  BY <1>18, SlotSame DEF KillRequest
<1>19. ASSUME NEW g \in Killers, KillCheck(g) PROVE SlotOK'
  BY <1>19, SlotSame DEF KillCheck
<1>20. ASSUME NEW g \in Killers, KillMake(g) PROVE SlotOK'
  BY <1>20, SlotSame DEF KillMake
<1>21. ASSUME NEW g \in Killers, KillLookup(g) PROVE SlotOK'
  BY <1>21, SlotSame DEF KillLookup
<1>22. ASSUME NEW g \in Killers, KillSend(g) PROVE SlotOK'
  BY <1>22, SlotSame DEF KillSend
<1>23. ASSUME NEW k \in Keys, NEW i \in Seqs, DelJobExecution(k, i) PROVE SlotOK'
  BY <1>23, SlotSame DEF DelJobExecution
<1>24. ASSUME NEW k \in Keys, Evict(k) PROVE SlotOK'
  BY <1>24, SlotSame DEF Evict
<1>25. ASSUME Restart PROVE SlotOK'
  BY <1>25 DEF Restart, SlotOK, SerialExecution, Alive, InSlot, IdleRun, RunPC, SlotPC
<1>26. ASSUME UNCHANGED vars PROVE SlotOK'
  BY <1>26, SlotSame DEF vars
<1> QED
  BY <1>1, <1>2, <1>3, <1>4, <1>5, <1>6, <1>7, <1>8, <1>9, <1>10, <1>11, <1>12,
     <1>13, <1>14, <1>15, <1>16, <1>17, <1>18, <1>19, <1>20, <1>21, <1>22, <1>23, <1>24,
     <1>25, <1>26
     DEF Next, Step, Progress, EndsByItself, KillGoroutine, KillRequested

(* Executions of one job never overlap, whatever the number of goroutines, of  *)
(* jobs and of kill requests, and across restarts (runJobExecution).           *)
THEOREM Serial == Spec => []SerialExecution
<1>1. Init => StateOK /\ IndexOK /\ SlotOK
  BY InitType, InitIndex, InitSlot
<1>2. (StateOK /\ IndexOK /\ SlotOK) /\ [Next]_vars => (StateOK /\ IndexOK /\ SlotOK)'
  BY StepType, StepIndex, StepSlot
<1>3. SlotOK => SerialExecution
  BY DEF SlotOK
<1> QED
  BY <1>1, <1>2, <1>3, PTL DEF Spec
=============================================================================
