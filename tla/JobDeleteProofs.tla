-------------------------- MODULE JobDeleteProofs --------------------------
(***************************************************************************)
(* Proofs about JobDelete, for every set of jobs, goroutines and clients:  *)
(* what delJob closes it closes once, and, where clients wait for answers, *)
(* it waits for the executions, and they keep what they rely on in JobExec *)
(* and are never left waiting by one that is gone; and, as long as nobody  *)
(* asks to execute a job without configuration file, the engine with       *)
(* deletions implements SerialJobs: a job made anew meets nothing of its   *)
(* earlier life.                                                           *)
(***************************************************************************)
EXTENDS JobDeleteRefinement, JobExecRecordProofs

(* The parts of DTypeOK about goroutines of delJob and about closed channels.  *)
DelTyped ==
  /\ del \in [Deleters -> DelState] /\ drain \in [Deleters -> DrainState]
  /\ \A d \in Deleters :
       /\ del[d].pc = "wait" => del[d].wait \in DOMAIN waitGroups[del[d].key]
       /\ drain[d].pc = "recv" => drain[d].chan \in DOMAIN killChans[drain[d].key]

ClosedTyped ==
  /\ closed \in [Keys -> [exec : SUBSET Nat, kill : SUBSET Nat]]
  /\ \A k \in Keys : /\ closed[k].exec \subseteq DOMAIN execChans[k]
                     /\ closed[k].kill \subseteq DOMAIN killChans[k]

EngineTyped == StateOK /\ IndexOK

Locked == accessLock \in Runs \cup Deleters \cup {None}

(* What holds whatever clients do. *)
AnyClients ==
  /\ EngineTyped /\ Locked /\ files \subseteq Keys
  /\ DelTyped /\ ClosedTyped /\ NeverClosedTwice

-----------------------------------------------------------------------------
(* A step of the engine while the server is up; a request to execute a job     *)
(* comes from a client that may ask, and finds the job.                        *)
EngineStep ==
  /\ server = "up"
  /\ Rest
  /\ \/ \E e \in Runs, k \in Keys : MayAsk(k) /\ Exists(k) /\ ExecCheck(e, k)
     \/ \E e \in Runs : ExecStart(e) \/ Progress(e) \/ EndsByItself(e)
     \/ \E g \in Killers : KillGoroutine(g)
     \/ \E g \in Killers, k \in Keys, n \in KillArgs : KillRequest(g, k, n)
     \/ \E k \in Keys, n \in Seqs : DelJobExecution(k, n)
     \/ \E k \in Keys : Evict(k)

LEMMA EngineSteps ==
  /\ \A k \in Keys : Request(k) => EngineStep
  /\ \A e \in Runs : RunStep(e) => EngineStep
  /\ \A g \in Killers : KillStep(g) => EngineStep
  /\ OtherStep => EngineStep
<1>1. ASSUME NEW k \in Keys, Request(k) PROVE EngineStep
  BY <1>1 DEF Request, EngineStep, MayAsk
<1>2. ASSUME NEW e \in Runs, RunStep(e) PROVE EngineStep
  BY <1>2 DEF RunStep, EngineStep
<1>3. ASSUME NEW g \in Killers, KillStep(g) PROVE EngineStep
  BY <1>3 DEF KillStep, EngineStep
<1>4. ASSUME OtherStep PROVE EngineStep
  BY <1>4 DEF OtherStep, EngineStep
<1> QED BY <1>1, <1>2, <1>3, <1>4

LEMMA EngineIsNext == EngineStep => Next
  BY DEF EngineStep, Next, Step, KillRequested

(* The heap of channels and wait groups only grows, and an entry of a map      *)
(* stays or comes to a channel that was just made.                             *)
Grows(h)  == \A k \in Keys : Len(h[k]) <= Len(h'[k])
Fresh(m, h) == \A k \in Keys : m'[k] = m[k] \/ m'[k] > Len(h[k])
HeapGrows ==
  /\ Grows(execChans) /\ Grows(killChans) /\ Grows(waitGroups)
  /\ Fresh(execChan, execChans) /\ Fresh(killChan, killChans)

LEMMA HeapSame ==
  ASSUME StateOK, UNCHANGED <<execChans, killChans, waitGroups, execChan, killChan>>
  PROVE  HeapGrows
<1>1. \A k \in Keys : Len(execChans[k]) \in Nat /\ Len(killChans[k]) \in Nat /\ Len(waitGroups[k]) \in Nat
  BY Indices
<1> QED BY <1>1 DEF HeapGrows, Grows, Fresh

(* At most one channel or counter of a heap is replaced.                       *)
Edited(h) == h' = h \/ \E k, i, v : h' = [h EXCEPT ![k][i] = v]

LEMMA HeapEdited ==
  ASSUME StateOK, UNCHANGED <<execChan, killChan>>,
         Edited(execChans), Edited(killChans), Edited(waitGroups)
  PROVE  HeapGrows
<1>1. \A k \in Keys : Len(execChans[k]) \in Nat /\ Len(killChans[k]) \in Nat /\ Len(waitGroups[k]) \in Nat
  BY Indices
<1>2. /\ execChans \in [Keys -> Seq(Chan)] /\ killChans \in [Keys -> Seq(Chan)]
      /\ waitGroups \in [Keys -> Seq(Int)]
  BY DEF StateOK
<1>3. \A k \in Keys : Len(execChans'[k]) = Len(execChans[k])
  <2>1. CASE execChans' # execChans
    <3>1. PICK k, i, v : execChans' = [execChans EXCEPT ![k][i] = v]
      BY <2>1 DEF Edited
    <3> QED BY <1>2, <3>1, ExceptLen
  <2> QED BY <2>1
<1>4. \A k \in Keys : Len(killChans'[k]) = Len(killChans[k])
  <2>1. CASE killChans' # killChans
    <3>1. PICK k, i, v : killChans' = [killChans EXCEPT ![k][i] = v]
      BY <2>1 DEF Edited
    <3> QED BY <1>2, <3>1, ExceptLen
  <2> QED BY <2>1
<1>5. \A k \in Keys : Len(waitGroups'[k]) = Len(waitGroups[k])
  <2>1. CASE waitGroups' # waitGroups
    <3>1. PICK k, i, v : waitGroups' = [waitGroups EXCEPT ![k][i] = v]
      BY <2>1 DEF Edited
    <3> QED BY <1>2, <3>1, ExceptLen
  <2> QED BY <2>1
<1> QED BY <1>1, <1>3, <1>4, <1>5 DEF HeapGrows, Grows, Fresh

LEMMA StartGrows ==
  ASSUME StateOK, IndexOK, NEW e \in Runs, ExecStart(e)
  PROVE  HeapGrows
<1> DEFINE k == exec[e].key
           wgs == IF NoWaitGroup(k) THEN Append(waitGroups[k], 0) ELSE waitGroups[k]
           w == IF NoWaitGroup(k) THEN Len(wgs) ELSE waitExec[k]
<1>1. k \in Keys /\ UNCHANGED <<killChan, killChans>>
  BY Indices DEF ExecStart
<1>2. \A j \in Keys : /\ execChans[j] \in Seq(Chan) /\ waitGroups[j] \in Seq(Int)
                      /\ Len(execChans[j]) \in Nat /\ Len(killChans[j]) \in Nat
                      /\ Len(waitGroups[j]) \in Nat
  BY Indices DEF StateOK
<1>3. \A j \in Keys : j # k => /\ execChan'[j] = execChan[j] /\ execChans'[j] = execChans[j]
                               /\ waitGroups'[j] = waitGroups[j]
  BY DEF StateOK, ExecStart
<1>4. \/ execChan'[k] = execChan[k] /\ execChans'[k] = execChans[k]
      \/ execChan'[k] = Len(execChans[k]) + 1 /\ execChans'[k] = Append(execChans[k], NewChan)
  BY <1>1 DEF StateOK, ExecStart
<1>5. waitGroups'[k] = [wgs EXCEPT ![w] = wgs[w] + 1]
  BY <1>1 DEF StateOK, ExecStart
<1>6. wgs \in Seq(Int) /\ Len(waitGroups[k]) <= Len(wgs)
  BY <1>1, <1>2, AppendProperties
<1>7. Len(waitGroups'[k]) = Len(wgs)
  <2> HIDE DEF wgs, w
  <2>1. DOMAIN [wgs EXCEPT ![w] = wgs[w] + 1] = 1..Len(wgs) /\ Len(wgs) \in Nat
    BY <1>6
  <2> QED BY <1>5, <2>1
<1>8. NewChan \in Chan
  BY DEF NewChan, Chan
<1>9. Len(execChans[k]) <= Len(execChans'[k])
  BY <1>1, <1>2, <1>4, <1>8, AppendProperties
<1> HIDE DEF k, wgs, w
<1>10. Grows(execChans) /\ Grows(waitGroups)
  BY <1>2, <1>3, <1>6, <1>7, <1>9 DEF Grows
<1>11. Grows(killChans) /\ Fresh(killChan, killChans)
  BY <1>1, <1>2 DEF Grows, Fresh
<1>12. Fresh(execChan, execChans)
  BY <1>1, <1>2, <1>3, <1>4 DEF Fresh
<1> QED BY <1>10, <1>11, <1>12 DEF HeapGrows

LEMMA MakeGrows ==
  ASSUME StateOK, NEW g \in Killers, KillMake(g)
  PROVE  HeapGrows
<1> DEFINE k == kill[g].key
<1>1. k \in Keys /\ UNCHANGED <<execChan, execChans, waitGroups>>
  BY Indices DEF KillMake
<1>2. \A j \in Keys : /\ killChans[j] \in Seq(Chan) /\ Len(execChans[j]) \in Nat
                      /\ Len(killChans[j]) \in Nat /\ Len(waitGroups[j]) \in Nat
  BY Indices DEF StateOK
<1>3. NewChan \in Chan
  BY DEF NewChan, Chan
<1>4. /\ \A j \in Keys : j # k => killChan'[j] = killChan[j] /\ killChans'[j] = killChans[j]
      /\ killChan'[k] = Len(killChans[k]) + 1 /\ killChans'[k] = Append(killChans[k], NewChan)
  BY <1>1 DEF StateOK, KillMake
<1> HIDE DEF k
<1>5. Len(killChans'[k]) = Len(killChans[k]) + 1
  BY <1>1, <1>2, <1>3, <1>4, AppendProperties
<1>6. Grows(killChans) /\ Fresh(killChan, killChans)
  BY <1>1, <1>2, <1>4, <1>5 DEF Grows, Fresh
<1> QED BY <1>1, <1>2, <1>6 DEF HeapGrows, Grows, Fresh

LEMMA EngineGrows ==
  ASSUME StateOK, IndexOK, EngineStep
  PROVE  HeapGrows
<1> USE DEF maps, heap
<1>1. ASSUME NEW e \in Runs, Acquire(e) PROVE HeapGrows
  BY <1>1, HeapEdited DEF Acquire, Edited
<1>2. ASSUME NEW e \in Runs, RecvKill(e) PROVE HeapGrows
  BY <1>2, HeapEdited DEF RecvKill, Edited
<1>3. ASSUME NEW e \in Runs, Release(e) PROVE HeapGrows
  BY <1>3, HeapEdited DEF Release, Edited
<1>4. ASSUME NEW g \in Killers, KillSend(g) PROVE HeapGrows
  BY <1>4, HeapEdited DEF KillSend, Edited
<1>5. ASSUME NEW e \in Runs, NEW k \in Keys, ExecCheck(e, k) PROVE HeapGrows
  BY <1>5, HeapSame DEF ExecCheck
<1>6. ASSUME NEW e \in Runs, Progress(e) \/ EndsByItself(e) PROVE HeapGrows
  BY <1>1, <1>2, <1>3, <1>6, HeapSame
     DEF Progress, EndsByItself, LookupExecChan, Begin, SilentFailure, StartFails, StartCommand,
         CommandTimesOut, CommandFails, CommandSucceeds, ReturnFromCommand, Succeed, SucceedView,
         CommonLock
<1>7. ASSUME NEW g \in Killers, KillGoroutine(g) PROVE HeapGrows
  BY <1>4, <1>7, MakeGrows, HeapSame DEF KillGoroutine, KillCheck, KillLookup
<1>8. ASSUME NEW g \in Killers, NEW k \in Keys, NEW n \in KillArgs, KillRequest(g, k, n) PROVE HeapGrows
  BY <1>8, HeapSame DEF KillRequest
<1>9. ASSUME NEW k \in Keys, (\E n \in Seqs : DelJobExecution(k, n)) \/ Evict(k) PROVE HeapGrows
  BY <1>9, HeapSame DEF DelJobExecution, Evict
<1> QED BY <1>5, <1>6, <1>7, <1>8, <1>9, StartGrows DEF EngineStep

-----------------------------------------------------------------------------
(* What was made stays made.                                                   *)
LEMMA Domains ==
  ASSUME StateOK, StateOK', HeapGrows, NEW k \in Keys
  PROVE  /\ DOMAIN execChans[k] \subseteq DOMAIN execChans'[k]
         /\ DOMAIN killChans[k] \subseteq DOMAIN killChans'[k]
         /\ DOMAIN waitGroups[k] \subseteq DOMAIN waitGroups'[k]
<1>1. /\ execChans[k] \in Seq(Chan) /\ execChans'[k] \in Seq(Chan)
      /\ killChans[k] \in Seq(Chan) /\ killChans'[k] \in Seq(Chan)
      /\ waitGroups[k] \in Seq(Int) /\ waitGroups'[k] \in Seq(Int)
  BY DEF StateOK
<1>2. /\ DOMAIN execChans[k] = 1..Len(execChans[k]) /\ DOMAIN execChans'[k] = 1..Len(execChans'[k])
      /\ DOMAIN killChans[k] = 1..Len(killChans[k]) /\ DOMAIN killChans'[k] = 1..Len(killChans'[k])
      /\ DOMAIN waitGroups[k] = 1..Len(waitGroups[k]) /\ DOMAIN waitGroups'[k] = 1..Len(waitGroups'[k])
  BY <1>1
<1>3. /\ Len(execChans[k]) \in Nat /\ Len(execChans'[k]) \in Nat
      /\ Len(killChans[k]) \in Nat /\ Len(killChans'[k]) \in Nat
      /\ Len(waitGroups[k]) \in Nat /\ Len(waitGroups'[k]) \in Nat
  BY <1>1
<1>4. /\ Len(execChans[k]) <= Len(execChans'[k])
      /\ Len(killChans[k]) <= Len(killChans'[k])
      /\ Len(waitGroups[k]) <= Len(waitGroups'[k])
  BY DEF HeapGrows, Grows
<1> QED BY <1>2, <1>3, <1>4

(* Goroutines of delJob stay typed when none of them moves, and when one moves.*)
LEMMA DelTypedSame ==
  ASSUME EngineTyped, StateOK', HeapGrows, DelTyped, UNCHANGED <<del, drain>>
  PROVE  DelTyped'
<1>1. \A d \in Deleters : /\ del[d].pc = "wait" => del[d].key \in Keys
                          /\ drain[d].pc = "recv" => drain[d].key \in Keys
  BY DEF DelTyped, DelState, DrainState
<1> QED BY <1>1, Domains DEF DelTyped, EngineTyped

LEMMA DelTypedGoes ==
  ASSUME EngineTyped, StateOK', HeapGrows, DelTyped, NEW d \in Deleters,
         NEW r \in DelState, DGoes(d, r), r.pc = "wait" => r.wait \in DOMAIN waitGroups'[r.key],
         \/ UNCHANGED drain
         \/ \E q \in DrainState : /\ DrainTo(d, q)
                                  /\ q.pc = "recv" => q.chan \in DOMAIN killChans'[q.key]
  PROVE  DelTyped'
<1>1. \A f \in Deleters : /\ del[f].pc = "wait" => del[f].key \in Keys
                          /\ drain[f].pc = "recv" => drain[f].key \in Keys
  BY DEF DelTyped, DelState, DrainState
<1>2. del'[d] = r /\ (\A f \in Deleters : f # d => del'[f] = del[f]) /\ del' \in [Deleters -> DelState]
  BY DEF DGoes, DelTyped
<1>3. \A f \in Deleters : del'[f].pc = "wait" => del'[f].wait \in DOMAIN waitGroups'[del'[f].key]
  BY <1>1, <1>2, Domains DEF DelTyped, EngineTyped
<1>4. /\ drain' \in [Deleters -> DrainState]
      /\ \A f \in Deleters : drain'[f].pc = "recv" => drain'[f].chan \in DOMAIN killChans'[drain'[f].key]
  <2>1. CASE UNCHANGED drain
    BY <1>1, <2>1, Domains DEF DelTyped, EngineTyped
  <2>2. ASSUME NEW q \in DrainState, DrainTo(d, q), q.pc = "recv" => q.chan \in DOMAIN killChans'[q.key]
        PROVE  <1>4
    <3>1. drain'[d] = q /\ (\A f \in Deleters : f # d => drain'[f] = drain[f])
          /\ drain' \in [Deleters -> DrainState]
      BY <2>2 DEF DrainTo, DelTyped
    <3> QED BY <1>1, <2>2, <3>1, Domains DEF DelTyped, EngineTyped
  <2> QED BY <2>1, <2>2
<1> QED BY <1>2, <1>3, <1>4 DEF DelTyped

LEMMA DrainTyped ==
  ASSUME EngineTyped, StateOK', HeapGrows, DelTyped, NEW d \in Deleters, UNCHANGED del,
         NEW q \in DrainState, DrainTo(d, q), q.pc = "recv" => q.chan \in DOMAIN killChans'[q.key]
  PROVE  DelTyped'
<1>1. \A f \in Deleters : /\ del[f].pc = "wait" => del[f].key \in Keys
                          /\ drain[f].pc = "recv" => drain[f].key \in Keys
  BY DEF DelTyped, DelState, DrainState
<1>2. drain'[d] = q /\ (\A f \in Deleters : f # d => drain'[f] = drain[f])
      /\ drain' \in [Deleters -> DrainState]
  BY DEF DrainTo, DelTyped
<1> QED BY <1>1, <1>2, Domains DEF DelTyped, EngineTyped

(* Channels stay closed, and a channel that is made now is another.            *)
LEMMA ClosedSame ==
  ASSUME EngineTyped, StateOK', HeapGrows, ClosedTyped, NeverClosedTwice, UNCHANGED closed
  PROVE  ClosedTyped' /\ NeverClosedTwice'
<1>1. ClosedTyped'
  BY Domains DEF ClosedTyped, EngineTyped
<1>2. ASSUME NEW k \in Keys
      PROVE  killChan'[k] \notin closed[k].kill /\ execChan'[k] \notin closed[k].exec
  <2>1. killChans[k] \in Seq(Chan) /\ execChans[k] \in Seq(Chan)
    BY DEF EngineTyped, StateOK
  <2>2. \A c \in closed[k].kill : c <= Len(killChans[k]) /\ c \in Nat
    BY <2>1 DEF ClosedTyped
  <2>3. \A c \in closed[k].exec : c <= Len(execChans[k]) /\ c \in Nat
    BY <2>1 DEF ClosedTyped
  <2>4. Len(killChans[k]) \in Nat /\ Len(execChans[k]) \in Nat
    BY <2>1
  <2>5. killChan'[k] = killChan[k] \/ killChan'[k] > Len(killChans[k])
    BY DEF HeapGrows, Fresh
  <2>6. execChan'[k] = execChan[k] \/ execChan'[k] > Len(execChans[k])
    BY DEF HeapGrows, Fresh
  <2>7. killChan[k] \notin closed[k].kill /\ execChan[k] \notin closed[k].exec
    BY DEF NeverClosedTwice
  <2>8. killChan'[k] \in Nat /\ execChan'[k] \in Nat
    BY DEF StateOK
  <2> QED BY <2>2, <2>3, <2>4, <2>5, <2>6, <2>7, <2>8
<1> QED BY <1>1, <1>2 DEF NeverClosedTwice

LEMMA EngineKeeps ==
  ASSUME AnyClients, EngineStep
  PROVE  AnyClients'
<1>1. EngineTyped'
  BY EngineIsNext, StepType, StepIndex DEF AnyClients, EngineTyped
<1>2. HeapGrows
  BY EngineGrows DEF AnyClients, EngineTyped
<1>3. Locked'
  BY EngineIsNext, StepLock DEF AnyClients, Locked
<1>4. UNCHANGED <<files, closed, del, drain>>
  BY DEF EngineStep, Rest
<1> QED BY <1>1, <1>2, <1>3, <1>4, DelTypedSame, ClosedSame DEF AnyClients, EngineTyped

-----------------------------------------------------------------------------
(* What is left of a step of delJob, of its goroutine and of createJob when    *)
(* the engine's part of it is known to be typed.                               *)
LEMMA OwnStep ==
  ASSUME AnyClients, EngineTyped', HeapGrows, Locked', files' \subseteq Keys, UNCHANGED closed, DelTyped'
  PROVE  AnyClients'
  BY ClosedSame DEF AnyClients, EngineTyped

LEMMA SameEngine ==
  ASSUME AnyClients, UNCHANGED <<vars>>
  PROVE  EngineTyped' /\ HeapGrows /\ Locked'
<1> USE DEF vars, maps, heap, db
<1>1. EngineTyped'
  BY StepType, StepIndex DEF AnyClients, EngineTyped
<1>2. HeapGrows
  BY HeapSame DEF AnyClients, EngineTyped
<1> QED BY <1>1, <1>2 DEF AnyClients, Locked

(* IndexOK and the heap do not see the other variables.                        *)
LEMMA SameIndex ==
  ASSUME AnyClients, UNCHANGED <<maps, heap, exec, kill, accessLock>>
  PROVE  IndexOK' /\ HeapGrows /\ Locked'
<1> USE DEF maps, heap
<1>1. IndexOK'
  BY DEF AnyClients, EngineTyped, IndexOK
<1>2. HeapGrows
  BY HeapSame DEF AnyClients, EngineTyped
<1> QED BY <1>1, <1>2 DEF AnyClients, Locked

LEMMA CreateKeeps ==
  ASSUME AnyClients, NEW k \in Keys, CreateJob(k)
  PROVE  AnyClients'
<1> USE DEF maps, heap, db
<1>1. IndexOK' /\ HeapGrows /\ Locked'
  BY SameIndex DEF CreateJob
<1>2. StateOK'
  BY DEF AnyClients, EngineTyped, StateOK, CreateJob
<1>3. files' \subseteq Keys /\ UNCHANGED <<closed, del, drain>>
  BY DEF AnyClients, CreateJob
<1>4. DelTyped'
  BY <1>1, <1>2, <1>3, DelTypedSame DEF AnyClients
<1> QED BY <1>1, <1>2, <1>3, <1>4, OwnStep DEF EngineTyped

LEMMA AskKeeps ==
  ASSUME AnyClients, NEW d \in Deleters, NEW g \in Killers, NEW k \in Keys, DelJob(d, g, k)
  PROVE  AnyClients'
<1> USE DEF maps, heap, db
<1> DEFINE q == [pc |-> "check", key |-> k, seq |-> EXEC_KILL_ALL, chan |-> 0]
           r == [pc |-> "check", key |-> k, wait |-> 0]
<1>1. kill' = [kill EXCEPT ![g] = q] /\ q \in KillState
  BY DEF DelJob, KGoes, KillState, EXEC_KILL_ALL
<1>2. job' \in [Keys -> [Seqs -> Row \cup {None}]]
  <2>1. \A n \in Seqs : job[k][n] # None => [job[k][n] EXCEPT !.cancelled = EXEC_CANCELLED] \in Row
    <3>1. \A r0 \in Row : [r0 EXCEPT !.cancelled = EXEC_CANCELLED] \in Row
      BY DEF Row, EXEC_CANCELLED
    <3>2. \A n \in Seqs : job[k][n] \in Row \cup {None}
      BY DEF AnyClients, EngineTyped, StateOK
    <3> QED BY <3>1, <3>2
  <2>2. [n \in Seqs |-> IF job[k][n] = None THEN None
                        ELSE [job[k][n] EXCEPT !.cancelled = EXEC_CANCELLED]] \in [Seqs -> Row \cup {None}]
    BY <2>1
  <2> QED BY <2>2 DEF DelJob, AnyClients, EngineTyped, StateOK
<1>3. StateOK'
  BY <1>1, <1>2 DEF AnyClients, EngineTyped, StateOK, DelJob
<1>4. IndexOK'
  BY <1>1 DEF AnyClients, EngineTyped, StateOK, IndexOK, DelJob
<1>5. HeapGrows
  BY HeapSame DEF AnyClients, EngineTyped, DelJob
<1>6. r \in DelState /\ DGoes(d, r) /\ r.pc # "wait"
  BY DEF DelState, DelJob
<1>7. UNCHANGED <<files, closed, drain, accessLock>>
  BY DEF DelJob
<1> HIDE DEF r, q
<1>8. DelTyped'
  BY <1>3, <1>5, <1>6, <1>7, DelTypedGoes DEF AnyClients
<1> QED BY <1>3, <1>4, <1>5, <1>7, <1>8, OwnStep DEF AnyClients, EngineTyped, Locked

(* A goroutine of delJob that goes to another place stays typed.               *)
LEMMA PlaceTyped ==
  ASSUME DelTyped, NEW d \in Deleters
  PROVE  /\ IdleDel \in DelState /\ IdleDel.pc = "idle"
         /\ IdleDrain \in DrainState /\ IdleDrain.pc = "idle"
         /\ del[d].pc # "idle" => del[d].key \in Keys
         /\ drain[d].pc # "idle" => drain[d].key \in Keys
         /\ del[d].pc # "idle" =>
              \A p \in {"lookup", "records", "files", "remove", "close"} :
                LET r == [del[d] EXCEPT !.pc = p] IN r \in DelState /\ r.pc = p /\ r.key = del[d].key
  BY DEF DelTyped, DelState, DrainState, IdleDel, IdleDrain

(* The steps of delJob that change nothing the engine has.                     *)
LEMMA QuietKeeps ==
  ASSUME AnyClients, NEW d \in Deleters,
         DelCheck(d) \/ DelLookup(d) \/ DelWait(d) \/ DelFiles(d) \/ DelFails(d)
  PROVE  AnyClients'
<1>1. UNCHANGED <<vars, closed, drain>> /\ files' \subseteq Keys
  BY DEF DelCheck, DelLookup, DelWait, DelFiles, DelFails, AnyClients
<1>2. EngineTyped' /\ HeapGrows /\ Locked'
  BY <1>1, SameEngine
<1>3. del[d].pc # "idle"
  BY DEF DelCheck, DelLookup, DelWait, DelFiles, DelFails, At
<1>4. ASSUME NEW r \in DelState, DGoes(d, r), r.pc # "wait" PROVE DelTyped'
  BY <1>1, <1>2, <1>4, DelTypedGoes DEF AnyClients, EngineTyped
<1>5. ASSUME NEW p \in {"lookup", "records", "files", "remove", "close"}, DelTo(d, p) PROVE DelTyped'
  BY <1>3, <1>4, <1>5, PlaceTyped DEF DelTo, AnyClients
<1>6. ASSUME DGoes(d, IdleDel) PROVE DelTyped'
  BY <1>4, <1>6, PlaceTyped DEF AnyClients
<1>7. ASSUME DelLookup(d) PROVE DelTyped'
  <2> DEFINE k == del[d].key
             w == waitExec[k]
             r == [del[d] EXCEPT !.pc = "wait", !.wait = w]
  <2>1. k \in Keys /\ w \in Nat /\ w <= Len(waitGroups[k]) /\ waitGroups[k] \in Seq(Int)
    BY <1>3, PlaceTyped DEF AnyClients, EngineTyped, IndexOK, StateOK
  <2>2. CASE w = 0
    <3>1. DGoes(d, IdleDel)
      BY <1>7, <2>2 DEF DelLookup, DGoes
    <3> QED BY <1>6, <3>1
  <2>3. CASE w # 0
    <3>1. DGoes(d, r) /\ UNCHANGED waitGroups
      BY <1>1, <1>7, <2>3 DEF DelLookup, DGoes, vars, heap
    <3>2. r \in DelState /\ r.wait = w /\ r.key = k
      BY <1>3, <2>1 DEF AnyClients, DelTyped, DelState
    <3>3. w \in DOMAIN waitGroups[k]
      BY <2>1, <2>3
    <3> HIDE DEF r, k, w
    <3>4. r.wait \in DOMAIN waitGroups'[r.key]
      BY <3>1, <3>2, <3>3
    <3>5. EngineTyped /\ StateOK' /\ HeapGrows /\ DelTyped /\ UNCHANGED drain
      BY <1>1, <1>2 DEF AnyClients, EngineTyped
    <3> QED BY <3>1, <3>2, <3>4, <3>5, DelTypedGoes
  <2> QED BY <2>2, <2>3
<1>8. ASSUME DelCheck(d) PROVE DelTyped'
  <2>1. DelTo(d, "records") \/ DelTo(d, "lookup")
    BY <1>8 DEF DelCheck, DelTo, DGoes
  <2> QED BY <1>5, <2>1
<1>9. ASSUME DelWait(d) \/ DelFiles(d) \/ DelFails(d) PROVE DelTyped'
  <2>1. DelTo(d, "records") \/ DelTo(d, "remove") \/ DGoes(d, IdleDel)
    BY <1>9 DEF DelWait, DelFiles, DelFails
  <2> QED BY <1>5, <1>6, <2>1
<1>10. DelTyped'
  BY <1>7, <1>8, <1>9
<1> QED BY <1>1, <1>2, <1>10, OwnStep

LEMMA RecordsKeeps ==
  ASSUME AnyClients, NEW d \in Deleters, DelRecords(d)
  PROVE  AnyClients'
<1> USE DEF maps, heap, db
<1>1. IndexOK' /\ HeapGrows /\ Locked'
  BY SameIndex DEF DelRecords
<1>2. StateOK'
  <2>1. [n \in Seqs |-> None] \in [Seqs -> Row \cup {None}]
    OBVIOUS
  <2>2. job' \in [Keys -> [Seqs -> Row \cup {None}]]
    BY <2>1 DEF AnyClients, EngineTyped, StateOK, DelRecords
  <2>3. jobView' \in [Keys -> {EXEC_SUCCESS, EXEC_FAILURE, EXEC_NONE}]
    BY DEF AnyClients, EngineTyped, StateOK, DelRecords, DelTo
  <2> QED BY <2>2, <2>3 DEF AnyClients, EngineTyped, StateOK, DelRecords
<1>3. UNCHANGED <<files, closed, drain>> /\ del[d].pc # "idle"
  BY DEF DelRecords, At
<1>4. DelTyped'
  <2>1. DelTo(d, "files") \/ DGoes(d, IdleDel)
    BY DEF DelRecords
  <2>2. \E r \in DelState : DGoes(d, r) /\ r.pc # "wait"
    BY <1>3, <2>1, PlaceTyped DEF AnyClients, DelTo
  <2> QED BY <1>1, <1>2, <1>3, <2>2, DelTypedGoes DEF AnyClients
<1> QED BY <1>1, <1>2, <1>3, <1>4, OwnStep DEF AnyClients, EngineTyped

LEMMA RemoveKeeps ==
  ASSUME AnyClients, NEW d \in Deleters, DelRemove(d)
  PROVE  AnyClients'
<1> USE DEF maps, heap, db
<1> DEFINE q == [pc |-> "lookup", key |-> del[d].key, chan |-> 0]
<1>1. IndexOK' /\ HeapGrows /\ Locked'
  BY SameIndex DEF DelRemove
<1>2. StateOK'
  BY DEF AnyClients, EngineTyped, StateOK, DelRemove
<1>3. UNCHANGED <<files, closed>> /\ del[d].pc # "idle" /\ DelTo(d, "close") /\ DrainTo(d, q)
  BY DEF DelRemove, At
<1>4. q \in DrainState /\ q.pc # "recv"
  BY <1>3, PlaceTyped DEF AnyClients, DrainState
<1> HIDE DEF q
<1>5. \E r \in DelState : DGoes(d, r) /\ r.pc # "wait"
  BY <1>3, PlaceTyped DEF AnyClients, DelTo
<1>6. DelTyped'
  BY <1>1, <1>2, <1>3, <1>4, <1>5, DelTypedGoes DEF AnyClients
<1> QED BY <1>1, <1>2, <1>3, <1>6, OwnStep DEF AnyClients, EngineTyped

(* delJob closes what the maps hold, and the maps forget it.                   *)
LEMMA CloseKeeps ==
  ASSUME AnyClients, NEW d \in Deleters, DelClose(d)
  PROVE  AnyClients'
<1> USE DEF maps, heap, db
<1> DEFINE k == del[d].key
<1>1. /\ del[d].pc # "idle" /\ k \in Keys /\ DGoes(d, IdleDel)
      /\ UNCHANGED <<server, cached, heap, db, exec, kill, files, drain>>
  BY PlaceTyped DEF DelClose, At, AnyClients
<1>2. CASE killChan[k] = 0
  <2>1. UNCHANGED <<seqNo, maps, closed>> /\ accessLock' = d
    BY <1>2 DEF DelClose
  <2>2. StateOK' /\ IndexOK'
    BY <1>1, <2>1 DEF AnyClients, EngineTyped, StateOK, IndexOK
  <2>3. HeapGrows
    BY <1>1, <2>1, HeapSame DEF AnyClients, EngineTyped
  <2>4. DelTyped'
    BY <1>1, <2>2, <2>3, PlaceTyped, DelTypedGoes DEF AnyClients, EngineTyped
  <2> QED BY <1>1, <2>1, <2>2, <2>3, <2>4, OwnStep DEF AnyClients, EngineTyped, Locked
<1>3. CASE killChan[k] # 0
  <2>1. /\ closed' = [closed EXCEPT ![k] =
                        [exec |-> @.exec \cup Closes(k).exec, kill |-> @.kill \cup Closes(k).kill]]
        /\ seqNo' = [seqNo EXCEPT ![k] = 0]
        /\ execChan' = [execChan EXCEPT ![k] = 0]
        /\ killChan' = [killChan EXCEPT ![k] = 0]
        /\ waitExec' = [waitExec EXCEPT ![k] = 0]
        /\ UNCHANGED accessLock
    BY <1>3 DEF DelClose, DropEntry
  <2>2. StateOK'
    BY <1>1, <2>1 DEF AnyClients, EngineTyped, StateOK
  <2>3. IndexOK'
    <3>1. \A j \in Keys : /\ Len(killChans[j]) \in Nat /\ Len(execChans[j]) \in Nat
                          /\ Len(waitGroups[j]) \in Nat
      BY Indices DEF AnyClients, EngineTyped
    <3> QED BY <1>1, <2>1, <3>1 DEF AnyClients, EngineTyped, StateOK, IndexOK
  <2>4. \A j \in Keys : Len(killChans'[j]) = Len(killChans[j]) /\ Len(execChans'[j]) = Len(execChans[j])
    BY <1>1
  <2>5. DelTyped'
    <3>1. \A f \in Deleters : del'[f] = del[f] \/ del'[f] = IdleDel
      BY <1>1 DEF DGoes, AnyClients, DelTyped
    <3>2. del' \in [Deleters -> DelState]
      BY <1>1, PlaceTyped DEF DGoes, AnyClients, DelTyped
    <3>3. UNCHANGED <<drain, waitGroups, killChans>> /\ IdleDel.pc = "idle"
      BY <1>1 DEF IdleDel
    <3> QED BY <3>1, <3>2, <3>3 DEF AnyClients, DelTyped
  <2>6. /\ execChans[k] \in Seq(Chan) /\ killChans[k] \in Seq(Chan)
        /\ execChan[k] \in 0..Len(execChans[k]) /\ killChan[k] \in 1..Len(killChans[k])
    BY <1>1, <1>3, Indices DEF AnyClients, EngineTyped, StateOK, IndexOK
  <2>7. /\ Closes(k).exec \in SUBSET Nat /\ Closes(k).exec \subseteq DOMAIN execChans[k]
        /\ Closes(k).kill \in SUBSET Nat /\ Closes(k).kill \subseteq DOMAIN killChans[k]
    BY <2>6 DEF Closes
  <2> HIDE DEF k
  <2>8. /\ \A j \in Keys : j # k => closed'[j] = closed[j]
        /\ closed'[k].exec = closed[k].exec \cup Closes(k).exec
        /\ closed'[k].kill = closed[k].kill \cup Closes(k).kill
        /\ closed' \in [Keys -> [exec : SUBSET Nat, kill : SUBSET Nat]]
    BY <1>1, <2>1, <2>7 DEF AnyClients, ClosedTyped
  <2>9. ClosedTyped'
    BY <1>1, <2>7, <2>8 DEF AnyClients, ClosedTyped
  <2>10. NeverClosedTwice'
    <3>1. \A j \in Keys : 0 \notin closed'[j].kill /\ 0 \notin closed'[j].exec
      <4>1. \A j \in Keys : 0 \notin DOMAIN killChans'[j] /\ 0 \notin DOMAIN execChans'[j]
        BY <2>2 DEF StateOK
      <4> QED BY <2>9, <4>1 DEF ClosedTyped
    <3>2. killChan'[k] = 0 /\ execChan'[k] = 0
      BY <1>1, <2>1 DEF AnyClients, EngineTyped, StateOK
    <3>3. \A j \in Keys : j # k => killChan'[j] = killChan[j] /\ execChan'[j] = execChan[j]
      BY <2>1 DEF AnyClients, EngineTyped, StateOK
    <3> QED BY <2>8, <3>1, <3>2, <3>3 DEF AnyClients, NeverClosedTwice
  <2> QED BY <1>1, <2>1, <2>2, <2>3, <2>5, <2>9, <2>10 DEF AnyClients, EngineTyped, Locked
<1> QED BY <1>2, <1>3

(* The goroutine of delJob that receives from KillExecChan.                    *)
LEMMA DrainKeeps ==
  ASSUME AnyClients, NEW d \in Deleters, DrainSteps(d)
  PROVE  AnyClients'
<1> USE DEF maps, heap, db
<1>1. drain[d].pc # "idle" /\ drain[d].key \in Keys /\ UNCHANGED <<files, closed, del>>
  BY PlaceTyped DEF AnyClients, DrainSteps, DrainLookup, DrainRecv
<1>2. CASE DrainLookup(d)
  <2> DEFINE k == drain[d].key
             c == killChan[k]
             q == [drain[d] EXCEPT !.pc = "recv", !.chan = c]
  <2>1. UNCHANGED vars
    BY <1>2 DEF DrainLookup
  <2>2. EngineTyped' /\ HeapGrows /\ Locked'
    BY <2>1, SameEngine
  <2>3. (c = 0 /\ DrainTo(d, IdleDrain)) \/ (c # 0 /\ DrainTo(d, q))
    BY <1>2 DEF DrainLookup, DrainTo
  <2>4. c \in Nat /\ c <= Len(killChans[k]) /\ killChans[k] \in Seq(Chan)
    BY <1>1 DEF AnyClients, EngineTyped, IndexOK, StateOK
  <2>5. q \in DrainState /\ q.key = k /\ q.chan = c
    BY <1>1, <2>4 DEF AnyClients, DelTyped, DrainState
  <2>6. c # 0 => c \in DOMAIN killChans[k]
    BY <2>4
  <2>7. killChans' = killChans
    BY <2>1 DEF vars
  <2> HIDE DEF k, c, q
  <2>8. \E x \in DrainState : DrainTo(d, x) /\ (x.pc = "recv" => x.chan \in DOMAIN killChans'[x.key])
    BY <2>3, <2>5, <2>6, <2>7, PlaceTyped DEF AnyClients
  <2>9. DelTyped'
    BY <1>1, <2>2, <2>8, DrainTyped DEF AnyClients, EngineTyped
  <2> QED BY <1>1, <2>2, <2>9, OwnStep DEF AnyClients
<1>3. CASE DrainRecv(d)
  <2> DEFINE k == drain[d].key
             c == drain[d].chan
  <2>1. /\ UNCHANGED <<server, accessLock, cached, seqNo, maps, execChans, waitGroups, db, exec, kill>>
        /\ DrainTo(d, IdleDrain)
        /\ \/ killChans' = killChans
           \/ CanRecv(killChans[k][c]) /\ killChans' = [killChans EXCEPT ![k][c] = Drained(killChans[k][c])]
    BY <1>3 DEF DrainRecv
  <2>2. c \in 1..Len(killChans[k]) /\ killChans[k] \in Seq(Chan)
    <3>1. c \in DOMAIN killChans[k]
      BY <1>3 DEF DrainRecv, AnyClients, DelTyped
    <3>2. killChans[k] \in Seq(Chan)
      BY <1>1 DEF AnyClients, EngineTyped, StateOK
    <3> QED BY <3>1, <3>2
  <2>3. killChans' \in [Keys -> Seq(Chan)] /\ \A j \in Keys : Len(killChans'[j]) = Len(killChans[j])
    <3>1. CASE killChans' = killChans
      BY <3>1 DEF AnyClients, EngineTyped, StateOK
    <3>2. CASE CanRecv(killChans[k][c]) /\ killChans' = [killChans EXCEPT ![k][c] = Drained(killChans[k][c])]
      <4>1. killChans[k][c] \in Seq(Int) /\ killChans[k][c] # <<>>
        BY <2>2, <3>2 DEF Chan, CanRecv
      <4>2. Drained(killChans[k][c]) \in Chan
        BY <4>1 DEF Chan, Drained
      <4>3. killChans \in [Keys -> Seq(Chan)]
        BY DEF AnyClients, EngineTyped, StateOK
      <4> HIDE DEF k, c
      <4> QED BY <1>1, <2>2, <3>2, <4>2, <4>3, ExceptHeap DEF k
    <3> QED BY <2>1, <3>1, <3>2
  <2>4. StateOK' /\ IndexOK'
    BY <2>1, <2>3 DEF AnyClients, EngineTyped, StateOK, IndexOK, RunState, KillState
  <2>5. HeapGrows
    BY <2>1, HeapEdited DEF AnyClients, EngineTyped, Edited
  <2>6. DelTyped'
    BY <1>1, <2>1, <2>4, <2>5, PlaceTyped, DrainTyped DEF AnyClients
  <2> QED BY <1>1, <2>1, <2>4, <2>5, <2>6, OwnStep DEF AnyClients, EngineTyped, Locked
<1> QED BY <1>2, <1>3 DEF DrainSteps

(* A closed channel is received from, a panic ends the server, and a restart   *)
(* forgets everything that is not on the disk.                                 *)
LEMMA RecvClosedKeeps ==
  ASSUME AnyClients, NEW e \in Runs, RecvClosed(e)
  PROVE  AnyClients'
<1> USE DEF maps, heap, db
<1> DEFINE k == exec[e].key
           r == [exec[e] EXCEPT !.chan = killChan[k]]
<1>1. exec[e].pc = "select" /\ Goes(e, r)
      /\ UNCHANGED <<server, accessLock, cached, seqNo, maps, heap, db, kill, files, closed, del, drain>>
  BY DEF RecvClosed
<1>2. k \in Keys /\ killChan[k] \in Nat /\ killChan[k] <= Len(killChans[k])
  BY <1>1, Indices DEF AnyClients, EngineTyped, IndexOK
<1>3. r \in RunState /\ r.pc = "select" /\ r.key = k /\ r.chan = killChan[k]
  BY <1>1, <1>2 DEF AnyClients, EngineTyped, StateOK, RunState
<1> HIDE DEF r
<1>4. exec' \in [Runs -> RunState] /\ exec'[e] = r /\ \A f \in Runs : f # e => exec'[f] = exec[f]
  BY <1>1, <1>3, GoesTyped DEF AnyClients, EngineTyped, StateOK
<1>5. StateOK'
  BY <1>1, <1>4 DEF AnyClients, EngineTyped, StateOK
<1>6. IndexOK'
  BY <1>1, <1>2, <1>3, <1>4 DEF AnyClients, EngineTyped, IndexOK
<1>7. HeapGrows
  BY <1>1, HeapSame DEF AnyClients, EngineTyped
<1>8. DelTyped'
  BY <1>1, <1>5, <1>7, DelTypedSame DEF AnyClients
<1> QED BY <1>1, <1>5, <1>6, <1>7, <1>8, OwnStep DEF AnyClients, EngineTyped, Locked

LEMMA PanicKeeps ==
  ASSUME AnyClients, Panic
  PROVE  AnyClients'
<1> USE DEF maps, heap, db
<1>1. IndexOK' /\ HeapGrows /\ Locked'
  BY SameIndex DEF Panic
<1>2. StateOK'
  BY DEF AnyClients, EngineTyped, StateOK, Panic
<1>3. DelTyped'
  BY <1>1, <1>2, DelTypedSame DEF AnyClients, Panic
<1> QED BY <1>1, <1>2, <1>3, OwnStep DEF AnyClients, EngineTyped, Panic

LEMMA RestartKeeps ==
  ASSUME AnyClients, DRestart
  PROVE  AnyClients'
<1>1. EngineTyped'
  BY StepType, StepIndex DEF DRestart, Next, AnyClients, EngineTyped
<1>2. Locked' /\ files' \subseteq Keys
  BY DEF DRestart, Restart, AnyClients, Locked
<1>3. DelTyped'
  BY DEF DRestart, DelTyped, DelState, DrainState, IdleDel, IdleDrain
<1>4. ClosedTyped' /\ NeverClosedTwice'
  BY DEF DRestart, Restart, ClosedTyped, NeverClosedTwice, NoClosed
<1> QED BY <1>1, <1>2, <1>3, <1>4 DEF AnyClients

LEMMA InitAnyClients == DInit => AnyClients
<1> SUFFICES ASSUME DInit PROVE AnyClients
  OBVIOUS
<1>1. EngineTyped /\ Locked
  BY InitType, InitIndex DEF DInit, Init, EngineTyped, Locked
<1>2. DelTyped
  BY DEF DInit, DelTyped, DelState, DrainState, IdleDel, IdleDrain
<1>3. ClosedTyped /\ NeverClosedTwice
  BY DEF DInit, Init, ClosedTyped, NeverClosedTwice, NoClosed
<1> QED BY <1>1, <1>2, <1>3 DEF DInit, AnyClients

LEMMA StepAnyClients == AnyClients /\ [DNext]_dvars => AnyClients'
<1> SUFFICES ASSUME AnyClients, [DNext]_dvars PROVE AnyClients'
  OBVIOUS
<1>1. CASE EngineStep
  BY <1>1, EngineKeeps
<1>2. ASSUME NEW d \in Deleters, DelSteps(d) \/ DrainSteps(d) PROVE AnyClients'
  BY <1>2, QuietKeeps, RecordsKeeps, RemoveKeeps, CloseKeeps, DrainKeeps DEF DelSteps
<1>3. CASE UNCHANGED dvars
  <2>1. EngineTyped' /\ HeapGrows /\ Locked'
    BY <1>3, SameEngine DEF dvars
  <2>2. DelTyped'
    BY <1>3, <2>1, DelTypedSame DEF AnyClients, EngineTyped, dvars
  <2> QED BY <1>3, <2>1, <2>2, OwnStep DEF AnyClients, dvars
<1> QED BY <1>1, <1>2, <1>3, EngineSteps, CreateKeeps, AskKeeps, RecvClosedKeeps, PanicKeeps, RestartKeeps
        DEF DNext, RunGoes

(* Type correctness of the deletion and the engine it works on.                *)
THEOREM DeleteTypeCorrect == DSpec => []DTypeOK
<1>1. AnyClients => DTypeOK
  BY DEF AnyClients, DTypeOK, EngineTyped, Locked, DelTyped, ClosedTyped
<1> QED BY <1>1, InitAnyClients, StepAnyClients, PTL DEF DSpec

(* Whatever clients ask for while jobs are deleted, by any number of requests  *)
(* at once, no map holds a closed channel, so none is closed twice (delJob).   *)
THEOREM ClosedOnce == DSpec => []NeverClosedTwice
<1>1. AnyClients => NeverClosedTwice
  BY DEF AnyClients
<1> QED BY <1>1, InitAnyClients, StepAnyClients, PTL DEF DSpec

-----------------------------------------------------------------------------
(* Where clients wait: a job has one deletion at a time, no execution of it is *)
(* about to be recorded meanwhile, delJob waits for the wait group the job has,*)
(* and what follows the wait finds no execution.                               *)
Alone ==
  /\ \A d1, d2 \in Deleters :
       del[d1].pc # "idle" /\ del[d2].pc # "idle" /\ del[d1].key = del[d2].key => d1 = d2
  /\ \A d \in Deleters, e \in Runs :
       del[d].pc # "idle" /\ exec[e].pc = "checked" => exec[e].key # del[d].key
  /\ \A d \in Deleters :
       del[d].pc = "wait" => del[d].wait = waitExec[del[d].key] /\ del[d].wait # 0
  /\ \A d \in Deleters :
       del[d].pc \in {"records", "files", "remove", "close"} => Busy(del[d].key) = {}

(* That, and the invariants of the engine. *)
Sound == Alone /\ GroupsOK /\ LockOK /\ SlotOK /\ TokenOwned

(* What a step of the engine does to executions and wait groups, as far as     *)
(* Alone can tell: execJob checks requests for jobs that no one deletes,       *)
(* executions come from checked requests, and so do wait groups.               *)
Calm ==
  /\ \A e \in Runs : exec'[e].pc = "checked" =>
       exec'[e] = exec[e] \/ (~Deleting(exec'[e].key) /\ ExecCheck(e, exec'[e].key))
  /\ \A e \in Runs : Alive(e)' => /\ Alive(e) \/ exec[e].pc = "checked"
                                  /\ exec'[e].key = exec[e].key
  /\ \A k \in Keys : \/ waitExec'[k] = waitExec[k]
                     \/ \E e \in Runs : exec[e].pc = "checked" /\ exec[e].key = k

LEMMA CalmSame ==
  ASSUME UNCHANGED <<exec, waitExec>>
  PROVE  Calm
  BY DEF Calm, Alive

LEMMA CalmMoved ==
  ASSUME NEW e \in Runs, Alive(e), Moved(e, RunPC) \/ (Goes(e, IdleRun) /\ StateOK), UNCHANGED waitExec
  PROVE  Calm
<1>1. \A f \in Runs : f # e => exec'[f] = exec[f]
  BY GoesOnly DEF Moved
<1>2. exec'[e].pc # "checked" /\ (Alive(e)' => exec'[e].key = exec[e].key)
  <2>1. CASE Moved(e, RunPC)
    BY <2>1 DEF Moved, RunPC
  <2>2. CASE Goes(e, IdleRun) /\ StateOK
    BY <2>2, GoesOnly DEF IdleRun, Alive, RunPC
  <2> QED BY <2>1, <2>2
<1> QED BY <1>1, <1>2 DEF Calm, Alive

LEMMA CalmProgress ==
  ASSUME StateOK, NEW e \in Runs, Progress(e) \/ EndsByItself(e)
  PROVE  Calm
<1> USE DEF maps, heap
<1>1. CASE Release(e)
  BY <1>1, CalmMoved DEF Release, Alive, RunPC
<1>2. CASE StartFails(e) \/ CommandTimesOut(e) \/ CommandFails(e)
  <2>1. exec[e].key \in Keys /\ UNCHANGED waitExec
    BY <1>2, Indices DEF StartFails, CommandTimesOut, CommandFails
  <2>2. exec[e].pc \in {"ready", "select"} /\ Moved(e, RunPC)
    BY <1>2, <2>1, CommandMoves DEF Moved, RunPC
  <2> QED BY <2>1, <2>2, CalmMoved DEF Alive, RunPC
<1>3. CASE RecvKill(e)
  <2>1. exec[e].key \in Keys /\ UNCHANGED waitExec
    BY <1>3, Indices DEF RecvKill
  <2>2. exec[e].pc = "select" /\ Moved(e, RunPC)
    BY <1>3, <2>1, KillMoves DEF Moved, RunPC
  <2> QED BY <2>1, <2>2, CalmMoved DEF Alive, RunPC
<1>4. CASE ReturnFromCommand(e)
  <2>1. exec[e].pc = "view" /\ Moved(e, RunPC) /\ UNCHANGED waitExec
    BY <1>4, ReturnMoves DEF ReturnFromCommand, Moved, RunPC
  <2> QED BY <2>1, CalmMoved DEF Alive, RunPC
<1>5. CASE LookupExecChan(e) \/ Acquire(e) \/ Begin(e) \/ SilentFailure(e) \/ StartCommand(e)
           \/ CommandSucceeds(e) \/ SucceedView(e) \/ Succeed(e) \/ CommonLock(e)
  <2>1. UNCHANGED waitExec
    BY <1>5 DEF LookupExecChan, Acquire, Begin, SilentFailure, StartCommand, CommandSucceeds,
                SucceedView, Succeed, CommonLock
  <2>2. exec[e].pc \in RunPC /\ Moved(e, RunPC)
    BY <1>5, Moves DEF From, Moved, RunPC
  <2> QED BY <2>1, <2>2, CalmMoved DEF Alive
<1> QED BY <1>1, <1>2, <1>3, <1>4, <1>5 DEF Progress, EndsByItself

LEMMA EngineCalm ==
  ASSUME ~Concurrent, StateOK, EngineStep
  PROVE  Calm
<1> USE DEF maps, heap
<1>1. ASSUME NEW e \in Runs, NEW k \in Keys, MayAsk(k), Exists(k), ExecCheck(e, k) PROVE Calm
  <2> DEFINE r == [IdleRun EXCEPT !.pc = "checked", !.key = k]
  <2>1. Goes(e, r) /\ r.pc = "checked" /\ r.key = k /\ waitExec' = waitExec
    BY <1>1 DEF ExecCheck, IdleRun
  <2> HIDE DEF r
  <2>2. exec'[e] = r /\ \A f \in Runs : f # e => exec'[f] = exec[f]
    BY <2>1, GoesOnly
  <2>3. ~Deleting(k) /\ ExecCheck(e, k)
    BY <1>1 DEF MayAsk
  <2> QED BY <2>1, <2>2, <2>3 DEF Calm, Alive, RunPC
<1>2. ASSUME NEW e \in Runs, ExecStart(e) PROVE Calm
  <2> DEFINE k == exec[e].key
             r == [exec[e] EXCEPT !.pc = "spawned", !.seq = seqNo[k] + 1]
  <2>1. Goes(e, r) /\ r.pc = "spawned" /\ r.key = k /\ exec[e].pc = "checked"
    BY <1>2 DEF ExecStart, StateOK, RunState
  <2> HIDE DEF r
  <2>2. exec'[e] = r /\ \A f \in Runs : f # e => exec'[f] = exec[f]
    BY <2>1, GoesOnly
  <2>3. \A j \in Keys : j # k => waitExec'[j] = waitExec[j]
    BY <1>2 DEF ExecStart, StateOK
  <2> QED BY <2>1, <2>2, <2>3 DEF Calm, Alive, RunPC
<1>3. CASE UNCHANGED <<exec, waitExec>>
  BY <1>3, CalmSame
<1> QED BY <1>1, <1>2, <1>3, CalmProgress
        DEF EngineStep, KillGoroutine, KillCheck, KillMake, KillLookup, KillSend, KillRequest,
            DelJobExecution, Evict

LEMMA CalmAlone ==
  ASSUME Alone, Calm, UNCHANGED del, DelTyped
  PROVE  Alone'
<1>1. \A d \in Deleters : del[d].pc # "idle" => del[d].key \in Keys /\ Deleting(del[d].key)
  BY DEF DelTyped, DelState, Deleting
<1>2. \A d1, d2 \in Deleters :
        del'[d1].pc # "idle" /\ del'[d2].pc # "idle" /\ del'[d1].key = del'[d2].key => d1 = d2
  BY DEF Alone
<1>3. \A d \in Deleters, e \in Runs :
        del'[d].pc # "idle" /\ exec'[e].pc = "checked" => exec'[e].key # del'[d].key
  BY <1>1 DEF Alone, Calm
<1>4. \A d \in Deleters : del'[d].pc = "wait" => del'[d].wait = waitExec'[del'[d].key] /\ del'[d].wait # 0
  BY <1>1 DEF Alone, Calm
<1>5. ASSUME NEW d \in Deleters, del'[d].pc \in {"records", "files", "remove", "close"}
      PROVE  Busy(del[d].key)' = {}
  <2>1. Busy(del[d].key) = {} /\ del[d].pc # "idle"
    BY <1>5 DEF Alone
  <2>2. ASSUME NEW e \in Runs, Alive(e)', exec'[e].key = del[d].key PROVE FALSE
    BY <2>1, <2>2 DEF Calm, Busy, Alone
  <2> QED BY <2>2 DEF Busy
<1> QED BY <1>2, <1>3, <1>4, <1>5 DEF Alone

LEMMA EngineSound ==
  ASSUME ~Concurrent, AnyClients, Sound, EngineStep
  PROVE  Sound'
<1>1. StateOK /\ IndexOK /\ DelTyped /\ Next /\ UNCHANGED del
  BY EngineIsNext DEF AnyClients, EngineTyped, EngineStep, Rest
<1>2. GroupsOK' /\ LockOK' /\ SlotOK' /\ TokenOwned'
  BY <1>1, StepGroupsLock, StepSlot, StepToken DEF Sound
<1>3. Alone'
  BY <1>1, EngineCalm, CalmAlone DEF Sound
<1> QED BY <1>2, <1>3 DEF Sound

(* Most steps of delJob leave alone what the engine's invariants are about.    *)
LEMMA EngineLeft ==
  ASSUME GroupsOK, LockOK, SlotOK, TokenOwned,
         UNCHANGED <<accessLock, waitExec, waitGroups, execChan, execChans, exec>>
  PROVE  GroupsOK' /\ LockOK' /\ SlotOK' /\ TokenOwned'
<1>1. GroupsOK'
  BY GroupsSame DEF Alive
<1>2. LockOK'
  BY LockSame
<1>3. TokenOwned'
  BY TokenSame DEF InSlot
<1> QED BY <1>1, <1>2, <1>3, SlotSame

LEMMA AskSound ==
  ASSUME ~Concurrent, AnyClients, Sound, NEW d \in Deleters, NEW g \in Killers, NEW k \in Keys, DelJob(d, g, k)
  PROVE  Sound'
<1> USE DEF maps, heap
<1> DEFINE r == [pc |-> "check", key |-> k, wait |-> 0]
<1>1. UNCHANGED <<accessLock, waitExec, waitGroups, execChan, execChans, exec>> /\ DGoes(d, r)
  BY DEF DelJob
<1>2. del'[d] = r /\ \A f \in Deleters : f # d => del'[f] = del[f]
  BY <1>1 DEF DGoes, AnyClients, DelTyped
<1>3. \A f \in Deleters : del[f].pc # "idle" => del[f].key # k
  BY DEF DelJob, MayAsk, Deleting
<1>4. \A e \in Runs : exec[e].pc = "checked" => exec[e].key # k
  BY DEF DelJob
<1>5. \A j : Busy(j)' = Busy(j)
  BY <1>1 DEF Busy, Alive
<1>6. Alone'
  BY <1>1, <1>2, <1>3, <1>4, <1>5 DEF Sound, Alone
<1> QED BY <1>1, <1>6, EngineLeft DEF Sound

(* A goroutine of delJob that goes on with its job, past the wait only when no *)
(* execution is left.                                                          *)
LEMMA GoesOnSound ==
  ASSUME AnyClients, Sound, NEW d \in Deleters, NEW r, DGoes(d, r),
         UNCHANGED <<accessLock, waitExec, waitGroups, execChan, execChans, exec>>,
         r.pc # "idle" => del[d].pc # "idle" /\ r.key = del[d].key,
         r.pc = "wait" => r.wait = waitExec[r.key] /\ r.wait # 0,
         r.pc \in {"records", "files", "remove", "close"} => Busy(r.key) = {}
  PROVE  Sound'
<1>1. del'[d] = r /\ \A f \in Deleters : f # d => del'[f] = del[f]
  BY DEF DGoes, AnyClients, DelTyped
<1>2. \A j : Busy(j)' = Busy(j)
  BY DEF Busy, Alive
<1>3. \A d1, d2 \in Deleters :
        del'[d1].pc # "idle" /\ del'[d2].pc # "idle" /\ del'[d1].key = del'[d2].key => d1 = d2
  BY <1>1 DEF Sound, Alone
<1>4. \A f \in Deleters, e \in Runs :
        del'[f].pc # "idle" /\ exec'[e].pc = "checked" => exec'[e].key # del'[f].key
  BY <1>1 DEF Sound, Alone
<1>5. \A f \in Deleters : del'[f].pc = "wait" => del'[f].wait = waitExec'[del'[f].key] /\ del'[f].wait # 0
  BY <1>1 DEF Sound, Alone
<1>6. ASSUME NEW f \in Deleters, del'[f].pc \in {"records", "files", "remove", "close"}
      PROVE  Busy(del[f].key)' = {}
  <2>1. Busy(del'[f].key) = {}
    BY <1>1, <1>6 DEF Sound, Alone
  <2> QED BY <2>1 DEF Busy, Alive
<1>7. Alone'
  BY <1>3, <1>4, <1>5, <1>6 DEF Alone
<1> QED BY <1>7, EngineLeft DEF Sound

LEMMA DelSound ==
  ASSUME AnyClients, Sound, NEW d \in Deleters, DelSteps(d), ~DelClose(d)
  PROVE  Sound'
<1> USE DEF maps, heap
<1> DEFINE k == del[d].key
<1>1. /\ UNCHANGED <<accessLock, waitExec, waitGroups, execChan, execChans, exec>>
      /\ del[d].pc # "idle" /\ k \in Keys
  BY PlaceTyped DEF AnyClients, At, DelSteps, DelCheck, DelLookup, DelWait, DelRecords, DelFiles, DelFails,
     DelRemove, vars
<1>2. CASE DGoes(d, IdleDel)
  BY <1>1, <1>2, PlaceTyped, GoesOnSound DEF AnyClients
<1>3. ASSUME NEW p \in {"lookup", "records", "files", "remove", "close"}, DelTo(d, p),
             p # "lookup" => Busy(k) = {}
      PROVE  Sound'
  BY <1>1, <1>3, PlaceTyped, GoesOnSound DEF AnyClients, DelTo
<1>4. CASE DelCheck(d)
  <2>1. \/ DelTo(d, "records") /\ waitExec[k] = 0
        \/ DelTo(d, "lookup")
    BY <1>4 DEF DelCheck, DelTo, DGoes
  <2>2. waitExec[k] = 0 => Busy(k) = {}
    BY <1>1 DEF Sound, GroupsOK
  <2> QED BY <1>3, <2>1, <2>2
<1>5. CASE DelLookup(d)
  <2> DEFINE w == waitExec[k]
             r == [del[d] EXCEPT !.pc = "wait", !.wait = w]
  <2>1. DGoes(d, IdleDel) \/ (w # 0 /\ DGoes(d, r))
    BY <1>5 DEF DelLookup, DGoes
  <2>2. r.pc = "wait" /\ r.key = k /\ r.wait = w
    BY DEF AnyClients, DelTyped, DelState
  <2> HIDE DEF r
  <2>3. w # 0 /\ DGoes(d, r) => Sound'
    BY <1>1, <2>2, GoesOnSound
  <2> QED BY <1>2, <2>1, <2>3
<1>6. CASE DelWait(d)
  <2>1. DelTo(d, "records") /\ waitGroups[k][del[d].wait] = 0 /\ del[d].pc = "wait"
    BY <1>6 DEF DelWait, At
  <2>2. Cardinality(Busy(k)) = 0 /\ IsFiniteSet(Busy(k))
    BY <1>1, <2>1 DEF Sound, Alone, GroupsOK
  <2>3. Busy(k) = {}
    BY <2>2, FS_EmptySet
  <2> QED BY <1>3, <2>1, <2>3
<1>7. CASE DelRecords(d) \/ DelFiles(d) \/ DelFails(d) \/ DelRemove(d)
  <2>1. DelTo(d, "files") \/ DelTo(d, "remove") \/ DelTo(d, "close") \/ DGoes(d, IdleDel)
    BY <1>7 DEF DelRecords, DelFiles, DelFails, DelRemove
  <2>2. del[d].pc \in {"records", "files", "remove"}
    BY <1>7 DEF DelRecords, DelFiles, DelFails, DelRemove, At
  <2>3. Busy(k) = {}
    BY <2>2 DEF Sound, Alone
  <2> QED BY <1>2, <1>3, <2>1, <2>3
<1> QED BY <1>4, <1>5, <1>6, <1>7 DEF DelSteps

LEMMA CloseSound ==
  ASSUME AnyClients, Sound, NEW d \in Deleters, DelClose(d)
  PROVE  Sound'
<1> USE DEF maps, heap
<1> DEFINE k == del[d].key
<1>1. /\ del[d].pc = "close" /\ k \in Keys /\ DGoes(d, IdleDel) /\ accessLock = None
      /\ UNCHANGED <<waitGroups, execChans, exec>> /\ accessLock' \in {None, d}
  BY PlaceTyped DEF DelClose, At, AnyClients
<1>2. \/ UNCHANGED <<execChan, waitExec>>
      \/ execChan' = [execChan EXCEPT ![k] = 0] /\ waitExec' = [waitExec EXCEPT ![k] = 0]
  BY DEF DelClose, DropEntry
<1>3. Busy(k) = {} /\ \A j : Busy(j)' = Busy(j)
  BY <1>1 DEF Sound, Alone, Busy, Alive
<1>4. \A j \in Keys : j # k => execChan'[j] = execChan[j] /\ waitExec'[j] = waitExec[j]
  BY <1>2 DEF AnyClients, EngineTyped, StateOK
<1>5. waitExec'[k] \in {0, waitExec[k]} /\ execChan'[k] \in {0, execChan[k]}
  BY <1>1, <1>2 DEF AnyClients, EngineTyped, StateOK
<1>6. \A e \in Runs : Alive(e) => exec[e].key # k /\ exec[e].key \in Keys
  BY <1>3, Indices DEF Busy, AnyClients, EngineTyped, Alive, RunPC
<1> HIDE DEF k
<1>7. GroupsOK'
  BY <1>1, <1>3, <1>4, <1>5, FS_EmptySet DEF Sound, GroupsOK
<1>8. LockOK'
  BY <1>1, NoneAssumption, DeletersAssumption DEF Sound, LockOK
<1>9. SlotOK'
  <2>1. \A j \in Keys : execChan'[j] # 0 => execChan'[j] = execChan[j]
    BY <1>4, <1>5
  <2>2. \A e \in Runs : Alive(e) => execChan'[exec[e].key] = execChan[exec[e].key]
    BY <1>4, <1>6
  <2>3. \A e \in Runs : InSlot(e) \/ exec[e].pc \in {"queued", "recv"} => Alive(e)
    BY DEF Alive, InSlot, SlotPC, RunPC
  <2>4. \A e \in Runs : /\ Alive(e)' <=> Alive(e)
                        /\ InSlot(e)' <=> InSlot(e)
    BY <1>1 DEF Alive, InSlot
  <2>5. SerialExecution'
    BY <1>1, <2>4 DEF Sound, SlotOK, SerialExecution
  <2>6. \A j \in Keys : execChan'[j] # 0 => Len(Slot(j)') <= 1
    BY <1>1, <2>1 DEF Sound, SlotOK, Slot
  <2>7. \A e \in Runs : InSlot(e)' => Slot(exec[e].key)' # <<>>
    BY <1>1, <2>2, <2>3, <2>4 DEF Sound, SlotOK, Slot
  <2> QED BY <1>1, <2>2, <2>3, <2>4, <2>5, <2>6, <2>7 DEF Sound, SlotOK
<1>10. Alone'
  <2>1. \A f \in Deleters : del'[f] = IdleDel \/ (f # d /\ del'[f] = del[f])
    BY <1>1 DEF DGoes, AnyClients, DelTyped
  <2>2. \A f \in Deleters : f # d /\ del[f].pc # "idle" => del[f].key # k /\ del[f].key \in Keys
    BY <1>1 DEF Sound, Alone, AnyClients, DelTyped, DelState, k
  <2>3. \A f \in Deleters : del'[f].pc = "wait" => del'[f].wait = waitExec'[del'[f].key] /\ del'[f].wait # 0
    BY <1>4, <2>1, <2>2 DEF Sound, Alone, IdleDel
  <2>4. ASSUME NEW f \in Deleters, del'[f].pc \in {"records", "files", "remove", "close"}
        PROVE  Busy(del[f].key)' = {}
    BY <1>3, <2>1, <2>4 DEF Sound, Alone, IdleDel, Busy
  <2> QED BY <1>1, <2>1, <2>3, <2>4 DEF Sound, Alone, IdleDel
<1>11. TokenOwned'
  <2> SUFFICES ASSUME NEW j \in Keys, execChan'[j] # 0, Slot(j)' # <<>>
               PROVE  \E f \in Runs : InSlot(f)' /\ exec'[f].key = j
    BY DEF TokenOwned
  <2>1. execChan'[j] = execChan[j]
    BY <1>4, <1>5
  <2>2. Slot(j) # <<>> /\ execChan[j] # 0
    BY <1>1, <2>1 DEF Slot
  <2> QED BY <1>1, <2>2 DEF Sound, TokenOwned, InSlot
<1> QED BY <1>7, <1>8, <1>9, <1>10, <1>11 DEF Sound

LEMMA RecvClosedSound ==
  ASSUME AnyClients, Sound, NEW e \in Runs, RecvClosed(e)
  PROVE  Sound'
<1> USE DEF maps, heap
<1> DEFINE r == [exec[e] EXCEPT !.chan = killChan[exec[e].key]]
<1>1. /\ exec[e].pc = "select" /\ Goes(e, r) /\ StateOK /\ DelTyped
      /\ UNCHANGED <<accessLock, waitExec, waitGroups, execChan, execChans, del>>
  BY DEF RecvClosed, AnyClients, EngineTyped
<1>2. r.pc = "select" /\ r.key = exec[e].key /\ r.seq = exec[e].seq
  BY <1>1 DEF StateOK, RunState
<1> HIDE DEF r
<1>3. Moved(e, {"select"}) /\ Moved(e, RunPC) /\ Alive(e)
  BY <1>1, <1>2, MoveTo DEF Alive, RunPC
<1>4. GroupsOK'
  BY <1>1, <1>3, GroupsMoved DEF Sound
<1>5. LockOK'
  BY <1>1, <1>3, LockMoved DEF Sound, Moved
<1>6. SlotOK'
  BY <1>1, <1>2, SlotFrame DEF Sound, RunPC, SlotPC
<1>7. Alone'
  BY <1>1, <1>3, CalmMoved, CalmAlone DEF Sound
<1>8. TokenOwned'
  <2>1. InSlot(e) /\ Moved(e, SlotPC)
    BY <1>1, <1>3 DEF InSlot, Moved, SlotPC, RunPC
  <2> QED BY <1>1, <2>1, TokenMoved DEF Sound
<1> QED BY <1>4, <1>5, <1>6, <1>7, <1>8 DEF Sound

LEMMA RestSound ==
  ASSUME AnyClients, Sound,
         UNCHANGED <<accessLock, waitExec, waitGroups, execChan, execChans, exec, del>>
  PROVE  Sound'
<1>1. Alone'
  BY CalmSame, CalmAlone DEF Sound, AnyClients
<1> QED BY <1>1, EngineLeft DEF Sound

LEMMA RestartSound ==
  ASSUME AnyClients, Sound, DRestart
  PROVE  Sound'
<1>1. GroupsOK' /\ LockOK' /\ SlotOK' /\ TokenOwned'
  BY StepGroupsLock, StepSlot, StepToken DEF DRestart, Next, AnyClients, EngineTyped, Sound
<1>2. Alone'
  BY DEF DRestart, Alone, IdleDel
<1> QED BY <1>1, <1>2 DEF Sound

LEMMA InitSound == DInit => Sound
<1> SUFFICES ASSUME DInit PROVE Sound
  OBVIOUS
<1>1. GroupsOK /\ LockOK /\ SlotOK /\ TokenOwned
  BY InitGroupsLock, InitSlot, InitToken DEF DInit
<1>2. Alone
  BY DEF DInit, Alone, IdleDel
<1> QED BY <1>1, <1>2 DEF Sound

LEMMA StepSound == AnyClients /\ Sound /\ ~Concurrent /\ [DNext]_dvars => Sound'
<1> SUFFICES ASSUME AnyClients, Sound, ~Concurrent, [DNext]_dvars PROVE Sound'
  OBVIOUS
<1> USE DEF maps, heap
<1>1. CASE EngineStep
  BY <1>1, EngineSound
<1>2. ASSUME NEW k \in Keys, CreateJob(k) PROVE Sound'
  BY <1>2, RestSound DEF CreateJob
<1>3. ASSUME NEW d \in Deleters, DelSteps(d) PROVE Sound'
  BY <1>3, DelSound, CloseSound
<1>4. ASSUME NEW d \in Deleters, DrainSteps(d) PROVE Sound'
  BY <1>4, RestSound DEF DrainSteps, DrainLookup, DrainRecv, vars
<1>5. CASE Panic
  BY <1>5, RestSound DEF Panic
<1>6. CASE UNCHANGED dvars
  BY <1>6, RestSound DEF dvars, vars
<1> QED BY <1>1, <1>2, <1>3, <1>4, <1>5, <1>6, EngineSteps, AskSound, RecvClosedSound, RestartSound
        DEF DNext, RunGoes

(* The inductive invariant of the deletion.                                    *)
IInv == AnyClients /\ (~Concurrent => Sound)

LEMMA DeletionInvariant == DSpec => []IInv
<1>1. DInit => IInv
  BY InitAnyClients, InitSound DEF IInv
<1>2. IInv /\ [DNext]_dvars => IInv'
  BY StepAnyClients, StepSound DEF IInv
<1> QED BY <1>1, <1>2, PTL DEF DSpec

(* Where clients wait for answers, delJob removes the records, the files and   *)
(* the channels of a job when none of its executions is left.                  *)
THEOREM DeletionWaits == DSpec => [](~Concurrent => DeleteWaitsForRuns)
<1>1. IInv => (~Concurrent => DeleteWaitsForRuns)
  BY DEF IInv, Sound, Alone, DeleteWaitsForRuns, Busy
<1> QED BY <1>1, DeletionInvariant, PTL

(* Executions of a job stay alone, also when it is deleted and made anew while *)
(* executions of its first life come to their end.                             *)
THEOREM SerialAcrossDeletions == DSpec => [](~Concurrent => SerialExecution)
<1>1. IInv => (~Concurrent => SerialExecution)
  BY DEF IInv, Sound, SlotOK
<1> QED BY <1>1, DeletionInvariant, PTL

(* No execution sends to a channel that delJob closed, or calls Done on a wait *)
(* group that counts nobody: it is not the executions that end the server.     *)
THEOREM OnlyKillsPanic == DSpec => [](~Concurrent => ExecutionsNeverPanic)
<1>1. IInv => (~Concurrent => ExecutionsNeverPanic)
  <2> SUFFICES ASSUME AnyClients, Sound, NEW e \in Runs
               PROVE  /\ exec[e].pc = "queued" => exec[e].chan \notin closed[exec[e].key].exec
                      /\ ~DoneTooOften(e)
    BY DEF IInv, ExecutionsNeverPanic
  <2>1. ASSUME exec[e].pc \in {"queued", "recv"}
        PROVE  Alive(e) /\ exec[e].key \in Keys /\ exec[e].chan = execChan[exec[e].key]
    BY <2>1, Indices DEF Alive, RunPC, Sound, SlotOK, AnyClients, EngineTyped
  <2>2. exec[e].pc = "queued" => exec[e].chan \notin closed[exec[e].key].exec
    BY <2>1 DEF AnyClients, NeverClosedTwice
  <2>3. ASSUME DoneTooOften(e) PROVE FALSE
    <3> DEFINE k == exec[e].key
    <3>1. Alive(e) /\ k \in Keys /\ waitExec[k] # 0 /\ waitGroups[k][waitExec[k]] = 0
      BY <2>1, <2>3 DEF DoneTooOften
    <3>2. Cardinality(Busy(k)) = 0 /\ IsFiniteSet(Busy(k)) /\ e \in Busy(k)
      BY <3>1 DEF Sound, GroupsOK, Busy
    <3> QED BY <3>2, FS_EmptySet
  <2> QED BY <2>2, <2>3
<1> QED BY <1>1, DeletionInvariant, PTL

(* A deletion that its wait group blocks waits for an execution that is alive, *)
(* and an execution that ExecChan blocks for one that has the place.           *)
THEOREM WaitersAreServed == DSpec => [](~Concurrent => WaitersHaveOwners)
<1>1. IInv => (~Concurrent => WaitersHaveOwners)
  <2> SUFFICES ASSUME AnyClients, Sound PROVE WaitersHaveOwners
    BY DEF IInv
  <2>1. ASSUME NEW d \in Deleters, del[d].pc = "wait", waitGroups[del[d].key][del[d].wait] # 0
        PROVE  \E e \in Runs : Alive(e) /\ exec[e].key = del[d].key
    <3> DEFINE k == del[d].key
    <3>1. k \in Keys /\ del[d].wait = waitExec[k] /\ waitExec[k] # 0
      BY <2>1 DEF AnyClients, DelTyped, DelState, Sound, Alone
    <3>2. Cardinality(Busy(k)) # 0
      BY <2>1, <3>1 DEF Sound, GroupsOK
    <3>3. Busy(k) # {}
      BY <3>2, FS_EmptySet
    <3> QED BY <3>3 DEF Busy
  <2>2. ASSUME NEW e \in Runs, exec[e].pc = "queued"
        PROVE  \/ CanSend(execChans[exec[e].key][exec[e].chan])
               \/ \E f \in Runs : InSlot(f) /\ exec[f].key = exec[e].key
    <3> DEFINE k == exec[e].key
    <3>1. k \in Keys /\ exec[e].chan = execChan[k] /\ execChan[k] # 0
      BY <2>2, Indices DEF AnyClients, EngineTyped, Sound, SlotOK, Alive, RunPC
    <3>2. CASE Slot(k) = <<>>
      BY <3>1, <3>2 DEF Slot, CanSend
    <3>3. CASE Slot(k) # <<>>
      BY <3>1, <3>3 DEF Sound, TokenOwned
    <3> QED BY <3>2, <3>3
  <2> QED BY <2>1, <2>2 DEF WaitersHaveOwners
<1> QED BY <1>1, DeletionInvariant, PTL

-----------------------------------------------------------------------------
(* Nothing is left of job k: no record, no request and no execution.           *)
Cleared(k) ==
  /\ \A n \in Seqs : job[k][n] = None
  /\ \A e \in Runs : exec[e].pc # "idle" => exec[e].key # k

(* What a deletion removed stays away until the job is made anew: without a    *)
(* file there is nothing of the job, but maybe its configuration in the cache. *)
ClearedOK ==
  /\ \A k \in Keys : k \notin files => Cleared(k)
  /\ \A d \in Deleters : del[d].pc \in {"files", "remove", "close"} => Cleared(del[d].key)

(* This step adds no record but that of an execution that was requested.       *)
NoOtherRow ==
  \A k \in Keys, n \in Seqs :
    job'[k][n] # None => job[k][n] # None \/ \E e \in Runs : exec[e].pc = "checked" /\ exec[e].key = k

LEMMA UpdateRow ==
  ASSUME StateOK, NEW k \in Keys, NEW m, NEW r, Update(k, m, r)
  PROVE  NoOtherRow
<1>1. CASE Record(k, m) = None
  BY <1>1 DEF Update, NoOtherRow
<1>2. CASE Record(k, m) # None
  <2>1. m \in Seqs /\ job[k][m] # None /\ job' = [job EXCEPT ![k][m] = r]
    BY <1>2 DEF Update, Record
  <2>2. \A j \in Keys, n \in Seqs : (j # k \/ n # m) => job'[j][n] = job[j][n]
    BY <2>1 DEF StateOK
  <2> QED BY <2>1, <2>2 DEF NoOtherRow
<1> QED BY <1>1, <1>2

LEMMA EngineRows ==
  ASSUME StateOK, EngineStep
  PROVE  NoOtherRow
<1> USE DEF db
<1>1. ASSUME NEW e \in Runs, ExecStart(e) PROVE NoOtherRow
  <2> DEFINE k == exec[e].key
  <2>1. k \in Keys /\ exec[e].pc = "checked"
    BY <1>1, Indices DEF ExecStart
  <2>2. \A j \in Keys : j # k => job'[j] = job[j]
    BY <1>1 DEF ExecStart, StateOK
  <2> QED BY <2>1, <2>2 DEF NoOtherRow
<1>2. ASSUME NEW e \in Runs, Progress(e) \/ EndsByItself(e) PROVE NoOtherRow
  <2>1. CASE UNCHANGED job
    BY <2>1 DEF NoOtherRow
  <2>2. ASSUME NEW r, exec[e].pc \in {"ready", "select"}, Update(exec[e].key, exec[e].seq, r)
        PROVE  NoOtherRow
    BY <2>2, Indices, UpdateRow
  <2>3. CASE StartFails(e) \/ CommandTimesOut(e) \/ CommandFails(e) \/ Succeed(e)
    <3>1. exec[e].pc \in {"ready", "select"} /\ \E r : Update(exec[e].key, exec[e].seq, r)
      BY <2>3 DEF StartFails, CommandTimesOut, CommandFails, Succeed, EndCommand
    <3> QED BY <2>2, <3>1
  <2>4. CASE RecvKill(e)
    <3>1. exec[e].pc = "select" /\ (job' = job \/ \E r : Update(exec[e].key, exec[e].seq, r))
      BY <2>4 DEF RecvKill, EndCommand
    <3> QED BY <2>1, <2>2, <3>1
  <2> QED BY <1>2, <2>1, <2>3, <2>4
          DEF Progress, EndsByItself, LookupExecChan, Acquire, Begin, SilentFailure, StartCommand,
              CommandSucceeds, ReturnFromCommand, SucceedView, CommonLock, Release
<1>3. ASSUME NEW g \in Killers, NEW k \in Keys, NEW n \in KillArgs, KillRequest(g, k, n) PROVE NoOtherRow
  BY <1>3, CancelRows DEF KillRequest, NoOtherRow
<1>4. ASSUME NEW k \in Keys, NEW n \in Seqs, DelJobExecution(k, n) PROVE NoOtherRow
  BY <1>4, DeleteRows DEF NoOtherRow
<1>5. CASE UNCHANGED job
  BY <1>5 DEF NoOtherRow
<1> QED BY <1>1, <1>2, <1>3, <1>4, <1>5
        DEF EngineStep, ExecCheck, KillGoroutine, KillCheck, KillMake, KillLookup, KillSend, Evict

(* A job of which nothing is left, and that is being deleted or has no file,   *)
(* stays so over a step of the engine that executes no job without a file.     *)
LEMMA ClearedStays ==
  ASSUME StateOK', StateOK, Calm, NoOtherRow, ~Strays, NEW k \in Keys, Cleared(k), Deleting(k) \/ k \notin files
  PROVE  Cleared(k)'
<1>1. ASSUME NEW e \in Runs, exec'[e].pc # "idle", exec'[e].key = k PROVE FALSE
  <2>1. Alive(e)' \/ exec'[e].pc = "checked"
    BY <1>1 DEF Alive, StateOK, RunState
  <2>2. CASE Alive(e)'
    <3>1. exec[e].pc # "idle" /\ exec[e].key = k
      BY <1>1, <2>2 DEF Calm, Alive, RunPC
    <3> QED BY <3>1 DEF Cleared
  <2>3. CASE exec'[e].pc = "checked"
    BY <1>1, <2>3 DEF Calm, Cleared, Strays
  <2> QED BY <2>1, <2>2, <2>3
<1>2. \A n \in Seqs : job'[k][n] = None
  BY DEF NoOtherRow, Cleared
<1> QED BY <1>1, <1>2 DEF Cleared

LEMMA ClearedEngine ==
  ASSUME ~Concurrent, ~Strays, AnyClients, AnyClients', ClearedOK, EngineStep
  PROVE  ClearedOK'
<1>1. StateOK /\ StateOK' /\ DelTyped /\ UNCHANGED <<files, del>>
  BY DEF AnyClients, EngineTyped, EngineStep, Rest
<1>2. Calm /\ NoOtherRow
  BY <1>1, EngineCalm, EngineRows
<1>3. \A d \in Deleters : del[d].pc # "idle" => del[d].key \in Keys /\ Deleting(del[d].key)
  BY <1>1 DEF DelTyped, DelState, Deleting
<1>4. \A k \in Keys : k \notin files' => Cleared(k)'
  BY <1>1, <1>2, ClearedStays DEF ClearedOK
<1>5. ASSUME NEW d \in Deleters, del'[d].pc \in {"files", "remove", "close"} PROVE Cleared(del[d].key)'
  BY <1>1, <1>2, <1>3, <1>5, ClearedStays DEF ClearedOK
<1> QED BY <1>1, <1>4, <1>5 DEF ClearedOK, Cleared

-----------------------------------------------------------------------------
(* A step of a goroutine of delJob takes its job from place to place.          *)
LEMMA DelMoves ==
  ASSUME DelTyped, NEW d \in Deleters, NEW r, DGoes(d, r)
  PROVE  del'[d] = r /\ \A f \in Deleters : f # d => del'[f] = del[f]
  BY DEF DGoes, DelTyped

LEMMA ClearedDeletion ==
  ASSUME ~Concurrent, AnyClients, Sound, ClearedOK, NEW d \in Deleters, DelSteps(d)
  PROVE  ClearedOK'
<1> USE DEF maps, heap, db
<1> DEFINE k == del[d].key
<1>1. StateOK /\ DelTyped /\ k \in Keys /\ exec' = exec /\ del[d].pc # "idle"
  BY PlaceTyped DEF AnyClients, EngineTyped, StateOK, At, DelSteps, DelCheck, DelLookup, DelWait, DelRecords,
     DelFiles, DelFails, DelRemove, DelClose, vars
<1>2. \A f \in Deleters : f # d /\ del[f].pc # "idle" => del[f].key # k /\ del[f].key \in Keys
  BY <1>1 DEF Sound, Alone, DelTyped, DelState
<1>3. ASSUME NEW r, DGoes(d, r) PROVE del'[d] = r /\ \A f \in Deleters : f # d => del'[f] = del[f]
  BY <1>1, <1>3, DelMoves
<1>4. ASSUME NEW p \in {"lookup", "records", "files", "remove", "close"}, DelTo(d, p)
      PROVE  del'[d].pc = p /\ del'[d].key = k /\ \A f \in Deleters : f # d => del'[f] = del[f]
  <2> DEFINE r == [del[d] EXCEPT !.pc = p]
  <2>1. r.pc = p /\ r.key = k
    BY <1>1, PlaceTyped
  <2>2. DGoes(d, r)
    BY <1>4 DEF DelTo
  <2> HIDE DEF r
  <2> QED BY <1>3, <2>1, <2>2
<1>5. IdleDel.pc = "idle"
  BY DEF IdleDel
<1> HIDE DEF k
<1>6. CASE /\ UNCHANGED <<job, files>>
           /\ del'[d].pc \notin {"files", "remove", "close"}
           /\ \A f \in Deleters : f # d => del'[f] = del[f]
  <2>1. \A j : Cleared(j)' <=> Cleared(j)
    BY <1>1, <1>6 DEF Cleared
  <2>2. \A f \in Deleters : del'[f].pc \in {"files", "remove", "close"} => del'[f] = del[f]
    BY <1>6
  <2> QED BY <1>6, <2>1, <2>2 DEF ClearedOK
<1>7. CASE DelCheck(d)
  <2>1. del[d].pc = "check" /\ UNCHANGED <<job, files>> /\ (DelTo(d, "records") \/ DelTo(d, "lookup"))
    BY <1>7 DEF DelCheck, At, vars, DelTo
  <2> QED BY <1>4, <1>6, <2>1
<1>8. CASE DelLookup(d)
  <2> DEFINE w == waitExec[del[d].key]
             r == IF w = 0 THEN IdleDel ELSE [del[d] EXCEPT !.pc = "wait", !.wait = w]
  <2>1. del[d].pc = "lookup" /\ UNCHANGED <<job, files>> /\ DGoes(d, r)
    BY <1>8 DEF DelLookup, At, vars
  <2>2. r.pc \in {"idle", "wait"}
    BY <1>1, <1>5 DEF DelTyped, DelState
  <2> HIDE DEF r
  <2> QED BY <1>3, <1>6, <2>1, <2>2
<1>9. CASE DelWait(d)
  <2>1. del[d].pc = "wait" /\ UNCHANGED <<job, files>> /\ DelTo(d, "records")
    BY <1>9 DEF DelWait, At, vars
  <2> QED BY <1>4, <1>6, <2>1
<1>10. CASE DelRecords(d)
  <2>1. /\ del[d].pc = "records" /\ UNCHANGED files
        /\ job' = [job EXCEPT ![k] = [n \in Seqs |-> None]]
        /\ DelTo(d, "files") \/ DGoes(d, IdleDel)
    BY <1>10 DEF DelRecords, At, k
  <2>2. Busy(k) = {} /\ \A e \in Runs : exec[e].pc = "checked" => exec[e].key # k
    BY <2>1 DEF Sound, Alone, k
  <2>3. \A e \in Runs : exec[e].pc # "idle" => Alive(e) \/ exec[e].pc = "checked"
    BY <1>1 DEF StateOK, RunState, Alive
  <2>4. \A e \in Runs : exec[e].pc # "idle" => exec[e].key # k
    BY <2>2, <2>3 DEF Busy
  <2>5. job'[k] = [n \in Seqs |-> None] /\ \A j \in Keys : j # k => job'[j] = job[j]
    BY <1>1, <2>1 DEF StateOK
  <2>6. \A j \in Keys : j = k \/ Cleared(j) => Cleared(j)'
    <3> SUFFICES ASSUME NEW j \in Keys, j = k \/ Cleared(j) PROVE Cleared(j)'
      OBVIOUS
    <3>1. \A n \in Seqs : job'[j][n] = None
      BY <2>5 DEF Cleared
    <3>2. \A e \in Runs : exec'[e].pc # "idle" => exec'[e].key # j
      BY <1>1, <2>4 DEF Cleared
    <3> QED BY <3>1, <3>2 DEF Cleared
  <2>7. \A f \in Deleters : f # d => del'[f] = del[f]
    BY <1>3, <1>4, <2>1
  <2>8. del'[d].pc \in {"files", "idle"} /\ (del'[d].pc = "files" => del'[d].key = k)
    BY <1>3, <1>4, <1>5, <2>1
  <2>9. ASSUME NEW f \in Deleters, del'[f].pc \in {"files", "remove", "close"} PROVE Cleared(del[f].key)'
    <3>1. f = d => del'[f].key = k
      BY <2>8, <2>9
    <3>2. f # d => del'[f].key \in Keys /\ Cleared(del'[f].key)
      BY <1>2, <2>7, <2>9 DEF ClearedOK
    <3>3. PICK j \in Keys : j = del'[f].key
      BY <1>1, <3>1, <3>2
    <3>4. Cleared(j)'
      BY <2>6, <3>1, <3>2, <3>3
    <3> QED BY <3>3, <3>4 DEF Cleared
  <2> QED BY <2>1, <2>6, <2>7, <2>8, <2>9 DEF ClearedOK, Cleared
<1>11. ASSUME files' \in {files, files \ {k}}, job' = job, Cleared(k),
              del'[d].pc \in {"idle", "remove", "close"}, del'[d].pc # "idle" => del'[d].key = k,
              \A f \in Deleters : f # d => del'[f] = del[f]
       PROVE  ClearedOK'
  <2>1. \A j : Cleared(j)' <=> Cleared(j)
    BY <1>1, <1>11 DEF Cleared
  <2>2. \A f \in Deleters : del'[f].pc \in {"files", "remove", "close"} => Cleared(del'[f].key)
    BY <1>11 DEF ClearedOK
  <2>3. \A j \in Keys : j \notin files' => Cleared(j)
    BY <1>11 DEF ClearedOK
  <2> QED BY <2>1, <2>2, <2>3 DEF ClearedOK
<1>12. ASSUME del[d].pc \in {"files", "remove"} PROVE Cleared(k)
  BY <1>12 DEF ClearedOK, k
<1>13. CASE DelFiles(d) \/ DelFails(d) \/ DelRemove(d)
  <2>1. /\ del[d].pc \in {"files", "remove"} /\ job' = job /\ files' \in {files, files \ {k}}
        /\ DelTo(d, "remove") \/ DGoes(d, IdleDel) \/ DelTo(d, "close")
    BY <1>13 DEF DelFiles, DelFails, DelRemove, At, vars, k
  <2>2. /\ del'[d].pc \in {"idle", "remove", "close"} /\ (del'[d].pc # "idle" => del'[d].key = k)
        /\ \A f \in Deleters : f # d => del'[f] = del[f]
    BY <1>3, <1>4, <1>5, <2>1
  <2> QED BY <1>11, <1>12, <2>1, <2>2
<1>14. CASE DelClose(d)
  <2>1. del[d].pc = "close" /\ UNCHANGED <<job, files>> /\ DGoes(d, IdleDel)
    BY <1>14 DEF DelClose, At
  <2> QED BY <1>3, <1>5, <1>6, <2>1
<1> QED BY <1>7, <1>8, <1>9, <1>10, <1>13, <1>14 DEF DelSteps

LEMMA StepCleared ==
  ASSUME ~Concurrent, ~Strays, AnyClients, Sound, ClearedOK, [DNext]_dvars
  PROVE  ClearedOK'
<1> USE DEF maps, heap, db
<1>0. AnyClients' /\ StateOK /\ DelTyped
  BY StepAnyClients DEF AnyClients, EngineTyped
<1>1. CASE EngineStep
  BY <1>0, <1>1, ClearedEngine
<1>2. ASSUME UNCHANGED <<job, files, exec, del>> PROVE ClearedOK'
  BY <1>2 DEF ClearedOK, Cleared
<1>3. ASSUME NEW k \in Keys, CreateJob(k) PROVE ClearedOK'
  <2>1. UNCHANGED <<job, exec, del>> /\ files \subseteq files'
    BY <1>3 DEF CreateJob
  <2> QED BY <2>1 DEF ClearedOK, Cleared
<1>4. ASSUME NEW d \in Deleters, NEW g \in Killers, NEW k \in Keys, DelJob(d, g, k) PROVE ClearedOK'
  <2> DEFINE r == [pc |-> "check", key |-> k, wait |-> 0]
  <2>1. UNCHANGED <<files, exec>> /\ DGoes(d, r)
    BY <1>4 DEF DelJob
  <2>2. del'[d].pc = "check" /\ \A f \in Deleters : f # d => del'[f] = del[f]
    BY <1>0, <2>1, DelMoves
  <2>3. \A j \in Keys, n \in Seqs : job[j][n] = None => job'[j][n] = None
    BY <1>0, <1>4 DEF DelJob, StateOK
  <2>4. \A j \in Keys : Cleared(j) => Cleared(j)'
    BY <2>1, <2>3 DEF Cleared
  <2>5. \A f \in Deleters : del[f].pc # "idle" => del[f].key \in Keys
    BY <1>0 DEF DelTyped, DelState
  <2>6. ASSUME NEW f \in Deleters, del'[f].pc \in {"files", "remove", "close"} PROVE Cleared(del[f].key)'
    <3>1. del'[f] = del[f] /\ del[f].key \in Keys /\ Cleared(del[f].key)
      BY <2>2, <2>5, <2>6 DEF ClearedOK
    <3> QED BY <2>4, <3>1 DEF Cleared
  <2> QED BY <2>1, <2>2, <2>4, <2>6 DEF ClearedOK, Cleared
<1>5. ASSUME NEW e \in Runs, RecvClosed(e) PROVE ClearedOK'
  <2> DEFINE r == [exec[e] EXCEPT !.chan = killChan[exec[e].key]]
  <2>1. exec[e].pc = "select" /\ Goes(e, r) /\ UNCHANGED <<job, files, del>>
    BY <1>5 DEF RecvClosed
  <2>2. r.pc = exec[e].pc /\ r.key = exec[e].key
    BY <1>0, <2>1 DEF StateOK, RunState
  <2> HIDE DEF r
  <2>3. \A f \in Runs : exec'[f].pc = exec[f].pc /\ exec'[f].key = exec[f].key
    BY <1>0, <2>1, <2>2, GoesOnly
  <2>4. \A j : Cleared(j)' <=> Cleared(j)
    BY <2>1, <2>3 DEF Cleared
  <2> QED BY <2>1, <2>4 DEF ClearedOK
<1>6. CASE DRestart
  <2>1. /\ UNCHANGED <<job, files>>
        /\ \A e \in Runs : exec'[e].pc = "idle"
        /\ \A d \in Deleters : del'[d].pc = "idle"
    BY <1>6 DEF DRestart, Restart, IdleRun, IdleDel
  <2> QED BY <2>1 DEF ClearedOK, Cleared
<1>7. CASE Panic
  BY <1>2, <1>7 DEF Panic
<1>8. CASE UNCHANGED dvars
  BY <1>2, <1>8 DEF dvars, vars
<1>9. ASSUME NEW d \in Deleters, DrainSteps(d) PROVE ClearedOK'
  BY <1>2, <1>9 DEF DrainSteps, DrainLookup, DrainRecv, vars
<1> QED BY <1>1, <1>3, <1>4, <1>5, <1>6, <1>7, <1>8, <1>9, EngineSteps, ClearedDeletion DEF DNext, RunGoes

-----------------------------------------------------------------------------
(* Where nothing is left of job k its counter may start anew.                  *)
LEMMA CountedAnew ==
  ASSUME RecordsOK, NEW k \in Keys, Cleared(k), UNCHANGED <<server, job, exec>>,
         \A j \in Keys : j # k => seqNo'[j] = seqNo[j], StateOK
  PROVE  RecordsOK'
<1>1. \A j \in Keys, n \in Seqs : job'[j][n] # None => n <= seqNo'[j]
  BY DEF RecordsOK, Cleared
<1>2. ASSUME NEW e \in Runs, Alive(e)' PROVE exec'[e].seq \in Seqs /\ exec'[e].seq <= seqNo'[exec'[e].key]
  <2>1. Alive(e) /\ exec[e].key \in Keys /\ exec[e].key # k
    BY <1>2, Indices DEF Alive, RunPC, Cleared
  <2> QED BY <2>1 DEF RecordsOK
<1>3. ASSUME NEW e \in Runs, exec'[e].pc \in Opened PROVE OpenAt(exec[e].key, exec[e].seq)'
  BY <1>3 DEF RecordsOK, OpenAt, Record
<1> QED BY <1>1, <1>2, <1>3 DEF RecordsOK, Alive

(* delJob deletes records of executions that are gone.                         *)
LEMMA DeletedRecords ==
  ASSUME AnyClients, Sound, RecordsOK, NEW d \in Deleters, DelRecords(d)
  PROVE  RecordsOK'
<1> DEFINE k == del[d].key
<1>1. /\ StateOK /\ k \in Keys /\ UNCHANGED <<server, seqNo, exec>>
      /\ job' = [job EXCEPT ![k] = [n \in Seqs |-> None]] /\ Busy(k) = {}
  BY PlaceTyped DEF AnyClients, EngineTyped, DelRecords, At, Sound, Alone
<1> HIDE DEF k
<1>2. job'[k] = [n \in Seqs |-> None] /\ \A j \in Keys : j # k => job'[j] = job[j]
  BY <1>1 DEF StateOK
<1>3. \A j \in Keys, n \in Seqs : job'[j][n] # None => job[j][n] # None
  BY <1>2
<1>4. ASSUME NEW e \in Runs, exec[e].pc \in Opened PROVE OpenAt(exec[e].key, exec[e].seq)'
  <2>1. Alive(e) /\ exec[e].key \in Keys /\ exec[e].key # k
    BY <1>1, <1>4, Indices, Places DEF Alive, Busy
  <2>2. job'[exec[e].key] = job[exec[e].key] /\ OpenAt(exec[e].key, exec[e].seq)
    BY <1>2, <1>4, <2>1 DEF RecordsOK
  <2> QED BY <1>1, <2>2 DEF OpenAt, Record
<1> QED BY <1>1, <1>3, <1>4 DEF RecordsOK, Alive

(* SetAllCancelled marks the records, and leaves them open.                    *)
LEMMA AskedRecords ==
  ASSUME StateOK, RecordsOK, NEW d \in Deleters, NEW g \in Killers, NEW k \in Keys, DelJob(d, g, k)
  PROVE  RecordsOK'
<1>1. UNCHANGED <<server, seqNo, exec>> /\ server = "up"
  BY DEF DelJob, MayAsk
<1>2. \A j \in Keys : j # k => job'[j] = job[j]
  BY DEF DelJob, StateOK
<1>3. \A n \in Seqs : job'[k][n] = IF job[k][n] = None THEN None
                                   ELSE [job[k][n] EXCEPT !.cancelled = EXEC_CANCELLED]
  BY DEF DelJob, StateOK
<1>4. \A n \in Seqs : job[k][n] # None => /\ job'[k][n] \in Row /\ job'[k][n] # None
                                          /\ job'[k][n].finished = job[k][n].finished
  <2> SUFFICES ASSUME NEW n \in Seqs, job[k][n] # None
               PROVE  job'[k][n] \in Row /\ job'[k][n] # None /\ job'[k][n].finished = job[k][n].finished
    OBVIOUS
  <2>1. job[k][n] \in Row
    BY DEF StateOK
  <2> QED BY <1>3, <2>1, NoneAssumption DEF Row, EXEC_CANCELLED
<1>5. \A j \in Keys, n \in Seqs : job'[j][n] # None => job[j][n] # None
  BY <1>2, <1>3
<1>6. \A j \in Keys, n \in Seqs : OpenAt(j, n) => OpenAt(j, n)'
  BY <1>2, <1>4 DEF OpenAt, Record, Done
<1> QED BY <1>1, <1>5, <1>6, RecordSame

LEMMA StepNumbers ==
  ASSUME ~Concurrent, FirstSeq = 0, AnyClients, Sound, ClearedOK, server = "up", RecordsOK,
         [DNext]_dvars, ~Panic
  PROVE  RecordsOK'
<1> USE DEF maps, heap, db
<1>0. StateOK /\ DelTyped
  BY DEF AnyClients, EngineTyped
<1>1. CASE EngineStep
  BY <1>0, <1>1, StepRecords, EngineIsNext
<1>2. CASE UNCHANGED <<server, seqNo, job, exec>>
  <2>1. \A j \in Keys, n \in Seqs : OpenAt(j, n) => OpenAt(j, n)'
    BY <1>2 DEF OpenAt, Record
  <2> QED BY <1>0, <1>2, <2>1, RecordSame
<1>3. ASSUME NEW k \in Keys, CreateJob(k) PROVE RecordsOK'
  <2>1. UNCHANGED <<server, job, exec>> /\ seqNo' = [seqNo EXCEPT ![k] = 0] /\ k \notin files
    BY <1>3 DEF CreateJob, Exists
  <2>2. Cleared(k) /\ \A j \in Keys : j # k => seqNo'[j] = seqNo[j]
    BY <1>0, <2>1 DEF ClearedOK, StateOK
  <2> QED BY <1>0, <2>1, <2>2, CountedAnew
<1>4. ASSUME NEW d \in Deleters, DelClose(d) PROVE RecordsOK'
  <2> DEFINE k == del[d].key
  <2>1. /\ k \in Keys /\ UNCHANGED <<server, job, exec>> /\ del[d].pc = "close"
        /\ seqNo' = seqNo \/ seqNo' = [seqNo EXCEPT ![k] = 0]
    BY <1>0, <1>4, PlaceTyped DEF DelClose, At, DropEntry
  <2>2. Cleared(k) /\ \A j \in Keys : j # k => seqNo'[j] = seqNo[j]
    BY <1>0, <2>1 DEF ClearedOK, StateOK
  <2> HIDE DEF k
  <2> QED BY <1>0, <2>1, <2>2, CountedAnew
<1>5. ASSUME NEW d \in Deleters, DelSteps(d), ~DelClose(d), ~DelRecords(d) PROVE RecordsOK'
  BY <1>2, <1>5 DEF DelSteps, DelCheck, DelLookup, DelWait, DelFiles, DelFails, DelRemove, vars
<1>6. ASSUME NEW d \in Deleters, DrainSteps(d) PROVE RecordsOK'
  BY <1>2, <1>6 DEF DrainSteps, DrainLookup, DrainRecv, vars
<1>7. ASSUME NEW e \in Runs, RecvClosed(e) PROVE RecordsOK'
  <2> DEFINE r == [exec[e] EXCEPT !.chan = killChan[exec[e].key]]
  <2>1. exec[e].pc = "select" /\ Goes(e, r) /\ UNCHANGED <<server, seqNo, job>>
    BY <1>7 DEF RecvClosed
  <2>2. r.pc = "select" /\ r.key = exec[e].key /\ r.seq = exec[e].seq
    BY <1>0, <2>1 DEF StateOK, RunState
  <2> HIDE DEF r
  <2>3. Moved(e, {"select"}) /\ Alive(e)
    BY <1>0, <2>1, <2>2, MoveTo DEF Alive, RunPC
  <2>4. exec'[e].pc = "select"
    BY <2>3 DEF Moved
  <2>5. RowsKept(e) /\ {"select"} \in SUBSET RunPC
    BY <2>1, SameRows DEF RunPC
  <2> QED BY <1>0, <2>1, <2>3, <2>4, <2>5, RecordMove
<1>8. CASE DRestart
  BY <1>8, RestartRecords DEF DRestart
<1>9. CASE UNCHANGED dvars
  BY <1>2, <1>9 DEF dvars, vars
<1> QED BY <1>0, <1>1, <1>3, <1>4, <1>5, <1>6, <1>7, <1>8, <1>9, EngineSteps, DeletedRecords, AskedRecords
        DEF DNext, RunGoes

LEMMA StrayedStep ==
  ASSUME [HDNext]_hdvars
  PROVE  [DNext]_dvars /\ (~strayed' => ~strayed /\ (~Strays \/ UNCHANGED hdvars))
<1>1. CASE UNCHANGED hdvars
  <2>1. dvars' = dvars /\ strayed' = strayed
    BY <1>1 DEF hdvars
  <2> QED BY <1>1, <2>1
<1>2. CASE HDNext
  BY <1>2 DEF HDNext
<1> QED BY <1>1, <1>2

(* The inductive invariant of the numbers across deletions.                    *)
NumbersOK == IInv /\ (~strayed => ClearedOK /\ (server = "up" => RecordsOK))

LEMMA StepUnstrayed ==
  ASSUME ~Concurrent, FirstSeq = 0, IInv, ClearedOK, server = "up" => RecordsOK, ~Strays, [DNext]_dvars
  PROVE  ClearedOK' /\ (server' = "up" => RecordsOK')
<1> USE DEF maps, heap, db
<1>1. AnyClients /\ Sound
  BY DEF IInv
<1>2. ClearedOK'
  BY <1>1, StepCleared
<1>3. CASE server = "up" /\ ~Panic
  BY <1>1, <1>2, <1>3, StepNumbers
<1>4. CASE Panic
  BY <1>2, <1>4 DEF Panic
<1>5. CASE server # "up" /\ DRestart
  BY <1>2, <1>5, RestartRecords DEF DRestart
<1>6. CASE server # "up" /\ ~DRestart /\ ~Panic
  <2>1. server' = server
    BY <1>6 DEF DNext, RunGoes, RunStep, RecvClosed, KillStep, OtherStep, Request, CreateJob, MayAsk,
       DelJob, DelSteps, DelCheck, DelLookup, DelWait, DelRecords, DelFiles, DelFails, DelRemove, DelClose, At,
       DrainSteps, DrainLookup, DrainRecv, dvars, vars
  <2> QED BY <1>2, <1>6, <2>1
<1> QED BY <1>3, <1>4, <1>5, <1>6

LEMMA Numbers ==
  ASSUME ~Concurrent, FirstSeq = 0
  PROVE  HDSpec => []NumbersOK
<1>1. HDInit => NumbersOK
  <2> SUFFICES ASSUME HDInit PROVE NumbersOK
    OBVIOUS
  <2>1. IInv /\ RecordsOK
    BY InitAnyClients, InitSound, InitRecords DEF IInv, HDInit, DInit
  <2>2. ClearedOK
    BY DEF HDInit, DInit, Init, ClearedOK, IdleDel
  <2> QED BY <2>1, <2>2 DEF NumbersOK
<1>2. NumbersOK /\ [HDNext]_hdvars => NumbersOK'
  <2> SUFFICES ASSUME NumbersOK, [HDNext]_hdvars PROVE NumbersOK'
    OBVIOUS
  <2>1. IInv /\ [DNext]_dvars
    BY StrayedStep DEF NumbersOK
  <2>2. IInv'
    BY <2>1, StepAnyClients, StepSound DEF IInv
  <2>3. ASSUME ~strayed', ~Strays PROVE ClearedOK' /\ (server' = "up" => RecordsOK')
    BY <2>1, <2>3, StrayedStep, StepUnstrayed DEF NumbersOK
  <2>4. ASSUME ~strayed', UNCHANGED hdvars PROVE ClearedOK' /\ (server' = "up" => RecordsOK')
    <3>1. ~strayed /\ ClearedOK /\ (server = "up" => RecordsOK)
      BY <2>4 DEF NumbersOK, hdvars
    <3>2. UNCHANGED <<server, seqNo, job, exec, files, del>>
      BY <2>4 DEF hdvars, dvars, vars, maps, heap, db
    <3>3. \A k, n : Record(k, n)' = Record(k, n)
      BY <3>2 DEF Record
    <3> QED BY <3>1, <3>2, <3>3 DEF ClearedOK, Cleared, RecordsOK, OpenAt, Alive, Record
  <2>5. ~strayed' => ClearedOK' /\ (server' = "up" => RecordsOK')
    BY <2>3, <2>4, StrayedStep
  <2> QED BY <2>2, <2>5 DEF NumbersOK
<1> QED BY <1>1, <1>2, PTL DEF HDSpec

(* Where clients wait for answers, and none of them executed a job without     *)
(* configuration file so far, an execution of a job made anew meets no record  *)
(* of its earlier life, also where creations and deletions gave up: the server *)
(* is ended by panics only (InsertExecutionRecord, GetCancelStatus, createJob).*)
THEOREM NoClashAcrossDeletions ==
  ASSUME ~Concurrent, FirstSeq = 0
  PROVE  HDSpec => FatalOnlyByPanic
<1>1. NumbersOK /\ [HDNext]_hdvars => [server = "up" /\ server' # "up" /\ ~strayed => Panics]_hdvars
  <2> SUFFICES ASSUME NumbersOK, [HDNext]_hdvars, server = "up", server' # "up", ~strayed PROVE Panics
    OBVIOUS
  <2>1. AnyClients /\ Sound /\ ClearedOK /\ RecordsOK /\ [DNext]_dvars
    BY StrayedStep DEF NumbersOK, IInv
  <2>2. ~Panic => RecordsOK'
    BY <2>1, StepNumbers
  <2> QED BY <2>2 DEF RecordsOK, Panic
<1> QED BY <1>1, Numbers, PTL DEF HDSpec, FatalOnlyByPanic

(* A step of the engine with deletions is a step of SerialJobs, or none.       *)
LEMMA SerialDeletion ==
  ASSUME ~Concurrent, IInv, server = "up" => RecordsOK, [DNext]_dvars
  PROVE  SerialStep
<1> USE DEF maps, heap, db
<1>0. StateOK /\ IndexOK /\ SlotOK
  BY DEF IInv, AnyClients, EngineTyped, Sound
<1>1. CASE EngineStep
  <2>1. EngineOK
    BY <1>0, <1>1 DEF EngineStep, EngineOK
  <2> QED BY <1>1, <2>1, EngineIsNext, SerialNext DEF SerialStep
<1>2. CASE exec' = exec
  BY <1>2, KeptSame, AllKept
<1>3. ASSUME NEW e \in Runs, RecvClosed(e) PROVE SerialStep
  <2> DEFINE r == [exec[e] EXCEPT !.chan = killChan[exec[e].key]]
  <2>1. exec[e].pc = "select" /\ Goes(e, r)
    BY <1>3 DEF RecvClosed
  <2>2. r.pc \in SlotPC /\ r.key = exec[e].key /\ r.seq = exec[e].seq
    BY <1>0, <2>1 DEF StateOK, RunState, SlotPC, RunPC
  <2> HIDE DEF r
  <2>3. Moved(e, SlotPC) /\ InSlot(e)
    BY <1>0, <2>1, <2>2, MoveTo DEF InSlot, SlotPC, RunPC
  <2> QED BY <2>3, StaysInSlot
<1>4. CASE DRestart
  BY <1>4, CrashStep DEF DRestart, Restart, IdleRun, Alive, RunPC
<1>5. ASSUME NEW d \in Deleters, DelSteps(d) \/ DrainSteps(d) PROVE exec' = exec
  BY <1>5 DEF DelSteps, DelCheck, DelLookup, DelWait, DelRecords, DelFiles, DelFails, DelRemove, DelClose,
     DrainSteps, DrainLookup, DrainRecv, vars
<1>6. (\E k \in Keys : CreateJob(k)) \/ Panic \/ UNCHANGED dvars
        \/ (\E d \in Deleters, g \in Killers, k \in Keys : DelJob(d, g, k)) => exec' = exec
  BY DEF CreateJob, Panic, DelJob, dvars, vars
<1> QED BY <1>1, <1>2, <1>3, <1>4, <1>5, <1>6, EngineSteps DEF DNext, RunGoes

(* What SerialJobs sees while no job without a file was executed, and later.   *)
AnewVar == [e \in Runs |-> AnewRun(e)]

LEMMA AnewStep ==
  ASSUME SerialStep, ~strayed, ~strayed'
  PROVE  Anew!Next \/ UNCHANGED AnewVar
<1>1. [e \in Runs |-> AnewRun(e)] = [e \in Runs |-> AbstractRun(e)]
  BY DEF AnewRun
<1>2. [e \in Runs |-> AnewRun(e)]' = [e \in Runs |-> AbstractRun(e)]'
  BY DEF AnewRun
<1>3. CASE UNCHANGED RunsVar
  BY <1>1, <1>2, <1>3 DEF RunsVar, AnewVar
<1>4. \A k : Anew!Live(k) = Abstract!Live(k)
  BY <1>1 DEF Anew!Live, Abstract!Live
<1>5. ASSUME NEW e \in Runs, NEW k \in Keys, NEW n \in Seqs, Abstract!Submit(e, k, n) PROVE Anew!Submit(e, k, n)
  BY <1>1, <1>2, <1>4, <1>5 DEF Anew!Submit, Abstract!Submit, Anew!Free, Abstract!Free
<1>6. ASSUME NEW e \in Runs, Abstract!Start(e) PROVE Anew!Start(e)
  BY <1>1, <1>2, <1>4, <1>6 DEF Anew!Start, Abstract!Start
<1>7. ASSUME NEW e \in Runs, Abstract!Finish(e) PROVE Anew!Finish(e)
  BY <1>1, <1>2, <1>7 DEF Anew!Finish, Abstract!Finish, Anew!Free, Abstract!Free
<1>8. ASSUME Abstract!Crash PROVE Anew!Crash
  BY <1>2, <1>8 DEF Anew!Crash, Abstract!Crash, Anew!Free, Abstract!Free
<1> QED BY <1>3, <1>5, <1>6, <1>7, <1>8 DEF SerialStep, Anew!Next, Abstract!Next

(* Under the same conditions channels, locks, tables, deletions and restarts   *)
(* together give what SerialJobs promises: the executions of a job run one at  *)
(* a time, under numbers that no other live one has, also when the job is made *)
(* anew and counts from 0 (execJob, runJobExecution, delJob, createJob).       *)
THEOREM SerialJobsSurviveDeletion ==
  ASSUME ~Concurrent, FirstSeq = 0
  PROVE  HDSpec => SerialJobsAnew
<1>1. HDInit => Anew!Init
  <2> SUFFICES ASSUME HDInit PROVE Anew!Init
    OBVIOUS
  <2>1. Abstract!Init /\ ~strayed
    BY SerialInit DEF HDInit, DInit
  <2> QED BY <2>1 DEF Anew!Init, Abstract!Init, AnewRun, Anew!Free, Abstract!Free
<1>2. NumbersOK /\ [HDNext]_hdvars => [Anew!Next]_AnewVar
  <2> SUFFICES ASSUME NumbersOK, [HDNext]_hdvars PROVE Anew!Next \/ UNCHANGED AnewVar
    OBVIOUS
  <2>1. CASE ~strayed'
    <3>1. ~strayed /\ [DNext]_dvars
      BY <2>1, StrayedStep
    <3>2. SerialStep
      BY <3>1, SerialDeletion DEF NumbersOK
    <3> QED BY <2>1, <3>1, <3>2, AnewStep
  <2>2. CASE strayed'
    <3>1. [e \in Runs |-> AnewRun(e)]' = [e \in Runs |-> Anew!Free]
      BY <2>2 DEF AnewRun, Anew!Free
    <3>2. Anew!Crash
      BY <3>1 DEF Anew!Crash
    <3> QED BY <3>2 DEF Anew!Next
  <2> QED BY <2>1, <2>2
<1> QED BY <1>1, <1>2, Numbers, PTL DEF HDSpec, SerialJobsAnew, Anew!Spec, AnewVar
=============================================================================
