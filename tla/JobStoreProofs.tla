--------------------------- MODULE JobStoreProofs ---------------------------
(***************************************************************************)
(* Proofs about JobStore, for any jobs, configurations and number of       *)
(* requests under way: rows and files agree, three things only can end the *)
(* process, and cache, file and restarts implement ConfigStore.            *)
(***************************************************************************)
EXTENDS JobStore, WellFoundedInduction, TLAPS

Writing  == {"add", "number", "mkdir", "open", "write", "view"}
Loading  == {"get", "load", "fill", "run"}
Removing == {"records", "row", "files", "remove"}

(* Which operation can be where, and for which key. *)
OpOK(r) ==
  /\ r.pc = "idle" <=> r = Idle
  /\ r.pc # "idle" => r.job \in Jobs /\ r.key = KeyOf(r.op, r.job)
  /\ r.pc \in Writing => r.op \in {"create", "update", "insert"} /\ r.val \in Configs
  /\ r.pc \in {"number", "mkdir"} => r.op # "update"
  /\ r.pc = "view" => r.op = "create"
  /\ r.pc \in Loading => r.op \in Readers
  /\ r.pc \in Removing => r.op = "delete" /\ r.val = None

(* What a request can rely on after what it has done so far. *)
Facts(c) ==
  /\ req[c].pc \in {"number", "mkdir", "open", "write", "view", "row", "files", "remove"} =>
       req[c].key \notin sure
  /\ req[c].pc \in {"write", "view"} \/ (req[c].pc = "open" /\ req[c].op # "update") =>
       req[c].key \in dir
  /\ req[c].pc \in {"number", "mkdir", "open", "write", "view"} =>
       cache[req[c].key] \in {None, req[c].val}
  /\ req[c].pc = "view" => file[req[c].key] = req[c].val
  /\ req[c].pc \in {"files", "remove"} => req[c].key \notin rows
  /\ req[c].pc = "remove" => file[req[c].key] = None
  /\ req[c].pc = "fill" => req[c].val = file[req[c].key] /\ req[c].val # None
  /\ req[c].pc \in {"row", "files", "remove"} => records[req[c].key] = {}
  /\ ~failed /\ req[c].op = "update" => req[c].key \in dir
  /\ ~failed /\ ~strayed /\ req[c].pc \in {"add", "number"} /\ req[c].op # "update" =>
       records[req[c].key] = {}

(* A request that changes a key is alone with it. *)
Exclusive ==
  \A c, d \in Clients :
    c # d /\ req[c].pc # "idle" /\ req[d].pc # "idle" /\ req[c].key = req[d].key =>
      req[c].op \in Readers /\ req[d].op \in Readers

(* The cache has k, and there is no directory for a moment. *)
Busy(k) == \E c \in Clients : req[c].key = k /\ req[c].pc \in {"number", "mkdir", "open", "remove"}

(* How cache, file, directory, row, number and records of a key belong         *)
(* together.                                                                   *)
KeyOK(k) ==
  /\ file[k] # None => k \in dir
  /\ k \in sure /\ cache[k] # None => cache[k] = file[k]
  /\ k \in Jobs /\ k \in sure => (k \in rows <=> file[k] # None)
  /\ ~failed => file[k] # Torn /\ (cache[k] # None => k \in dir \/ Busy(k))
  /\ ~failed /\ ~strayed => /\ records[k] # {} => file[k] # None
                            /\ \A n \in records[k] : n <= seqNo[k]

(* The inductive invariant. *)
IInv ==
  /\ TypeOK
  /\ FatalOnlyAfterFailure
  /\ Exclusive
  /\ \A c \in Clients : OpOK(req[c]) /\ Facts(c)
  /\ \A k \in Keys : KeyOK(k)

-----------------------------------------------------------------------------
LEMMA KeysOfJobs ==
  ASSUME NEW op, NEW j \in Jobs
  PROVE  /\ KeyOf(op, j) \in Keys
         /\ op \notin {"update", "insert"} => KeyOf(op, j) = j
         /\ op \in {"update", "insert"} => KeyOf(op, j) \notin Jobs
  BY SpacesAssumption DEF KeyOf, Jobs, Keys

LEMMA JobsAreKeys == Jobs \subseteq Keys
  BY DEF Jobs, Keys

LEMMA Values ==
  /\ None \in Stored /\ Empty \in Stored /\ Torn \in Stored /\ Configs \subseteq Stored
  /\ None # Empty /\ None # Torn /\ Empty # Torn
  /\ Unknown \notin Stored
  /\ \A v \in Configs : v # None /\ v # Empty /\ v # Torn
  BY ValuesAssumption DEF Stored

LEMMA IdleTyped == Idle \in ReqState /\ OpOK(Idle)
  BY Values DEF Idle, ReqState, OpOK, Writing, Loading, Removing

(* A request under way has a key. *)
LEMMA HasKey ==
  ASSUME IInv, NEW c \in Clients, req[c].pc # "idle"
  PROVE  req[c].key \in Keys /\ req[c].job \in Jobs /\ req[c].key = KeyOf(req[c].op, req[c].job)
  BY KeysOfJobs DEF IInv, OpOK

(* How a step of request c at key k leaves everything else alone. *)
Same(l) ==
  /\ cache'[l] = cache[l] /\ seqNo'[l] = seqNo[l] /\ file'[l] = file[l] /\ records'[l] = records[l]
  /\ l \in dir' <=> l \in dir
  /\ l \in rows' <=> l \in rows
  /\ l \in sure' <=> l \in sure

Frame(c, k) ==
  /\ \A d \in Clients : d # c => req'[d] = req[d]
  /\ \A l \in Keys : l # k => Same(l)
  /\ req'[c] = Idle \/ (req'[c].op = req[c].op /\ req'[c].key = k /\ req'[c].job = req[c].job)
  /\ req[c].op \in Readers => file'[k] = file[k]
  /\ failed => failed'
  /\ strayed => strayed'
  /\ server' = "up" \/ FatalOnlyAfterFailure'

LEMMA StepAt ==
  ASSUME IInv, NEW c \in Clients, NEW k \in Keys, k = req[c].key, req[c].pc # "idle",
         Frame(c, k), TypeOK', OpOK(req[c])', Facts(c)', KeyOK(k)'
  PROVE  IInv'
<1>1. FatalOnlyAfterFailure'
  BY DEF FatalOnlyAfterFailure, Frame
<1>2. Exclusive'
  <2> SUFFICES ASSUME NEW a \in Clients, NEW b \in Clients, a # b,
                      req'[a].pc # "idle", req'[b].pc # "idle", req'[a].key = req'[b].key
               PROVE  req'[a].op \in Readers /\ req'[b].op \in Readers
    BY DEF Exclusive
  <2>1. \A d \in Clients : req'[d].pc # "idle" =>
          req[d].pc # "idle" /\ req'[d].op = req[d].op /\ req'[d].key = req[d].key
    BY DEF Frame, Idle
  <2> QED BY <2>1 DEF IInv, Exclusive
<1>3. ASSUME NEW d \in Clients, d # c
      PROVE  OpOK(req[d])' /\ Facts(d)'
  <2>1. req'[d] = req[d] /\ OpOK(req[d]) /\ Facts(d)
    BY <1>3 DEF Frame, IInv
  <2>2. OpOK(req[d])'
    BY <2>1
  <2>3. CASE req[d].pc = "idle"
    BY <2>1, <2>3 DEF Facts, OpOK, Idle
  <2>4. CASE req[d].pc # "idle" /\ req[d].key # k
    <3>1. req[d].key \in Keys /\ Same(req[d].key) /\ (failed => failed') /\ (strayed => strayed')
      BY <2>4, HasKey DEF Frame
    <3> QED BY <2>1, <2>2, <3>1 DEF Facts, Same
  <2>5. CASE req[d].pc # "idle" /\ req[d].key = k
    <3>1. req[d].op \in Readers /\ req[c].op \in Readers
      BY <1>3, <2>5 DEF IInv, Exclusive
    <3>2. req[d].pc \in Loading
      BY <2>1, <2>5, <3>1 DEF IInv, TypeOK, ReqState, OpOK, Readers, Loading, Writing, Removing
    <3>3. file'[k] = file[k]
      BY <3>1 DEF Frame
    <3> QED BY <2>1, <2>2, <2>5, <3>1, <3>2, <3>3 DEF Facts, Loading, Readers
  <2> QED BY <2>3, <2>4, <2>5, <2>2
<1>4. ASSUME NEW l \in Keys, l # k
      PROVE  KeyOK(l)'
  <2>1. Same(l) /\ KeyOK(l) /\ (failed => failed') /\ (strayed => strayed')
    BY <1>4 DEF Frame, IInv
  <2>2. Busy(l) => Busy(l)'
    BY <1>4 DEF Busy, Frame
  <2> QED BY <2>1, <2>2 DEF KeyOK, Same
<1> QED BY <1>1, <1>2, <1>3, <1>4 DEF IInv

-----------------------------------------------------------------------------
PCs == {"idle", "add", "number", "mkdir", "open", "write", "view", "get", "load", "fill", "run",
        "records", "row", "files", "remove"}

LEMMA GoesTo ==
  ASSUME TypeOK, NEW c \in Clients, NEW pc \in PCs, Goes(c, pc)
  PROVE  /\ req' \in [Clients -> ReqState]
         /\ \A d \in Clients : d # c => req'[d] = req[d]
         /\ req'[c].pc = pc /\ req'[c].op = req[c].op /\ req'[c].job = req[c].job
         /\ req'[c].key = req[c].key /\ req'[c].val = req[c].val
<1>1. req \in [Clients -> ReqState]
  BY DEF TypeOK
<1>2. [req[c] EXCEPT !.pc = pc] \in ReqState
  BY <1>1 DEF ReqState, PCs
<1>3. req' = [req EXCEPT ![c] = [req[c] EXCEPT !.pc = pc]]
  BY <1>1 DEF Goes
<1>4. req' \in [Clients -> ReqState] /\ req'[c] = [req[c] EXCEPT !.pc = pc] /\ \A d \in Clients : d # c => req'[d] = req[d]
  BY <1>1, <1>2, <1>3
<1> QED BY <1>1, <1>4 DEF ReqState

LEMMA EndsAt ==
  ASSUME TypeOK, NEW c \in Clients, Ends(c)
  PROVE  /\ req' \in [Clients -> ReqState] /\ req'[c] = Idle
         /\ \A d \in Clients : d # c => req'[d] = req[d]
  BY IdleTyped DEF TypeOK, Ends

LEMMA IdleOK ==
  ASSUME NEW c \in Clients, req'[c] = Idle
  PROVE  OpOK(req[c])' /\ Facts(c)'
<1>1. OpOK(req[c])'
  BY IdleTyped
<1>2. req'[c].pc = "idle" /\ req'[c].op = "none"
  BY DEF Idle
<1> QED BY <1>1, <1>2 DEF Facts

LEMMA AtKey ==
  ASSUME IInv, NEW c \in Clients, req[c].pc # "idle"
  PROVE  /\ OpOK(req[c]) /\ Facts(c) /\ req[c] \in ReqState
         /\ req[c].key \in Keys /\ KeyOK(req[c].key)
         /\ TypeOK /\ FatalOnlyAfterFailure
  BY HasKey DEF IInv, TypeOK

(* While c changes k nobody else makes the cache of k differ from the file.    *)
LEMMA BusySelf ==
  ASSUME IInv, NEW c \in Clients, NEW k \in Keys, k = req[c].key, req[c].pc # "idle", Busy(k)
  PROVE  req[c].pc \in {"number", "mkdir", "open", "remove"}
<1>1. PICK d \in Clients : req[d].key = k /\ req[d].pc \in {"number", "mkdir", "open", "remove"}
  BY DEF Busy
<1>2. CASE d = c
  BY <1>1, <1>2
<1>3. CASE d # c
  <2>1. req[d].op \in Readers
    BY <1>1, <1>3 DEF IInv, Exclusive
  <2>2. OpOK(req[d])
    BY DEF IInv
  <2> QED BY <1>1, <2>1, <2>2 DEF OpOK, Readers, Writing, Removing
<1> QED BY <1>2, <1>3

LEMMA Add_Inv ==
  ASSUME IInv, server = "up", NEW c \in Clients, NEW k \in Keys, k = req[c].key, Add(c)
  PROVE  IInv' /\ Frame(c, k)
<1> DEFINE pc == IF req[c].op = "update" THEN "open" ELSE "number"
<1>1. req[c].pc = "add" /\ OpOK(req[c]) /\ Facts(c) /\ KeyOK(k) /\ TypeOK /\ FatalOnlyAfterFailure
  BY AtKey DEF Add, At
<1>2. /\ req' \in [Clients -> ReqState] /\ \A d \in Clients : d # c => req'[d] = req[d]
      /\ req'[c].pc = pc /\ req'[c].op = req[c].op /\ req'[c].job = req[c].job
      /\ req'[c].key = k /\ req'[c].val = req[c].val
  <2>1. pc \in PCs /\ Goes(c, pc)
    BY DEF PCs, Add
  <2> HIDE DEF pc
  <2> QED BY <1>1, <2>1, GoesTo
<1>3. req[c].val \in Configs /\ cache' = [cache EXCEPT ![k] = req[c].val] /\ sure' = sure \ {k}
      /\ UNCHANGED <<server, seqNo, dir, file, rows, records, answer, failed, strayed>>
  BY <1>1 DEF Add, OpOK, Writing, disk, tables
<1>4. TypeOK'
  BY <1>1, <1>2, <1>3, Values DEF TypeOK
<1>5. Frame(c, k)
  <2>1. req[c].op \notin Readers
    BY <1>1 DEF OpOK, Writing, Readers
  <2> QED BY <1>1, <1>2, <1>3, <2>1 DEF Frame, Same, TypeOK
<1>6. cache'[k] = req[c].val /\ k \notin sure'
  BY <1>1, <1>3 DEF TypeOK
<1>7. OpOK(req[c])'
  BY <1>1, <1>2 DEF OpOK, Idle, Writing, Loading, Removing
<1>8. Facts(c)'
  BY <1>1, <1>2, <1>3, <1>6 DEF Facts
<1>9. KeyOK(k)'
  <2>1. Busy(k)'
    BY <1>2 DEF Busy
  <2> QED BY <1>1, <1>3, <1>6, <2>1 DEF KeyOK
<1> QED BY <1>1, <1>4, <1>5, <1>7, <1>8, <1>9, StepAt

LEMMA ResetSeqNo_Inv ==
  ASSUME IInv, server = "up", NEW c \in Clients, NEW k \in Keys, k = req[c].key, ResetSeqNo(c)
  PROVE  IInv' /\ Frame(c, k)
<1>1. req[c].pc = "number" /\ OpOK(req[c]) /\ Facts(c) /\ KeyOK(k) /\ TypeOK /\ FatalOnlyAfterFailure
  BY AtKey DEF ResetSeqNo, At
<1>2. /\ req' \in [Clients -> ReqState] /\ \A d \in Clients : d # c => req'[d] = req[d]
      /\ req'[c].pc = "mkdir" /\ req'[c].op = req[c].op /\ req'[c].job = req[c].job
      /\ req'[c].key = k /\ req'[c].val = req[c].val
  BY <1>1, GoesTo DEF PCs, ResetSeqNo
<1>3. seqNo' = [seqNo EXCEPT ![k] = 0]
      /\ UNCHANGED <<server, cache, dir, file, rows, records, answer, sure, failed, strayed>>
  BY DEF ResetSeqNo, disk, tables, history
<1>4. TypeOK'
  BY <1>1, <1>2, <1>3, SeqAssumption DEF TypeOK
<1>5. Frame(c, k)
  <2>1. req[c].op \notin Readers
    BY <1>1 DEF OpOK, Writing, Readers
  <2> QED BY <1>1, <1>2, <1>3, <2>1 DEF Frame, Same, TypeOK
<1>6. OpOK(req[c])'
  BY <1>1, <1>2 DEF OpOK, Idle, Writing, Loading, Removing
<1>7. Facts(c)'
  BY <1>1, <1>2, <1>3 DEF Facts
<1>8. KeyOK(k)'
  <2>1. Busy(k)'
    BY <1>2 DEF Busy
  <2>2. ~failed /\ ~strayed => records[k] = {}
    BY <1>1 DEF Facts, OpOK
  <2> QED BY <1>1, <1>3, <2>1, <2>2 DEF KeyOK
<1> QED BY <1>1, <1>4, <1>5, <1>6, <1>7, <1>8, StepAt

LEMMA MakeDirs_Inv ==
  ASSUME IInv, server = "up", NEW c \in Clients, NEW k \in Keys, k = req[c].key, MakeDirs(c)
  PROVE  IInv' /\ Frame(c, k)
<1>1. req[c].pc = "mkdir" /\ OpOK(req[c]) /\ Facts(c) /\ KeyOK(k) /\ TypeOK /\ FatalOnlyAfterFailure
  BY AtKey DEF MakeDirs, At
<1>2. UNCHANGED <<server, cache, seqNo, file, rows, records, answer, sure, strayed>>
  BY DEF MakeDirs, memory, tables, history, Fails
<1>3. req[c].op \notin Readers
  BY <1>1 DEF OpOK, Writing, Readers
<1>4. CASE dir' = dir \cup {k} /\ Goes(c, "open") /\ UNCHANGED history
  <2>1. /\ req' \in [Clients -> ReqState] /\ \A d \in Clients : d # c => req'[d] = req[d]
        /\ req'[c].pc = "open" /\ req'[c].op = req[c].op /\ req'[c].job = req[c].job
        /\ req'[c].key = k /\ req'[c].val = req[c].val
    BY <1>1, <1>4, GoesTo DEF PCs
  <2>2. TypeOK'
    BY <1>1, <1>2, <1>4, <2>1 DEF TypeOK, history
  <2>3. Frame(c, k)
    BY <1>1, <1>2, <1>3, <1>4, <2>1 DEF Frame, Same, history
  <2>4. OpOK(req[c])'
    BY <1>1, <2>1 DEF OpOK, Idle, Writing, Loading, Removing
  <2>5. Facts(c)'
    BY <1>1, <1>2, <1>4, <2>1 DEF Facts, history, OpOK
  <2>6. KeyOK(k)'
    <3>1. Busy(k)'
      BY <2>1 DEF Busy
    <3> QED BY <1>1, <1>2, <1>4, <3>1 DEF KeyOK, history
  <2> QED BY <1>1, <2>2, <2>3, <2>4, <2>5, <2>6, StepAt
<1>5. CASE Fails(c) /\ UNCHANGED dir
  <2>1. req' \in [Clients -> ReqState] /\ req'[c] = Idle /\ \A d \in Clients : d # c => req'[d] = req[d]
    BY <1>1, <1>5, EndsAt DEF Fails
  <2>2. TypeOK'
    BY <1>1, <1>2, <1>5, <2>1 DEF TypeOK, Fails
  <2>3. Frame(c, k)
    BY <1>1, <1>2, <1>3, <1>5, <2>1 DEF Frame, Same, Fails
  <2>4. KeyOK(k)'
    BY <1>1, <1>2, <1>5 DEF KeyOK, Fails
  <2> QED BY <1>1, <2>1, <2>2, <2>3, <2>4, IdleOK, StepAt
<1>6. CASE dir' = dir \cup {k} /\ Ends(c) /\ UNCHANGED history
  <2>1. req' \in [Clients -> ReqState] /\ req'[c] = Idle /\ \A d \in Clients : d # c => req'[d] = req[d]
    BY <1>1, <1>6, EndsAt
  <2>2. TypeOK'
    BY <1>1, <1>2, <1>6, <2>1 DEF TypeOK, history
  <2>3. Frame(c, k)
    BY <1>1, <1>2, <1>3, <1>6, <2>1 DEF Frame, Same, history
  <2>4. k \notin sure
    BY <1>1 DEF Facts
  <2>5. KeyOK(k)'
    BY <1>1, <1>2, <1>6, <2>4 DEF KeyOK, history
  <2> QED BY <1>1, <2>1, <2>2, <2>3, <2>5, IdleOK, StepAt
<1> QED BY <1>4, <1>5, <1>6 DEF MakeDirs

LEMMA OpenFile_Inv ==
  ASSUME IInv, server = "up", NEW c \in Clients, NEW k \in Keys, k = req[c].key, OpenFile(c)
  PROVE  IInv' /\ Frame(c, k)
<1>1. req[c].pc = "open" /\ OpOK(req[c]) /\ Facts(c) /\ KeyOK(k) /\ TypeOK /\ FatalOnlyAfterFailure
  BY AtKey DEF OpenFile, At
<1>2. UNCHANGED <<cache, seqNo, dir, rows, records, answer, sure, failed, strayed>>
  BY DEF OpenFile, memory, tables, history
<1>3. req[c].op \notin Readers /\ req[c].op \in {"create", "update", "insert"}
  BY <1>1 DEF OpOK, Writing, Readers
<1>4. CASE k \in dir /\ ~Refused(c)
  <2>1. file' = [file EXCEPT ![k] = Empty] /\ Goes(c, "write") /\ server' = server
    BY <1>4 DEF OpenFile
  <2>2. /\ req' \in [Clients -> ReqState] /\ \A d \in Clients : d # c => req'[d] = req[d]
        /\ req'[c].pc = "write" /\ req'[c].op = req[c].op /\ req'[c].job = req[c].job
        /\ req'[c].key = k /\ req'[c].val = req[c].val
    BY <1>1, <2>1, GoesTo DEF PCs
  <2>3. file'[k] = Empty /\ Empty # None /\ Empty # Torn /\ \A l \in Keys : l # k => file'[l] = file[l]
    BY <1>1, <2>1, Values DEF TypeOK
  <2>4. TypeOK'
    BY <1>1, <1>2, <1>4, <2>1, <2>2, Values DEF TypeOK
  <2>5. Frame(c, k)
    BY <1>1, <1>2, <1>3, <2>1, <2>2, <2>3 DEF Frame, Same
  <2>6. OpOK(req[c])'
    BY <1>1, <2>2 DEF OpOK, Idle, Writing, Loading, Removing
  <2>7. Facts(c)'
    BY <1>1, <1>2, <1>3, <1>4, <2>2, <2>3 DEF Facts
  <2>8. KeyOK(k)'
    <3>1. k \notin sure
      BY <1>1 DEF Facts
    <3> QED BY <1>1, <1>2, <1>4, <2>3, <3>1 DEF KeyOK
  <2> QED BY <1>1, <2>4, <2>5, <2>6, <2>7, <2>8, StepAt
<1>5. CASE k \notin dir \/ Refused(c)
  <2>1. server' = "fatal" /\ UNCHANGED <<file, req>>
    BY <1>5 DEF OpenFile
  <2>2. failed \/ Refused(c)
    BY <1>1, <1>3, <1>5 DEF Facts, KeyOK
  <2>3. TypeOK'
    BY <1>1, <1>2, <2>1 DEF TypeOK
  <2>4. FatalOnlyAfterFailure'
    BY <1>1, <1>2, <2>1, <2>2 DEF FatalOnlyAfterFailure, At, Refused
  <2>5. Frame(c, k)
    BY <1>1, <1>2, <1>3, <2>1, <2>4 DEF Frame, Same
  <2>6. OpOK(req[c])' /\ Facts(c)'
    BY <1>1, <1>2, <2>1 DEF Facts
  <2>7. Busy(k)'
    BY <1>1, <2>1 DEF Busy
  <2>8. KeyOK(k)'
    BY <1>1, <1>2, <2>1, <2>7 DEF KeyOK
  <2> QED BY <1>1, <2>3, <2>5, <2>6, <2>8, StepAt
<1> QED BY <1>4, <1>5

LEMMA WriteFile_Inv ==
  ASSUME IInv, server = "up", NEW c \in Clients, NEW k \in Keys, k = req[c].key, WriteFile(c)
  PROVE  IInv' /\ Frame(c, k)
<1>1. req[c].pc = "write" /\ OpOK(req[c]) /\ Facts(c) /\ KeyOK(k) /\ TypeOK /\ FatalOnlyAfterFailure
  BY AtKey DEF WriteFile, At
<1>2. UNCHANGED <<server, cache, seqNo, dir, rows, records>>
  BY DEF WriteFile, memory, tables
<1>3. req[c].op \notin Readers /\ req[c].op \in {"create", "update", "insert"} /\ req[c].val \in Configs
  BY <1>1 DEF OpOK, Writing, Readers
<1>4. k \in dir /\ k \notin sure /\ cache[k] \in {None, req[c].val}
  BY <1>1 DEF Facts
<1>5. req[c].val \in Stored /\ req[c].val # None /\ req[c].val # Torn
  BY <1>3, Values
<1>6. CASE file' = [file EXCEPT ![k] = req[c].val] /\ req[c].op = "create" /\ Goes(c, "view") /\ UNCHANGED history
  <2>1. /\ req' \in [Clients -> ReqState] /\ \A d \in Clients : d # c => req'[d] = req[d]
        /\ req'[c].pc = "view" /\ req'[c].op = req[c].op /\ req'[c].job = req[c].job
        /\ req'[c].key = k /\ req'[c].val = req[c].val
    BY <1>1, <1>6, GoesTo DEF PCs
  <2>2. file'[k] = req[c].val /\ \A l \in Keys : l # k => file'[l] = file[l]
    BY <1>1, <1>6 DEF TypeOK
  <2>3. TypeOK'
    BY <1>1, <1>2, <1>4, <1>5, <1>6, <2>1 DEF TypeOK, history
  <2>4. Frame(c, k)
    BY <1>1, <1>2, <1>3, <1>6, <2>1, <2>2 DEF Frame, Same, history
  <2>5. OpOK(req[c])'
    BY <1>1, <1>6, <2>1 DEF OpOK, Idle, Writing, Loading, Removing
  <2>6. Facts(c)'
    BY <1>1, <1>2, <1>4, <1>6, <2>1, <2>2 DEF Facts, history
  <2>7. KeyOK(k)'
    BY <1>1, <1>2, <1>4, <1>5, <1>6, <2>2 DEF KeyOK, history
  <2> QED BY <1>1, <2>3, <2>4, <2>5, <2>6, <2>7, StepAt
<1>7. CASE file' = [file EXCEPT ![k] = req[c].val] /\ req[c].op # "create" /\ Succeeds(c)
  <2>1. req' \in [Clients -> ReqState] /\ req'[c] = Idle /\ \A d \in Clients : d # c => req'[d] = req[d]
    BY <1>1, <1>7, EndsAt DEF Succeeds
  <2>2. file'[k] = req[c].val /\ \A l \in Keys : l # k => file'[l] = file[l]
    BY <1>1, <1>7 DEF TypeOK
  <2>3. sure' = sure \cup {k} /\ UNCHANGED <<answer, failed, strayed>>
    BY <1>7 DEF Succeeds
  <2>4. TypeOK'
    BY <1>1, <1>2, <1>4, <1>5, <1>7, <2>1, <2>3 DEF TypeOK
  <2>5. Frame(c, k)
    BY <1>1, <1>2, <1>3, <2>1, <2>2, <2>3 DEF Frame, Same
  <2>6. k \notin Jobs
    <3>1. req[c].job \in Jobs /\ k = KeyOf(req[c].op, req[c].job) /\ req[c].op \in {"update", "insert"}
      BY <1>1, <1>3, <1>7 DEF OpOK
    <3> QED BY <3>1, KeysOfJobs
  <2>7. KeyOK(k)'
    BY <1>1, <1>2, <1>4, <1>5, <2>2, <2>3, <2>6 DEF KeyOK
  <2> QED BY <1>1, <2>1, <2>4, <2>5, <2>7, IdleOK, StepAt
<1>8. CASE file' \in {file, [file EXCEPT ![k] = Torn]} /\ Fails(c)
  <2>1. req' \in [Clients -> ReqState] /\ req'[c] = Idle /\ \A d \in Clients : d # c => req'[d] = req[d]
    BY <1>1, <1>8, EndsAt DEF Fails
  <2>2. file' \in [Keys -> Stored] /\ \A l \in Keys : l # k => file'[l] = file[l]
    BY <1>1, <1>8, Values DEF TypeOK
  <2>3. failed' = TRUE /\ UNCHANGED <<answer, sure, strayed>>
    BY <1>8 DEF Fails
  <2>4. TypeOK'
    BY <1>1, <1>2, <1>4, <2>1, <2>2, <2>3 DEF TypeOK
  <2>5. Frame(c, k)
    BY <1>1, <1>2, <1>3, <2>1, <2>2, <2>3 DEF Frame, Same
  <2>6. KeyOK(k)'
    BY <1>2, <1>4, <2>3 DEF KeyOK
  <2> QED BY <1>1, <2>1, <2>4, <2>5, <2>6, IdleOK, StepAt
<1> QED BY <1>6, <1>7, <1>8 DEF WriteFile

LEMMA InsertView_Inv ==
  ASSUME IInv, server = "up", NEW c \in Clients, NEW k \in Keys, k = req[c].key, InsertView(c)
  PROVE  IInv' /\ Frame(c, k)
<1>1. req[c].pc = "view" /\ OpOK(req[c]) /\ Facts(c) /\ KeyOK(k) /\ TypeOK /\ FatalOnlyAfterFailure
  BY AtKey DEF InsertView, At
<1>2. UNCHANGED <<server, cache, seqNo, dir, file, records>> /\ rows' \in {rows, rows \cup {k}}
  BY DEF InsertView, memory, disk
<1>3. req[c].op \notin Readers /\ req[c].op = "create" /\ req[c].val \in Configs
  BY <1>1 DEF OpOK, Writing, Readers
<1>4. k \in dir /\ k \notin sure /\ cache[k] \in {None, req[c].val} /\ file[k] = req[c].val
  BY <1>1 DEF Facts
<1>5. k \in Jobs
  <2>1. req[c].job \in Jobs /\ k = KeyOf(req[c].op, req[c].job)
    BY <1>1 DEF OpOK
  <2> QED BY <1>3, <2>1, KeysOfJobs
<1>6. Ends(c) /\ UNCHANGED <<answer, failed, strayed>> /\ sure' \in {sure, sure \cup {k}}
      /\ (k \in sure' => k \in sure \/ k \in rows')
  BY DEF InsertView, Succeeds, history
<1>7. req' \in [Clients -> ReqState] /\ req'[c] = Idle /\ \A d \in Clients : d # c => req'[d] = req[d]
  BY <1>1, <1>6, EndsAt
<1>8. TypeOK'
  BY <1>1, <1>2, <1>5, <1>6, <1>7 DEF TypeOK
<1>9. Frame(c, k)
  BY <1>1, <1>2, <1>3, <1>6, <1>7 DEF Frame, Same
<1>10. KeyOK(k)'
  <2>1. file[k] # None
    BY <1>3, <1>4, Values
  <2> QED BY <1>1, <1>2, <1>4, <1>6, <2>1 DEF KeyOK
<1> QED BY <1>1, <1>7, <1>8, <1>9, <1>10, IdleOK, StepAt

-----------------------------------------------------------------------------
LEMMA GetCached_Inv ==
  ASSUME IInv, server = "up", NEW c \in Clients, NEW k \in Keys, k = req[c].key, GetCached(c)
  PROVE  IInv' /\ Frame(c, k)
<1>1. req[c].pc = "get" /\ OpOK(req[c]) /\ Facts(c) /\ KeyOK(k) /\ TypeOK /\ FatalOnlyAfterFailure
  BY AtKey DEF GetCached, At
<1>2. UNCHANGED <<server, cache, seqNo, dir, file, rows, records>>
  BY DEF GetCached, memory, disk, tables
<1>3. CASE Answer(c, cache[k])
  <2>1. req' \in [Clients -> ReqState] /\ req'[c] = Idle /\ \A d \in Clients : d # c => req'[d] = req[d]
    BY <1>1, <1>3, EndsAt DEF Answer
  <2>2. answer' = cache[k] /\ UNCHANGED <<sure, failed, strayed>>
    BY <1>3 DEF Answer
  <2>3. TypeOK'
    BY <1>1, <1>2, <2>1, <2>2 DEF TypeOK
  <2>4. Frame(c, k)
    BY <1>1, <1>2, <2>1, <2>2 DEF Frame, Same
  <2>5. KeyOK(k)'
    <3>1. ~Busy(k)
      BY <1>1, BusySelf
    <3> QED BY <1>1, <1>2, <2>2, <3>1 DEF KeyOK
  <2> QED BY <1>1, <2>1, <2>3, <2>4, <2>5, IdleOK, StepAt
<1>4. CASE Goes(c, "load") /\ UNCHANGED history
  <2>1. /\ req' \in [Clients -> ReqState] /\ \A d \in Clients : d # c => req'[d] = req[d]
        /\ req'[c].pc = "load" /\ req'[c].op = req[c].op /\ req'[c].job = req[c].job
        /\ req'[c].key = k /\ req'[c].val = req[c].val
    BY <1>1, <1>4, GoesTo DEF PCs
  <2>2. TypeOK'
    BY <1>1, <1>2, <1>4, <2>1 DEF TypeOK, history
  <2>3. Frame(c, k)
    BY <1>1, <1>2, <1>4, <2>1 DEF Frame, Same, history
  <2>4. OpOK(req[c])'
    BY <1>1, <2>1 DEF OpOK, Idle, Writing, Loading, Removing
  <2>5. Facts(c)'
    BY <1>1, <2>1 DEF Facts, OpOK, Readers, Loading
  <2>6. KeyOK(k)'
    <3>1. ~Busy(k)
      BY <1>1, BusySelf
    <3> QED BY <1>1, <1>2, <1>4, <3>1 DEF KeyOK, history
  <2> QED BY <1>1, <2>2, <2>3, <2>4, <2>5, <2>6, StepAt
<1> QED BY <1>3, <1>4 DEF GetCached

LEMMA LoadFile_Inv ==
  ASSUME IInv, server = "up", NEW c \in Clients, NEW k \in Keys, k = req[c].key, LoadFile(c)
  PROVE  IInv' /\ Frame(c, k)
<1>1. req[c].pc = "load" /\ OpOK(req[c]) /\ Facts(c) /\ KeyOK(k) /\ TypeOK /\ FatalOnlyAfterFailure
  BY AtKey DEF LoadFile, At
<1>2. UNCHANGED <<cache, seqNo, dir, file, rows, records>>
  BY DEF LoadFile, memory, disk, tables
<1>3. ~Busy(k)
  BY <1>1, BusySelf
<1>4. CASE file[k] = None /\ Answer(c, None) /\ UNCHANGED server
  <2>1. req' \in [Clients -> ReqState] /\ req'[c] = Idle /\ \A d \in Clients : d # c => req'[d] = req[d]
    BY <1>1, <1>4, EndsAt DEF Answer
  <2>2. answer' = None /\ UNCHANGED <<sure, failed, strayed>>
    BY <1>4 DEF Answer
  <2>3. TypeOK'
    BY <1>1, <1>2, <1>4, <2>1, <2>2, Values DEF TypeOK
  <2>4. Frame(c, k)
    BY <1>1, <1>2, <1>4, <2>1, <2>2 DEF Frame, Same
  <2>5. KeyOK(k)'
    BY <1>1, <1>2, <1>3, <2>2 DEF KeyOK
  <2> QED BY <1>1, <2>1, <2>3, <2>4, <2>5, IdleOK, StepAt
<1>5. CASE file[k] # None /\ req' = [req EXCEPT ![c].pc = "fill", ![c].val = file[k]] /\ UNCHANGED server /\ UNCHANGED history
  <2>1. req \in [Clients -> ReqState] /\ file[k] \in Stored
    BY <1>1 DEF TypeOK
  <2>2. [req[c] EXCEPT !.pc = "fill", !.val = file[k]] \in ReqState
    BY <2>1 DEF ReqState
  <2>3. req' = [req EXCEPT ![c] = [req[c] EXCEPT !.pc = "fill", !.val = file[k]]]
    BY <1>5, <2>1
  <2>4. /\ req' \in [Clients -> ReqState] /\ \A d \in Clients : d # c => req'[d] = req[d]
        /\ req'[c] = [req[c] EXCEPT !.pc = "fill", !.val = file[k]]
    BY <2>1, <2>2, <2>3
  <2>5. /\ req'[c].pc = "fill" /\ req'[c].op = req[c].op /\ req'[c].job = req[c].job
        /\ req'[c].key = k /\ req'[c].val = file[k]
    BY <2>1, <2>4 DEF ReqState
  <2>6. TypeOK'
    BY <1>1, <1>2, <1>5, <2>4 DEF TypeOK, history
  <2>7. Frame(c, k)
    BY <1>1, <1>2, <1>5, <2>4, <2>5 DEF Frame, Same, history
  <2>8. OpOK(req[c])'
    BY <1>1, <2>5 DEF OpOK, Idle, Writing, Loading, Removing
  <2>9. Facts(c)'
    BY <1>1, <1>2, <1>5, <2>5 DEF Facts, OpOK, Readers, Loading
  <2>10. KeyOK(k)'
    BY <1>1, <1>2, <1>3, <1>5 DEF KeyOK, history
  <2> QED BY <1>1, <2>6, <2>7, <2>8, <2>9, <2>10, StepAt
<1>6. CASE file[k] = Torn /\ server' = "fatal" /\ UNCHANGED req /\ UNCHANGED history
  <2>1. failed
    BY <1>1, <1>6 DEF KeyOK
  <2>2. TypeOK'
    BY <1>1, <1>2, <1>6 DEF TypeOK, history
  <2>3. FatalOnlyAfterFailure'
    BY <1>6, <2>1 DEF FatalOnlyAfterFailure, history
  <2>4. Frame(c, k)
    BY <1>1, <1>2, <1>6, <2>3 DEF Frame, Same, history
  <2>5. OpOK(req[c])' /\ Facts(c)'
    BY <1>1, <1>2, <1>6 DEF Facts, history
  <2>6. KeyOK(k)'
    BY <1>1, <1>2, <1>6, <2>1 DEF KeyOK, history
  <2> QED BY <1>1, <2>2, <2>4, <2>5, <2>6, StepAt
<1> QED BY <1>4, <1>5, <1>6 DEF LoadFile

LEMMA FillCache_Inv ==
  ASSUME IInv, server = "up", NEW c \in Clients, NEW k \in Keys, k = req[c].key, FillCache(c)
  PROVE  IInv' /\ Frame(c, k)
<1>1. req[c].pc = "fill" /\ OpOK(req[c]) /\ Facts(c) /\ KeyOK(k) /\ TypeOK /\ FatalOnlyAfterFailure
  BY AtKey DEF FillCache, At
<1>2. UNCHANGED <<server, seqNo, dir, file, rows, records>> /\ cache' = [cache EXCEPT ![k] = req[c].val]
  BY DEF FillCache, disk, tables
<1>3. req[c].val = file[k] /\ req[c].val # None /\ req[c].val \in Stored
  BY <1>1 DEF Facts, TypeOK
<1>4. cache' \in [Keys -> Stored] /\ cache'[k] = file[k] /\ \A l \in Keys : l # k => cache'[l] = cache[l]
  BY <1>1, <1>2, <1>3 DEF TypeOK
<1>5. UNCHANGED <<sure, failed, strayed>>
  BY DEF FillCache, Answer, history
<1>6. KeyOK(k)'
  BY <1>1, <1>2, <1>3, <1>4, <1>5 DEF KeyOK
<1>7. CASE Answer(c, req[c].val)
  <2>1. req' \in [Clients -> ReqState] /\ req'[c] = Idle /\ \A d \in Clients : d # c => req'[d] = req[d]
    BY <1>1, <1>7, EndsAt DEF Answer
  <2>2. TypeOK'
    BY <1>1, <1>2, <1>3, <1>4, <1>5, <1>7, <2>1 DEF TypeOK, Answer
  <2>3. Frame(c, k)
    BY <1>1, <1>2, <1>4, <1>5, <2>1 DEF Frame, Same
  <2> QED BY <1>1, <1>6, <2>1, <2>2, <2>3, IdleOK, StepAt
<1>8. CASE Goes(c, "run") /\ UNCHANGED history
  <2>1. /\ req' \in [Clients -> ReqState] /\ \A d \in Clients : d # c => req'[d] = req[d]
        /\ req'[c].pc = "run" /\ req'[c].op = req[c].op /\ req'[c].job = req[c].job
        /\ req'[c].key = k /\ req'[c].val = req[c].val
    BY <1>1, <1>8, GoesTo DEF PCs
  <2>2. TypeOK'
    BY <1>1, <1>2, <1>4, <1>8, <2>1 DEF TypeOK, history
  <2>3. Frame(c, k)
    BY <1>1, <1>2, <1>4, <1>5, <2>1 DEF Frame, Same
  <2>4. OpOK(req[c])'
    BY <1>1, <2>1 DEF OpOK, Idle, Writing, Loading, Removing
  <2>5. Facts(c)'
    BY <1>1, <2>1 DEF Facts, OpOK, Readers, Loading
  <2> QED BY <1>1, <1>6, <2>2, <2>3, <2>4, <2>5, StepAt
<1> QED BY <1>7, <1>8 DEF FillCache

(* A number is one more than the last, and no record has a greater one.        *)
LEMMA NumberExecution_Inv ==
  ASSUME IInv, server = "up", NEW c \in Clients, NEW k \in Keys, k = req[c].key, NumberExecution(c)
  PROVE  IInv' /\ Frame(c, k)
<1> DEFINE n == seqNo[k] + 1
<1>1. req[c].pc = "run" /\ OpOK(req[c]) /\ Facts(c) /\ KeyOK(k) /\ TypeOK /\ FatalOnlyAfterFailure
  BY AtKey DEF NumberExecution, At
<1>2. UNCHANGED <<cache, dir, file, rows, answer, sure, failed>>
  BY DEF NumberExecution, disk, history
<1>3. ~Busy(k)
  BY <1>1, BusySelf
<1>4. seqNo[k] \in Nat /\ n \in 1 .. MaxSeq /\ n \in 0 .. MaxSeq /\ records[k] \subseteq 1 .. MaxSeq
  BY <1>1, SeqAssumption DEF TypeOK, NumberExecution
<1>5. CASE Ends(c) /\ UNCHANGED <<server, seqNo, records, strayed>>
  <2>1. req' \in [Clients -> ReqState] /\ req'[c] = Idle /\ \A d \in Clients : d # c => req'[d] = req[d]
    BY <1>1, <1>5, EndsAt
  <2>2. TypeOK'
    BY <1>1, <1>2, <1>5, <2>1 DEF TypeOK
  <2>3. Frame(c, k)
    BY <1>1, <1>2, <1>5, <2>1 DEF Frame, Same
  <2>4. KeyOK(k)'
    BY <1>1, <1>2, <1>3, <1>5 DEF KeyOK
  <2> QED BY <1>1, <2>1, <2>2, <2>3, <2>4, IdleOK, StepAt
<1>6. CASE /\ JobExists(k) /\ seqNo' = [seqNo EXCEPT ![k] = n] /\ strayed' = (strayed \/ file[k] = None)
           /\ n \in records[k] /\ server' = "fatal" /\ UNCHANGED <<records, req>>
  <2>1. failed \/ strayed
    <3>1. ~(n <= seqNo[k])
      BY <1>4
    <3> QED BY <1>1, <1>6, <3>1 DEF KeyOK
  <2>2. seqNo' \in [Keys -> 0 .. MaxSeq] /\ \A l \in Keys : l # k => seqNo'[l] = seqNo[l]
    <3> HIDE DEF n
    <3> QED BY <1>1, <1>4, <1>6 DEF TypeOK
  <2>3. strayed' \in BOOLEAN /\ (strayed => strayed')
    BY <1>1, <1>6 DEF TypeOK
  <2>4. TypeOK'
    BY <1>1, <1>2, <1>6, <2>2, <2>3 DEF TypeOK
  <2>5. FatalOnlyAfterFailure'
    BY <1>2, <2>1, <2>3 DEF FatalOnlyAfterFailure
  <2>6. Frame(c, k)
    BY <1>1, <1>2, <1>6, <2>2, <2>3, <2>5 DEF Frame, Same
  <2>7. OpOK(req[c])' /\ Facts(c)'
    BY <1>1, <1>2, <1>6 DEF Facts
  <2>8. KeyOK(k)'
    BY <1>1, <1>2, <1>3, <1>6, <2>1, <2>3 DEF KeyOK
  <2> QED BY <1>1, <2>4, <2>6, <2>7, <2>8, StepAt
<1>7. CASE /\ JobExists(k) /\ seqNo' = [seqNo EXCEPT ![k] = n] /\ strayed' = (strayed \/ file[k] = None)
           /\ records' = [records EXCEPT ![k] = @ \cup {n}] /\ Ends(c) /\ UNCHANGED server
  <2>1. req' \in [Clients -> ReqState] /\ req'[c] = Idle /\ \A d \in Clients : d # c => req'[d] = req[d]
    BY <1>1, <1>7, EndsAt
  <2>2. /\ seqNo' \in [Keys -> 0 .. MaxSeq] /\ \A l \in Keys : l # k => seqNo'[l] = seqNo[l]
        /\ seqNo'[k] = n
    <3> HIDE DEF n
    <3> QED BY <1>1, <1>4, <1>7 DEF TypeOK
  <2>3. /\ records' \in [Keys -> SUBSET (1 .. MaxSeq)] /\ \A l \in Keys : l # k => records'[l] = records[l]
        /\ records'[k] = records[k] \cup {n}
    <3> HIDE DEF n
    <3> QED BY <1>1, <1>4, <1>7 DEF TypeOK
  <2>4. strayed' \in BOOLEAN /\ (strayed => strayed')
    BY <1>1, <1>7 DEF TypeOK
  <2>5. TypeOK'
    BY <1>1, <1>2, <1>7, <2>1, <2>2, <2>3, <2>4 DEF TypeOK
  <2>6. Frame(c, k)
    BY <1>1, <1>2, <1>7, <2>1, <2>2, <2>3, <2>4 DEF Frame, Same
  <2>7. ~strayed' => ~strayed /\ file[k] # None
    BY <1>7
  <2>8. ~failed /\ ~strayed => \A m \in records'[k] : m <= seqNo'[k]
    <3> SUFFICES ASSUME ~failed, ~strayed, NEW m \in records'[k] PROVE m <= n
      BY <2>2
    <3>1. CASE m = n
      BY <1>4, <3>1
    <3>2. CASE m \in records[k]
      <4>1. m <= seqNo[k] /\ m \in Nat
        BY <1>1, <1>4, <3>2 DEF KeyOK
      <4> QED BY <4>1, <1>4
    <3> QED BY <2>3, <3>1, <3>2
  <2>9. KeyOK(k)'
    BY <1>1, <1>2, <1>3, <2>7, <2>8 DEF KeyOK
  <2> QED BY <1>1, <2>1, <2>5, <2>6, <2>9, IdleOK, StepAt
<1> QED BY <1>5, <1>6, <1>7 DEF NumberExecution

-----------------------------------------------------------------------------
LEMMA DeleteRecords_Inv ==
  ASSUME IInv, server = "up", NEW c \in Clients, NEW k \in Keys, k = req[c].key, DeleteRecords(c)
  PROVE  IInv' /\ Frame(c, k)
<1>1. req[c].pc = "records" /\ OpOK(req[c]) /\ Facts(c) /\ KeyOK(k) /\ TypeOK /\ FatalOnlyAfterFailure
  BY AtKey DEF DeleteRecords, At
<1>2. UNCHANGED <<server, cache, seqNo, dir, file, rows, answer, failed, strayed>> /\ sure' = sure \ {k}
      /\ records' = [records EXCEPT ![k] = {}]
  BY DEF DeleteRecords, memory, disk
<1>3. /\ req' \in [Clients -> ReqState] /\ \A d \in Clients : d # c => req'[d] = req[d]
      /\ req'[c].pc = "row" /\ req'[c].op = req[c].op /\ req'[c].job = req[c].job
      /\ req'[c].key = k /\ req'[c].val = req[c].val
  BY <1>1, GoesTo DEF PCs, DeleteRecords
<1>4. records' \in [Keys -> SUBSET (1 .. MaxSeq)] /\ records'[k] = {} /\ \A l \in Keys : l # k => records'[l] = records[l]
  BY <1>1, <1>2 DEF TypeOK
<1>5. TypeOK'
  BY <1>1, <1>2, <1>3, <1>4 DEF TypeOK
<1>6. Frame(c, k)
  BY <1>1, <1>2, <1>3, <1>4 DEF Frame, Same
<1>7. OpOK(req[c])'
  BY <1>1, <1>3 DEF OpOK, Idle, Writing, Loading, Removing
<1>8. Facts(c)'
  BY <1>1, <1>2, <1>3, <1>4 DEF Facts, OpOK, Removing
<1>9. KeyOK(k)'
  <2>1. ~Busy(k)
    BY <1>1, BusySelf
  <2> QED BY <1>1, <1>2, <1>4, <2>1 DEF KeyOK
<1> QED BY <1>1, <1>5, <1>6, <1>7, <1>8, <1>9, StepAt

LEMMA DeleteView_Inv ==
  ASSUME IInv, server = "up", NEW c \in Clients, NEW k \in Keys, k = req[c].key, DeleteView(c)
  PROVE  IInv' /\ Frame(c, k)
<1>1. req[c].pc = "row" /\ OpOK(req[c]) /\ Facts(c) /\ KeyOK(k) /\ TypeOK /\ FatalOnlyAfterFailure
  BY AtKey DEF DeleteView, At
<1>2. UNCHANGED <<server, cache, seqNo, dir, file, records, answer, sure, failed, strayed>>
      /\ rows' \in {rows, rows \ {k}}
  BY DEF DeleteView, memory, disk, history
<1>3. KeyOK(k)'
  <2>1. ~Busy(k) /\ k \notin sure
    BY <1>1, BusySelf DEF Facts
  <2> QED BY <1>1, <1>2, <2>1 DEF KeyOK
<1>4. CASE rows' = rows \ {k} /\ Goes(c, "files")
  <2>1. /\ req' \in [Clients -> ReqState] /\ \A d \in Clients : d # c => req'[d] = req[d]
        /\ req'[c].pc = "files" /\ req'[c].op = req[c].op /\ req'[c].job = req[c].job
        /\ req'[c].key = k /\ req'[c].val = req[c].val
    BY <1>1, <1>4, GoesTo DEF PCs
  <2>2. TypeOK'
    BY <1>1, <1>2, <2>1 DEF TypeOK
  <2>3. Frame(c, k)
    BY <1>1, <1>2, <2>1 DEF Frame, Same
  <2>4. OpOK(req[c])'
    BY <1>1, <2>1 DEF OpOK, Idle, Writing, Loading, Removing
  <2>5. Facts(c)'
    BY <1>1, <1>2, <1>4, <2>1 DEF Facts, OpOK, Removing
  <2> QED BY <1>1, <1>3, <2>2, <2>3, <2>4, <2>5, StepAt
<1>5. CASE Ends(c)
  <2>1. req' \in [Clients -> ReqState] /\ req'[c] = Idle /\ \A d \in Clients : d # c => req'[d] = req[d]
    BY <1>1, <1>5, EndsAt
  <2>2. TypeOK'
    BY <1>1, <1>2, <2>1 DEF TypeOK
  <2>3. Frame(c, k)
    BY <1>1, <1>2, <2>1 DEF Frame, Same
  <2> QED BY <1>1, <1>3, <2>1, <2>2, <2>3, IdleOK, StepAt
<1> QED BY <1>4, <1>5 DEF DeleteView

LEMMA RemoveFiles_Inv ==
  ASSUME IInv, server = "up", NEW c \in Clients, NEW k \in Keys, k = req[c].key, RemoveFiles(c)
  PROVE  IInv' /\ Frame(c, k)
<1>1. req[c].pc = "files" /\ OpOK(req[c]) /\ Facts(c) /\ KeyOK(k) /\ TypeOK /\ FatalOnlyAfterFailure
  BY AtKey DEF RemoveFiles, At
<1>2. UNCHANGED <<server, cache, seqNo, rows, records, answer, sure, strayed>>
  BY DEF RemoveFiles, memory, tables, history, Fails
<1>3. k \notin sure /\ records[k] = {} /\ k \notin rows /\ req[c].op = "delete" /\ req[c].val = None
  BY <1>1 DEF Facts, OpOK, Removing
<1>4. file' \in [Keys -> Stored] /\ dir' \subseteq dir /\ file' \in {file, [file EXCEPT ![k] = None]}
      /\ dir' \in {dir, dir \ {k}}
  BY <1>1, Values DEF RemoveFiles, TypeOK
<1>5. (\A l \in Keys : l # k => file'[l] = file[l]) /\ (file'[k] # None => k \in dir')
  BY <1>1, <1>4 DEF RemoveFiles, TypeOK, KeyOK
<1>6. CASE file' = [file EXCEPT ![k] = None] /\ Goes(c, "remove") /\ UNCHANGED history
  <2>1. /\ req' \in [Clients -> ReqState] /\ \A d \in Clients : d # c => req'[d] = req[d]
        /\ req'[c].pc = "remove" /\ req'[c].op = req[c].op /\ req'[c].job = req[c].job
        /\ req'[c].key = k /\ req'[c].val = req[c].val
    BY <1>1, <1>6, GoesTo DEF PCs
  <2>2. file'[k] = None
    BY <1>1, <1>6 DEF TypeOK
  <2>3. TypeOK'
    BY <1>1, <1>2, <1>4, <1>5, <1>6, <2>1 DEF TypeOK, history
  <2>4. Frame(c, k)
    BY <1>1, <1>2, <1>3, <1>4, <1>5, <1>6, <2>1 DEF Frame, Same, history, Readers
  <2>5. OpOK(req[c])'
    BY <1>1, <2>1 DEF OpOK, Idle, Writing, Loading, Removing
  <2>6. Facts(c)'
    BY <1>1, <1>2, <1>3, <2>1, <2>2 DEF Facts
  <2>7. KeyOK(k)'
    <3>1. Busy(k)'
      BY <2>1 DEF Busy
    <3> QED BY <1>2, <1>3, <1>6, <2>2, <3>1, Values DEF KeyOK, history
  <2> QED BY <1>1, <2>3, <2>4, <2>5, <2>6, <2>7, StepAt
<1>7. CASE Fails(c)
  <2>1. req' \in [Clients -> ReqState] /\ req'[c] = Idle /\ \A d \in Clients : d # c => req'[d] = req[d]
    BY <1>1, <1>7, EndsAt DEF Fails
  <2>2. failed' = TRUE
    BY <1>7 DEF Fails
  <2>3. TypeOK'
    BY <1>1, <1>2, <1>4, <1>5, <2>1, <2>2 DEF TypeOK
  <2>4. Frame(c, k)
    BY <1>1, <1>2, <1>3, <1>4, <1>5, <2>1, <2>2 DEF Frame, Same, Readers
  <2>5. KeyOK(k)'
    BY <1>2, <1>3, <1>5, <2>2 DEF KeyOK
  <2> QED BY <1>1, <2>1, <2>3, <2>4, <2>5, IdleOK, StepAt
<1> QED BY <1>6, <1>7 DEF RemoveFiles

LEMMA RemoveCached_Inv ==
  ASSUME IInv, server = "up", NEW c \in Clients, NEW k \in Keys, k = req[c].key, RemoveCached(c)
  PROVE  IInv' /\ Frame(c, k)
<1>1. req[c].pc = "remove" /\ OpOK(req[c]) /\ Facts(c) /\ KeyOK(k) /\ TypeOK /\ FatalOnlyAfterFailure
  BY AtKey DEF RemoveCached, At
<1>2. UNCHANGED <<server, dir, file, rows, records, answer, failed, strayed>> /\ sure' = sure \cup {k} /\ Ends(c)
      /\ cache' = [cache EXCEPT ![k] = None] /\ seqNo' = [seqNo EXCEPT ![k] = 0]
  BY DEF RemoveCached, disk, tables, Succeeds
<1>3. req' \in [Clients -> ReqState] /\ req'[c] = Idle /\ \A d \in Clients : d # c => req'[d] = req[d]
  BY <1>1, <1>2, EndsAt
<1>4. records[k] = {} /\ k \notin rows /\ file[k] = None /\ req[c].op = "delete"
  BY <1>1 DEF Facts, OpOK, Removing
<1>5. TypeOK'
  BY <1>1, <1>2, <1>3, Values, SeqAssumption DEF TypeOK
<1>6. Frame(c, k)
  BY <1>1, <1>2, <1>3 DEF Frame, Same, TypeOK
<1>7. cache'[k] = None
  BY <1>1, <1>2 DEF TypeOK
<1>8. KeyOK(k)'
  BY <1>1, <1>2, <1>4, <1>7, Values DEF KeyOK
<1> QED BY <1>1, <1>3, <1>5, <1>6, <1>8, IdleOK, StepAt

-----------------------------------------------------------------------------
LEMMA Evict_Inv ==
  ASSUME IInv, server = "up", NEW k \in Keys, Evict(k)
  PROVE  IInv'
<1>1. UNCHANGED <<server, seqNo, dir, file, rows, records, req, answer, sure, failed, strayed>>
      /\ cache' = [cache EXCEPT ![k] = None]
  BY DEF Evict, disk, tables, history
<1>2. cache' \in [Keys -> Stored] /\ \A l \in Keys : cache'[l] \in {None, cache[l]}
  BY <1>1, Values DEF IInv, TypeOK
<1>3. TypeOK' /\ FatalOnlyAfterFailure' /\ Exclusive'
  BY <1>1, <1>2 DEF IInv, TypeOK, FatalOnlyAfterFailure, Exclusive
<1>4. ASSUME NEW c \in Clients
      PROVE  OpOK(req[c])' /\ Facts(c)'
  <2>1. OpOK(req[c]) /\ Facts(c)
    BY DEF IInv
  <2>2. CASE req[c].pc = "idle"
    BY <1>1, <2>1, <2>2 DEF Facts, OpOK, Idle
  <2>3. CASE req[c].pc # "idle"
    <3>1. cache'[req[c].key] \in {None, cache[req[c].key]}
      BY <1>2, <2>3, HasKey
    <3> QED BY <1>1, <2>1, <3>1 DEF Facts
  <2> QED BY <2>2, <2>3
<1>5. ASSUME NEW l \in Keys
      PROVE  KeyOK(l)'
  <2>1. KeyOK(l) /\ cache'[l] \in {None, cache[l]}
    BY <1>2 DEF IInv
  <2>2. Busy(l)' <=> Busy(l)
    BY <1>1 DEF Busy
  <2> QED BY <1>1, <2>1, <2>2 DEF KeyOK
<1> QED BY <1>3, <1>4, <1>5 DEF IInv

(* A bounded set of natural numbers has a greatest element. *)
LEMMA BoundedHasMax ==
  ASSUME NEW S \in SUBSET Nat, S # {}, NEW b \in Nat, \A n \in S : n <= b
  PROVE  Max(S) \in S /\ \A n \in S : n <= Max(S)
<1> DEFINE T == {x \in Nat : \E n \in S : x = b - n}
<1>1. \A n \in S : b - n \in T
  OBVIOUS
<1>2. PICK x \in T : \A y \in T : <<y, x>> \notin OpToRel(<, Nat)
  BY <1>1, NatLessThanWellFounded, WFMin
<1>3. \A y \in T : ~ (y < x)
  BY <1>2 DEF OpToRel
<1>4. PICK m \in S : x = b - m
  OBVIOUS
<1>5. \A n \in S : m >= n
  BY <1>1, <1>3, <1>4
<1>6. Max(S) \in S /\ \A n \in S : Max(S) >= n
  BY <1>5 DEF Max
<1> QED BY <1>6

LEMMA Restart_Inv ==
  ASSUME IInv, Restart
  PROVE  IInv'
<1>1. /\ UNCHANGED <<dir, file, rows, records, answer, sure, failed, strayed>> /\ server' = "up"
      /\ cache' = [k \in Keys |-> None] /\ req' = [c \in Clients |-> Idle]
      /\ seqNo' = [k \in Keys |-> Max({0} \cup records[k])]
  BY DEF Restart, disk, tables, history
<1>2. ASSUME NEW k \in Keys
      PROVE  seqNo'[k] \in 0 .. MaxSeq /\ \A n \in records[k] : n <= seqNo'[k]
  <2> DEFINE S == {0} \cup records[k]
  <2>1. records[k] \subseteq 1 .. MaxSeq /\ MaxSeq \in Nat
    BY <1>2, SeqAssumption DEF IInv, TypeOK
  <2>2. S \in SUBSET Nat /\ S # {} /\ \A n \in S : n <= MaxSeq
    BY <2>1
  <2>3. seqNo'[k] = Max(S)
    BY <1>1, <1>2
  <2> HIDE DEF S
  <2>4. Max(S) \in S /\ \A n \in S : n <= Max(S)
    BY <2>1, <2>2, BoundedHasMax
  <2>5. Max(S) \in 0 .. MaxSeq
    <3> DEFINE m == Max(S)
    <3>1. m \in S
      BY <2>4
    <3> HIDE DEF m
    <3>2. m \in Nat /\ m <= MaxSeq
      BY <2>2, <3>1
    <3> QED BY <2>1, <3>2 DEF m
  <2> QED BY <2>3, <2>4, <2>5 DEF S
<1>3. TypeOK'
  BY <1>1, <1>2, IdleTyped, Values DEF IInv, TypeOK
<1>4. ASSUME NEW c \in Clients
      PROVE  OpOK(req[c])' /\ Facts(c)' /\ req'[c] = Idle
  <2>1. req'[c] = Idle
    BY <1>1, <1>4
  <2> QED BY <1>4, <2>1, IdleOK
<1>5. FatalOnlyAfterFailure' /\ Exclusive'
  BY <1>1, <1>4 DEF FatalOnlyAfterFailure, Exclusive, Idle
<1>6. ASSUME NEW k \in Keys
      PROVE  KeyOK(k)'
  <2>1. KeyOK(k) /\ cache'[k] = None
    BY <1>1, <1>6 DEF IInv
  <2> QED BY <1>1, <1>2, <1>6, <2>1 DEF KeyOK
<1> QED BY <1>3, <1>4, <1>5, <1>6 DEF IInv

-----------------------------------------------------------------------------
(* A request arrives: nothing changes but that it is under way.                *)
Ops == {"create", "update", "insert", "read", "exec", "delete"}

Arrived(c, op, j, pc, v) == [op |-> op, pc |-> pc, job |-> j, key |-> KeyOf(op, j), val |-> v]

LEMMA ArrivesAt ==
  ASSUME IInv, NEW c \in Clients, NEW op \in Ops, NEW j \in Jobs, NEW pc \in PCs, NEW v \in Stored,
         Arrives(c, op, j, pc, v)
  PROVE  /\ req' \in [Clients -> ReqState]
         /\ \A d \in Clients : d # c => req'[d] = req[d]
         /\ req'[c].pc = pc /\ req'[c].op = op /\ req'[c].job = j
         /\ req'[c].key = KeyOf(op, j) /\ req'[c].val = v
         /\ req[c] = Idle
<1>1. Arrived(c, op, j, pc, v) \in ReqState
  BY KeysOfJobs DEF Arrived, ReqState, Ops, PCs
<1>2. req \in [Clients -> ReqState] /\ req' = [req EXCEPT ![c] = Arrived(c, op, j, pc, v)] /\ req[c] = Idle
  BY DEF IInv, TypeOK, Arrives, Arrived
<1>3. /\ req' \in [Clients -> ReqState] /\ \A d \in Clients : d # c => req'[d] = req[d]
      /\ req'[c] = Arrived(c, op, j, pc, v)
  BY <1>1, <1>2
<1> QED BY <1>2, <1>3 DEF Arrived

LEMMA Arrive_Inv ==
  ASSUME IInv, server = "up", NEW c \in Clients, NEW op \in Ops, NEW j \in Jobs, NEW pc \in PCs, NEW v \in Stored,
         Arrives(c, op, j, pc, v), OpOK(req[c])', Facts(c)',
         UNCHANGED <<server, memory, disk, tables, history>>
  PROVE  IInv'
<1>1. /\ req' \in [Clients -> ReqState]
      /\ \A d \in Clients : d # c => req'[d] = req[d]
      /\ req'[c].pc = pc /\ req'[c].op = op /\ req'[c].key = KeyOf(op, j)
      /\ req[c] = Idle
  BY ArrivesAt
<1>2. UNCHANGED <<server, cache, seqNo, dir, file, rows, records, answer, sure, failed, strayed>>
  BY DEF memory, disk, tables, history
<1>3. TypeOK' /\ FatalOnlyAfterFailure'
  BY <1>1, <1>2 DEF IInv, TypeOK, FatalOnlyAfterFailure
<1>4. Exclusive'
  <2>1. \A d \in Clients : req[d].key = KeyOf(op, j) => op \in Readers /\ req[d].op \in Readers
    BY DEF Arrives
  <2>2. ASSUME NEW a \in Clients, NEW b \in Clients, a # b,
               req'[a].pc # "idle", req'[b].pc # "idle", req'[a].key = req'[b].key
        PROVE  req'[a].op \in Readers /\ req'[b].op \in Readers
    <3>1. CASE a = c
      <4>1. req'[b] = req[b]
        BY <1>1, <2>2, <3>1
      <4> QED BY <1>1, <2>1, <2>2, <3>1, <4>1
    <3>2. CASE b = c
      <4>1. req'[a] = req[a]
        BY <1>1, <2>2, <3>2
      <4> QED BY <1>1, <2>1, <2>2, <3>2, <4>1
    <3>3. CASE a # c /\ b # c
      BY <1>1, <2>2, <3>3 DEF IInv, Exclusive
    <3> QED BY <3>1, <3>2, <3>3
  <2> QED BY <2>2 DEF Exclusive
<1>5. ASSUME NEW d \in Clients, d # c
      PROVE  OpOK(req[d])' /\ Facts(d)'
  BY <1>1, <1>2, <1>5 DEF IInv, Facts
<1>6. ASSUME NEW k \in Keys
      PROVE  KeyOK(k)'
  <2>1. Busy(k) => Busy(k)'
    BY <1>1 DEF Busy, Idle
  <2> QED BY <1>2, <1>6, <2>1 DEF IInv, KeyOK
<1> QED BY <1>3, <1>4, <1>5, <1>6 DEF IInv

LEMMA CreateJob_Inv ==
  ASSUME IInv, server = "up", NEW c \in Clients, NEW j \in Jobs, NEW v \in Configs, CreateJob(c, j, v)
  PROVE  IInv'
<1>1. Arrives(c, "create", j, "add", v) /\ UNCHANGED <<server, memory, disk, tables, history>> /\ ~JobExists(j)
  BY DEF CreateJob
<1>2. v \in Stored /\ "create" \in Ops /\ "add" \in PCs /\ KeyOf("create", j) = j /\ j \in Keys
  BY Values, KeysOfJobs, JobsAreKeys DEF Ops, PCs
<1>3. /\ req'[c].pc = "add" /\ req'[c].op = "create" /\ req'[c].job = j
      /\ req'[c].key = j /\ req'[c].val = v
  BY <1>1, <1>2, ArrivesAt
<1>4. OpOK(req[c])'
  BY <1>2, <1>3 DEF OpOK, Idle, Writing, Loading, Removing
<1>5. ~failed /\ ~strayed => records[j] = {}
  BY <1>1, <1>2 DEF IInv, KeyOK, JobExists
<1>6. Facts(c)'
  BY <1>1, <1>3, <1>5 DEF Facts, tables, history
<1> QED BY <1>1, <1>2, <1>4, <1>6, Arrive_Inv

LEMMA UpdateJob_Inv ==
  ASSUME IInv, server = "up", NEW c \in Clients, NEW j \in Jobs, NEW v \in Configs, UpdateJob(c, j, v)
  PROVE  IInv'
<1> DEFINE k == KeyOf("update", j)
           op == IF JobExists(k) THEN "update" ELSE "insert"
<1>1. Arrives(c, op, j, "add", v) /\ UNCHANGED <<server, memory, disk, tables, history>>
  BY DEF UpdateJob
<1>2. v \in Stored /\ op \in Ops /\ "add" \in PCs /\ KeyOf(op, j) = k /\ k \in Keys
  BY Values, KeysOfJobs DEF Ops, PCs, KeyOf
<1>3. op \in {"update", "insert"} /\ (op = "update" <=> JobExists(k))
  OBVIOUS
<1> HIDE DEF op
<1>4. /\ req'[c].pc = "add" /\ req'[c].op = op /\ req'[c].job = j
      /\ req'[c].key = KeyOf(op, j) /\ req'[c].val = v
  BY <1>1, <1>2, ArrivesAt
<1>5. OpOK(req[c])'
  BY <1>2, <1>3, <1>4 DEF OpOK, Idle, Writing, Loading, Removing
<1>6. ~Busy(k)
  <2> SUFFICES ASSUME NEW d \in Clients, req[d].key = k,
                      req[d].pc \in {"number", "mkdir", "open", "remove"}
               PROVE  FALSE
    BY DEF Busy
  <2>1. op \in Readers
    BY <1>1, <1>2 DEF Arrives
  <2> QED BY <2>1, <1>3 DEF Readers
<1>7. /\ ~failed /\ op = "update" => k \in dir
      /\ ~failed /\ ~strayed /\ op # "update" => records[k] = {}
  BY <1>2, <1>3, <1>6 DEF IInv, KeyOK, JobExists
<1>8. Facts(c)'
  BY <1>1, <1>2, <1>4, <1>7 DEF Facts, tables, disk, history
<1> QED BY <1>1, <1>2, <1>5, <1>8, Arrive_Inv

LEMMA ReadJob_Inv ==
  ASSUME IInv, server = "up", NEW c \in Clients, NEW j \in Jobs, ReadJob(c, j)
  PROVE  IInv'
<1>1. Arrives(c, "read", j, "get", None) /\ UNCHANGED <<server, memory, disk, tables, history>>
  BY DEF ReadJob
<1>2. None \in Stored /\ "read" \in Ops /\ "get" \in PCs
  BY Values DEF Ops, PCs
<1>3. /\ req'[c].pc = "get" /\ req'[c].op = "read" /\ req'[c].job = j /\ req'[c].key = KeyOf("read", j)
  BY <1>1, <1>2, ArrivesAt
<1>4. OpOK(req[c])'
  BY <1>2, <1>3 DEF OpOK, Idle, Writing, Loading, Removing, Readers
<1>5. Facts(c)'
  BY <1>3 DEF Facts
<1> QED BY <1>1, <1>2, <1>4, <1>5, Arrive_Inv

LEMMA ExecJob_Inv ==
  ASSUME IInv, server = "up", NEW c \in Clients, NEW j \in Jobs, ExecJob(c, j)
  PROVE  IInv'
<1> DEFINE pc == IF cache[j] = None /\ file[j] # None THEN "load" ELSE "run"
<1>1. Arrives(c, "exec", j, pc, None) /\ UNCHANGED <<server, memory, disk, tables, history>>
  BY DEF ExecJob
<1>2. None \in Stored /\ "exec" \in Ops /\ pc \in PCs /\ pc \in {"load", "run"}
  BY Values DEF Ops, PCs
<1> HIDE DEF pc
<1>3. /\ req'[c].pc = pc /\ req'[c].op = "exec" /\ req'[c].job = j /\ req'[c].key = KeyOf("exec", j)
  BY <1>1, <1>2, ArrivesAt
<1>4. OpOK(req[c])'
  BY <1>2, <1>3 DEF OpOK, Idle, Writing, Loading, Removing, Readers
<1>5. Facts(c)'
  BY <1>2, <1>3 DEF Facts
<1> QED BY <1>1, <1>2, <1>4, <1>5, Arrive_Inv

LEMMA DelJob_Inv ==
  ASSUME IInv, server = "up", NEW c \in Clients, NEW j \in Jobs, DelJob(c, j)
  PROVE  IInv'
<1>1. Arrives(c, "delete", j, "records", None) /\ UNCHANGED <<server, memory, disk, tables, history>>
  BY DEF DelJob
<1>2. None \in Stored /\ "delete" \in Ops /\ "records" \in PCs
  BY Values DEF Ops, PCs
<1>3. /\ req'[c].pc = "records" /\ req'[c].op = "delete" /\ req'[c].job = j
      /\ req'[c].key = KeyOf("delete", j) /\ req'[c].val = None
  BY <1>1, <1>2, ArrivesAt
<1>4. OpOK(req[c])'
  BY <1>2, <1>3 DEF OpOK, Idle, Writing, Loading, Removing
<1>5. Facts(c)'
  BY <1>3 DEF Facts
<1> QED BY <1>1, <1>2, <1>4, <1>5, Arrive_Inv

LEMMA ReadNotFound_Inv ==
  ASSUME IInv, server = "up", NEW c \in Clients, NEW j \in Jobs, ReadNotFound(c, j)
  PROVE  IInv'
<1>1. UNCHANGED <<server, cache, seqNo, dir, file, rows, records, req, sure, failed, strayed>> /\ answer' = None
  BY DEF ReadNotFound, memory, disk, tables
<1>2. TypeOK' /\ FatalOnlyAfterFailure' /\ Exclusive'
  BY <1>1, Values DEF IInv, TypeOK, FatalOnlyAfterFailure, Exclusive
<1>3. \A d \in Clients : OpOK(req[d])' /\ Facts(d)'
  BY <1>1 DEF IInv, Facts
<1>4. \A k \in Keys : KeyOK(k)'
  BY <1>1 DEF IInv, KeyOK, Busy
<1> QED BY <1>2, <1>3, <1>4 DEF IInv

-----------------------------------------------------------------------------
LEMMA Init_Inv == Init => IInv
<1> SUFFICES ASSUME Init PROVE IInv
  OBVIOUS
<1>1. TypeOK
  <2>1. req \in [Clients -> ReqState] /\ cache \in [Keys -> Stored] /\ file \in [Keys -> Stored]
    BY IdleTyped, Values DEF Init
  <2>2. seqNo \in [Keys -> 0 .. MaxSeq]
    <3>1. 0 \in 0 .. MaxSeq
      BY SeqAssumption
    <3> QED BY <3>1 DEF Init
  <2>3. \A k \in Keys : file[k] = None
    BY DEF Init
  <2> QED BY <2>1, <2>2, <2>3, Values DEF Init, TypeOK
<1>2. \A c \in Clients : OpOK(req[c]) /\ Facts(c)
  BY IdleTyped DEF Init, Facts, Idle
<1>3. \A k \in Keys : KeyOK(k)
  BY Values DEF Init, KeyOK
<1>4. FatalOnlyAfterFailure /\ Exclusive
  BY DEF Init, FatalOnlyAfterFailure, Exclusive, Idle
<1> QED BY <1>1, <1>2, <1>3, <1>4 DEF IInv

LEMMA Work_Inv ==
  ASSUME IInv, server = "up", NEW c \in Clients, Creating(c) \/ Reading(c) \/ Deleting(c)
  PROVE  IInv'
<1>1. req[c].pc # "idle"
  BY DEF Creating, Reading, Deleting, At, Add, ResetSeqNo, MakeDirs, OpenFile, WriteFile, InsertView,
         GetCached, LoadFile, FillCache, NumberExecution, DeleteRecords, DeleteView, RemoveFiles, RemoveCached
<1>2. PICK k \in Keys : k = req[c].key
  BY <1>1, HasKey
<1>3. CASE Creating(c)
  BY <1>2, <1>3, Add_Inv, ResetSeqNo_Inv, MakeDirs_Inv, OpenFile_Inv, WriteFile_Inv, InsertView_Inv DEF Creating
<1>4. CASE Reading(c)
  BY <1>2, <1>4, GetCached_Inv, LoadFile_Inv, FillCache_Inv, NumberExecution_Inv DEF Reading
<1>5. CASE Deleting(c)
  BY <1>2, <1>5, DeleteRecords_Inv, DeleteView_Inv, RemoveFiles_Inv, RemoveCached_Inv DEF Deleting
<1> QED BY <1>3, <1>4, <1>5

LEMMA Next_Inv == IInv /\ [Next]_vars => IInv'
<1> SUFFICES ASSUME IInv, [Next]_vars PROVE IInv'
  OBVIOUS
<1>1. CASE UNCHANGED vars
  <2>1. UNCHANGED <<server, cache, seqNo, dir, file, rows, records, req, answer, sure, failed, strayed>>
    BY <1>1 DEF vars, memory, disk, tables, history
  <2>2. TypeOK' /\ FatalOnlyAfterFailure' /\ Exclusive'
    BY <2>1 DEF IInv, TypeOK, FatalOnlyAfterFailure, Exclusive, At, Refused
  <2>3. \A c \in Clients : OpOK(req[c])' /\ Facts(c)'
    BY <2>1 DEF IInv, Facts
  <2>4. \A k \in Keys : KeyOK(k)'
    BY <2>1 DEF IInv, KeyOK, Busy
  <2> QED BY <2>2, <2>3, <2>4 DEF IInv
<1>2. ASSUME server = "up", NEW c \in Clients, NEW j \in Jobs, Request(c, j) PROVE IInv'
  BY <1>2, CreateJob_Inv, UpdateJob_Inv, ReadJob_Inv, ReadNotFound_Inv, ExecJob_Inv, DelJob_Inv DEF Request
<1>3. ASSUME server = "up", NEW c \in Clients, Creating(c) \/ Reading(c) \/ Deleting(c) PROVE IInv'
  BY <1>3, Work_Inv
<1>4. ASSUME server = "up", NEW k \in Keys, Evict(k) PROVE IInv'
  BY <1>4, Evict_Inv
<1>5. CASE Restart
  BY <1>5, Restart_Inv
<1> QED BY <1>1, <1>2, <1>3, <1>4, <1>5 DEF Next

LEMMA Invariance == Spec => []IInv
  BY Init_Inv, Next_Inv, PTL DEF Spec

(* The variables keep their types, and no configuration file is without its    *)
(* directory (WriteData).                                                      *)
THEOREM StoreTypeCorrect == Spec => []TypeOK
<1>1. IInv => TypeOK
  BY DEF IInv
<1> QED BY <1>1, Invariance, PTL

(* Rows of jobView and configuration files agree where no change is under way  *)
(* or failed, for any number of jobs and requests (createJob, delJob).         *)
THEOREM RowsAgreeWithFiles == Spec => []ListedAreStored
<1>1. IInv => ListedAreStored
  BY JobsAreKeys DEF IInv, KeyOK, ListedAreStored
<1> QED BY <1>1, Invariance, PTL

(* Only a disk that failed, a configuration that cannot be encoded, or an      *)
(* execution of a job without configuration file leads to log.Fatal            *)
(* (createJob, updateJob, readJob, execJob).                                   *)
THEOREM NoFatalWithoutFailure == Spec => []FatalOnlyAfterFailure
<1>1. IInv => FatalOnlyAfterFailure
  BY DEF IInv
<1> QED BY <1>1, Invariance, PTL
-----------------------------------------------------------------------------
(* The refinement: every step of JobStore is a step of the store of            *)
(* configurations, or none.                                                    *)
StoreVars == <<[k \in Keys |-> Known(k)], [k \in Keys |-> Coming(k)], answer>>

(* A step of the store, or none. *)
StoreStep == Store!Next \/ UNCHANGED StoreVars

(* Nothing about key l changes for the store. *)
Still(l) == Known(l)' = Known(l) /\ Coming(l)' = Coming(l)

LEMMA KeepsAll ==
  ASSUME \A l \in Keys : Still(l)
  PROVE  /\ [l \in Keys |-> Known(l)]' = [l \in Keys |-> Known(l)]
         /\ [l \in Keys |-> Coming(l)]' = [l \in Keys |-> Coming(l)]
  BY DEF Still

(* The steps of the store, told by what happens at one key. *)
LEMMA NoStep ==
  ASSUME \A l \in Keys : Still(l), answer' = answer
  PROVE  StoreStep
  BY KeepsAll DEF StoreStep, StoreVars

LEMMA BeginStep ==
  ASSUME NEW k \in Keys, \A l \in Keys \ {k} : Still(l), answer' = answer,
         NEW v \in Configs \cup {None},
         Coming(k) = Unknown, Coming(k)' = v, Known(k)' = Unknown
  PROVE  StoreStep
<1>1. Store!Begin(k, v)
  BY DEF Store!Begin, Still
<1> QED BY <1>1 DEF StoreStep, Store!Next

LEMMA SucceedStep ==
  ASSUME NEW k \in Keys, \A l \in Keys \ {k} : Still(l), answer' = answer,
         Coming(k) # Unknown, Coming(k)' = Unknown, Known(k)' = Coming(k)
  PROVE  StoreStep
<1>1. Store!Succeed(k)
  BY DEF Store!Succeed, Still
<1> QED BY <1>1 DEF StoreStep, Store!Next

LEMMA GiveUpStep ==
  ASSUME NEW k \in Keys, \A l \in Keys \ {k} : Still(l), answer' = answer,
         Coming(k)' = Unknown, Known(k)' = Known(k)
  PROVE  StoreStep
<1>1. Store!GiveUp({k})
  BY DEF Store!GiveUp, Still
<1> QED BY <1>1 DEF StoreStep, Store!Next

LEMMA ReadStep ==
  ASSUME NEW k \in Keys, \A l \in Keys : Still(l),
         Known(k) = Unknown => answer' \in Stored,
         Known(k) # Unknown => answer' = Known(k)
  PROVE  StoreStep
<1>1. Store!Answers = Stored
  BY DEF Store!Answers, Stored
<1>2. Store!Read(k)
  BY <1>1, KeepsAll DEF Store!Read
<1> QED BY <1>2 DEF StoreStep, Store!Next
-----------------------------------------------------------------------------
(* What request c does to its key k does not touch the others. *)
LEMMA Elsewhere ==
  ASSUME NEW c \in Clients, NEW k \in Keys,
         \A d \in Clients : d # c => req'[d] = req[d],
         req[c].key \in {k, None}, req'[c].key \in {k, None},
         NEW l \in Keys, l # k,
         file'[l] = file[l], l \in sure' <=> l \in sure
  PROVE  Still(l)
<1>1. Known(l)' = Known(l)
  BY DEF Known
<1>2. \A d \in Clients : (req'[d].key = l <=> req[d].key = l) /\ (req[d].key = l => req'[d] = req[d])
  BY SpacesAssumption
<1>3. Changing(l)' = Changing(l) /\ \A d \in Changing(l) : req'[d] = req[d]
  BY <1>2 DEF Changing
<1>4. {req'[d] : d \in Changing(l)'} = {req[d] : d \in Changing(l)}
  BY <1>3
<1>5. Coming(l)' = Coming(l)
  BY <1>3, <1>4 DEF Coming
<1> QED BY <1>1, <1>5 DEF Still

(* The only request that changes k decides what k is about to be. *)
LEMMA OneComing ==
  ASSUME NEW c \in Clients, NEW k \in Keys, Changing(k) = {c}
  PROVE  Coming(k) = req[c].val
<1>1. {req[d] : d \in Changing(k)} = {req[c]}
  OBVIOUS
<1>2. Only({req[c]}) = req[c]
  BY DEF Only
<1>3. Changing(k) # {}
  OBVIOUS
<1> QED BY <1>1, <1>2, <1>3 DEF Coming

LEMMA OneComingNext ==
  ASSUME NEW c \in Clients, NEW k \in Keys, Changing(k)' = {c}
  PROVE  Coming(k)' = req'[c].val
<1>1. {req'[d] : d \in Changing(k)'} = {req'[c]}
  OBVIOUS
<1>2. Only({req'[c]}) = req'[c]
  BY DEF Only
<1>3. Changing(k)' # {}
  OBVIOUS
<1> QED BY <1>1, <1>2, <1>3 DEF Coming

(* A request that changes k is alone with it. *)
LEMMA WriterAlone ==
  ASSUME IInv, NEW c \in Clients, NEW k \in Keys, k = req[c].key, req[c].pc # "idle",
         req[c].op \notin Readers, Frame(c, k),
         req'[c] = Idle \/ req'[c].val = req[c].val
  PROVE  /\ k \notin sure => Coming(k) = req[c].val
         /\ k \in sure => Coming(k) = Unknown
         /\ k \in sure' \/ req'[c] = Idle => Coming(k)' = Unknown
         /\ k \notin sure' /\ req'[c] # Idle => Coming(k)' = req[c].val
         /\ \A l \in Keys \ {k} : Still(l)
<1>1. \A d \in Clients : d # c => req[d].key # k /\ req'[d] = req[d]
  <2> SUFFICES ASSUME NEW d \in Clients, d # c PROVE req[d].key # k /\ req'[d] = req[d]
    OBVIOUS
  <2>1. req[d].pc = "idle" => req[d].key = None
    BY DEF IInv, OpOK, Idle
  <2>2. None # k
    BY SpacesAssumption
  <2> QED BY <2>1, <2>2 DEF IInv, Exclusive, Frame
<1>2. k \notin sure => Changing(k) = {c}
  BY <1>1 DEF Changing
<1>3. k \in sure => Changing(k) = {}
  BY DEF Changing
<1>4. Idle.key # k
  BY SpacesAssumption DEF Idle
<1>5. k \in sure' \/ req'[c] = Idle => Changing(k)' = {}
  BY <1>1, <1>4 DEF Changing
<1>6. k \notin sure' /\ req'[c] # Idle => Changing(k)' = {c}
  BY <1>1 DEF Changing, Frame
<1>7. \A l \in Keys \ {k} : Still(l)
  <2> SUFFICES ASSUME NEW l \in Keys, l # k PROVE Still(l)
    OBVIOUS
  <2>1. Same(l) /\ req'[c].key \in {k, None}
    BY DEF Frame, Idle
  <2> QED BY <1>1, <2>1, Elsewhere DEF Same
<1>8. k \notin sure => Coming(k) = req[c].val
  BY <1>2, OneComing
<1>9. k \notin sure' /\ req'[c] # Idle => Coming(k)' = req[c].val
  BY <1>6, OneComingNext
<1>10. k \in sure => Coming(k) = Unknown
  BY <1>3 DEF Coming
<1>11. k \in sure' \/ req'[c] = Idle => Coming(k)' = Unknown
  BY <1>5 DEF Coming
<1> QED BY <1>7, <1>8, <1>9, <1>10, <1>11

(* While a request reads k nobody changes it. *)
LEMMA ReaderStill ==
  ASSUME IInv, NEW c \in Clients, NEW k \in Keys, k = req[c].key, req[c].pc # "idle",
         req[c].op \in Readers, Frame(c, k), sure' = sure
  PROVE  \A l \in Keys : Still(l)
<1>1. \A d \in Clients : req[d].key = k => req[d].op \in Readers
  <2> SUFFICES ASSUME NEW d \in Clients, req[d].key = k PROVE req[d].op \in Readers
    OBVIOUS
  <2>1. req[d].pc # "idle"
    BY SpacesAssumption DEF IInv, OpOK, Idle
  <2> QED BY <2>1 DEF IInv, Exclusive
<1>2. Changing(k) = {}
  BY <1>1 DEF Changing
<1>3. Idle.key # k
  BY SpacesAssumption DEF Idle
<1>4. Changing(k)' = {}
  BY <1>1, <1>3 DEF Changing, Frame
<1>5. Coming(k) = Unknown /\ Coming(k)' = Unknown
  BY <1>2, <1>4 DEF Coming
<1>6. Known(k)' = Known(k)
  BY DEF Known, Frame
<1>7. ASSUME NEW l \in Keys, l # k PROVE Still(l)
  <2>1. Same(l) /\ req'[c].key \in {k, None} /\ \A d \in Clients : d # c => req'[d] = req[d]
    BY <1>7 DEF Frame, Idle
  <2> QED BY <1>7, <2>1, Elsewhere DEF Same
<1> QED BY <1>5, <1>6, <1>7 DEF Still
-----------------------------------------------------------------------------
(* A step of a request that changes k begins the change, is nothing to the     *)
(* store or gives the change up, or completes it.                              *)
LEMMA WriterSteps ==
  ASSUME IInv, NEW c \in Clients, NEW k \in Keys, k = req[c].key, req[c].pc # "idle",
         req[c].op \notin Readers, Frame(c, k), answer' = answer,
         req'[c] = Idle \/ req'[c].val = req[c].val,
         \/ k \notin sure' /\ (k \in sure => req'[c] # Idle)
         \/ k \notin sure /\ k \in sure' /\ file'[k] = req[c].val
  PROVE  StoreStep
<1>1. /\ k \notin sure => Coming(k) = req[c].val
      /\ k \in sure => Coming(k) = Unknown
      /\ k \in sure' \/ req'[c] = Idle => Coming(k)' = Unknown
      /\ k \notin sure' /\ req'[c] # Idle => Coming(k)' = req[c].val
      /\ \A l \in Keys \ {k} : Still(l)
  BY WriterAlone
<1>2. req[c].val \in Configs \cup {None} /\ req[c].val # Unknown
  <2>1. req[c] \in ReqState /\ OpOK(req[c])
    BY AtKey
  <2>2. req[c].pc \in Writing \cup Removing
    BY <2>1 DEF ReqState, OpOK, Writing, Loading, Removing
  <2>3. req[c].val \in Configs \cup {None}
    BY <2>1, <2>2 DEF OpOK
  <2> QED BY <2>3, ValuesAssumption
<1>3. CASE k \in sure /\ k \notin sure' /\ req'[c] # Idle
  <2>1. Coming(k) = Unknown /\ Coming(k)' = req[c].val /\ Known(k)' = Unknown
    BY <1>1, <1>3 DEF Known
  <2> QED BY <1>1, <1>2, <2>1, BeginStep
<1>4. CASE k \notin sure /\ k \notin sure' /\ req'[c] # Idle
  <2>1. Still(k)
    BY <1>1, <1>4 DEF Known, Still
  <2> QED BY <1>1, <2>1, NoStep
<1>5. CASE k \notin sure /\ k \notin sure' /\ req'[c] = Idle
  <2>1. Coming(k)' = Unknown /\ Known(k)' = Known(k)
    BY <1>1, <1>5 DEF Known
  <2> QED BY <1>1, <2>1, GiveUpStep
<1>6. CASE k \notin sure /\ k \in sure' /\ file'[k] = req[c].val
  <2>1. Coming(k) # Unknown /\ Coming(k)' = Unknown /\ Known(k)' = Coming(k)
    BY <1>1, <1>2, <1>6 DEF Known
  <2> QED BY <1>1, <2>1, SucceedStep
<1> QED BY <1>3, <1>4, <1>5, <1>6

(* A step of a request that reads k answers what is known, or nothing.         *)
LEMMA ReaderSteps ==
  ASSUME IInv, NEW c \in Clients, NEW k \in Keys, k = req[c].key, req[c].pc # "idle",
         req[c].op \in Readers, Frame(c, k), sure' = sure,
         answer' = answer \/ (answer' \in Stored /\ (k \in sure => answer' = file[k]))
  PROVE  StoreStep
<1>1. \A l \in Keys : Still(l)
  BY ReaderStill
<1>2. CASE answer' = answer
  BY <1>1, <1>2, NoStep
<1>3. CASE answer' \in Stored /\ (k \in sure => answer' = file[k])
  <2>1. file[k] # Unknown
    BY Values DEF IInv, TypeOK
  <2>2. Known(k) = Unknown <=> k \notin sure
    BY <2>1 DEF Known
  <2>3. Known(k) # Unknown => Known(k) = file[k]
    BY DEF Known
  <2> QED BY <1>1, <1>3, <2>2, <2>3, ReadStep
<1> QED BY <1>2, <1>3

(* A request that arrives begins a change only where nothing is known.         *)
LEMMA ArrivalSteps ==
  ASSUME IInv, NEW c \in Clients, NEW op \in Ops, NEW j \in Jobs, NEW pc \in PCs, NEW v \in Stored,
         Arrives(c, op, j, pc, v), op \notin Readers => v \in Configs \cup {None},
         UNCHANGED <<server, memory, disk, tables, history>>
  PROVE  StoreStep
<1>1. PICK k \in Keys : k = KeyOf(op, j)
  BY KeysOfJobs
<1>2. /\ \A d \in Clients : d # c => req'[d] = req[d]
      /\ req'[c].op = op /\ req'[c].key = k /\ req'[c].val = v
      /\ req[c] = Idle
  BY <1>1, ArrivesAt
<1>3. file' = file /\ sure' = sure /\ answer' = answer
  BY DEF disk, history
<1>4. \A l \in Keys \ {k} : Still(l)
  <2> SUFFICES ASSUME NEW l \in Keys, l # k PROVE Still(l)
    OBVIOUS
  <2>1. req[c].key \in {k, None}
    BY <1>2 DEF Idle
  <2> QED BY <1>2, <1>3, <2>1, Elsewhere
<1>5. Known(k)' = Known(k)
  BY <1>3 DEF Known
<1>6. \A d \in Clients : req[d].key = k => op \in Readers /\ req[d].op \in Readers
  BY <1>1 DEF Arrives
<1>7. Changing(k) = {}
  BY <1>6 DEF Changing
<1>8. CASE op \in Readers \/ k \in sure
  <2>1. Changing(k)' = {}
    BY <1>2, <1>3, <1>6, <1>8 DEF Changing
  <2>2. Still(k)
    BY <1>5, <1>7, <2>1 DEF Still, Coming
  <2> QED BY <1>3, <1>4, <2>2, NoStep
<1>9. CASE op \notin Readers /\ k \notin sure
  <2>1. Changing(k)' = {c}
    BY <1>2, <1>3, <1>6, <1>9 DEF Changing
  <2>2. Coming(k) = Unknown /\ Coming(k)' = v
    BY <1>2, <1>7, <2>1, OneComingNext DEF Coming
  <2>3. Known(k)' = Unknown
    BY <1>5, <1>9 DEF Known
  <2> QED BY <1>3, <1>4, <1>9, <2>2, <2>3, BeginStep
<1> QED BY <1>8, <1>9

LEMMA RequestSteps ==
  ASSUME IInv, NEW c \in Clients, NEW j \in Jobs, Request(c, j)
  PROVE  StoreStep
<1>1. ASSUME NEW v \in Configs, CreateJob(c, j, v) PROVE StoreStep
  <2>1. v \in Stored /\ "create" \in Ops /\ "add" \in PCs
    BY Values DEF Ops, PCs
  <2> QED BY <1>1, <2>1, ArrivalSteps DEF CreateJob
<1>2. ASSUME NEW v \in Configs, UpdateJob(c, j, v) PROVE StoreStep
  <2>1. v \in Stored /\ "add" \in PCs
    BY Values DEF PCs
  <2>2. PICK op \in Ops : Arrives(c, op, j, "add", v)
    BY <1>2 DEF UpdateJob, Ops
  <2> QED BY <1>2, <2>1, <2>2, ArrivalSteps DEF UpdateJob
<1>3. CASE ReadJob(c, j)
  <2>1. None \in Stored /\ "read" \in Ops /\ "get" \in PCs
    BY Values DEF Ops, PCs
  <2> QED BY <1>3, <2>1, ArrivalSteps DEF ReadJob
<1>4. CASE ExecJob(c, j)
  <2>1. None \in Stored /\ "exec" \in Ops
    BY Values DEF Ops
  <2>2. PICK pc \in PCs : Arrives(c, "exec", j, pc, None)
    BY <1>4 DEF ExecJob, PCs
  <2> QED BY <1>4, <2>1, <2>2, ArrivalSteps DEF ExecJob
<1>5. CASE DelJob(c, j)
  <2>1. None \in Stored /\ "delete" \in Ops /\ "records" \in PCs
    BY Values DEF Ops, PCs
  <2> QED BY <1>5, <2>1, ArrivalSteps DEF DelJob
<1>6. CASE ReadNotFound(c, j)
  <2>1. UNCHANGED <<file, req, sure>> /\ answer' = None /\ file[j] = None
    BY <1>6 DEF ReadNotFound, disk, JobExists
  <2>2. \A l \in Keys : Still(l)
    BY <2>1 DEF Still, Known, Coming, Changing
  <2>3. j \in Keys /\ None \in Stored /\ (Known(j) # Unknown => Known(j) = None)
    BY <2>1, JobsAreKeys, Values DEF Known
  <2> QED BY <2>1, <2>2, <2>3, ReadStep
<1> QED BY <1>1, <1>2, <1>3, <1>4, <1>5, <1>6 DEF Request
-----------------------------------------------------------------------------
(* createJob and updateJob. *)
LEMMA CreatingSteps ==
  ASSUME IInv, server = "up", NEW c \in Clients, NEW k \in Keys, k = req[c].key, Creating(c)
  PROVE  StoreStep
<1>1. req[c].pc \in Writing
  BY DEF Creating, Add, ResetSeqNo, MakeDirs, OpenFile, WriteFile, InsertView, At, Writing
<1>2. /\ req[c].pc # "idle" /\ OpOK(req[c]) /\ Facts(c) /\ TypeOK
      /\ req[c].op \notin Readers
  BY <1>1, AtKey DEF Writing, OpOK, Readers
<1>3. Frame(c, k)
  BY Add_Inv, ResetSeqNo_Inv, MakeDirs_Inv, OpenFile_Inv, WriteFile_Inv, InsertView_Inv DEF Creating
<1>4. req'[c] = Idle \/ req'[c].val = req[c].val
  <2>1. \A pc \in PCs : Goes(c, pc) => req'[c].val = req[c].val
    BY <1>2, GoesTo
  <2>2. Ends(c) => req'[c] = Idle
    BY <1>2, EndsAt
  <2>3. (\E pc \in PCs : Goes(c, pc)) \/ Ends(c) \/ req' = req
    BY DEF Creating, Add, ResetSeqNo, MakeDirs, OpenFile, WriteFile, InsertView, PCs, Fails, Succeeds
  <2> QED BY <2>1, <2>2, <2>3
<1>5. answer' = answer
  BY DEF Creating, Add, ResetSeqNo, MakeDirs, OpenFile, WriteFile, InsertView, Fails, Succeeds, history
<1>6. CASE Add(c)
  <2>1. Goes(c, "open") \/ Goes(c, "number")
    BY <1>6 DEF Add
  <2>2. req'[c].pc \in {"open", "number"}
    BY <1>2, <2>1, GoesTo DEF PCs
  <2>3. req'[c] # Idle /\ k \notin sure'
    BY <1>6, <2>2 DEF Add, Idle
  <2> QED BY <1>2, <1>3, <1>4, <1>5, <2>3, WriterSteps
<1>7. CASE ResetSeqNo(c) \/ MakeDirs(c) \/ OpenFile(c)
  <2>1. k \notin sure /\ sure' = sure
    BY <1>2, <1>7 DEF Facts, ResetSeqNo, MakeDirs, OpenFile, At, Fails, history
  <2> QED BY <1>2, <1>3, <1>4, <1>5, <2>1, WriterSteps
<1>8. CASE WriteFile(c)
  <2>1. k \notin sure
    BY <1>2, <1>8 DEF Facts, WriteFile, At
  <2>2. k \in sure' => file' = [file EXCEPT ![k] = req[c].val]
    BY <1>8, <2>1 DEF WriteFile, Fails, history
  <2>3. k \in sure' => file'[k] = req[c].val
    BY <1>2, <2>2 DEF TypeOK
  <2> QED BY <1>2, <1>3, <1>4, <1>5, <2>1, <2>3, WriterSteps
<1>9. CASE InsertView(c)
  <2>1. k \notin sure /\ file[k] = req[c].val /\ file' = file
    BY <1>2, <1>9 DEF Facts, InsertView, At, disk
  <2> QED BY <1>2, <1>3, <1>4, <1>5, <2>1, WriterSteps
<1> QED BY <1>6, <1>7, <1>8, <1>9 DEF Creating

(* delJob. *)
LEMMA DeletingSteps ==
  ASSUME IInv, server = "up", NEW c \in Clients, NEW k \in Keys, k = req[c].key, Deleting(c)
  PROVE  StoreStep
<1>1. req[c].pc \in Removing
  BY DEF Deleting, DeleteRecords, DeleteView, RemoveFiles, RemoveCached, At, Removing
<1>2. /\ req[c].pc # "idle" /\ OpOK(req[c]) /\ Facts(c) /\ TypeOK
      /\ req[c].op \notin Readers /\ req[c].val = None
  BY <1>1, AtKey DEF Removing, OpOK, Readers
<1>3. Frame(c, k)
  BY DeleteRecords_Inv, DeleteView_Inv, RemoveFiles_Inv, RemoveCached_Inv DEF Deleting
<1>4. req'[c] = Idle \/ req'[c].val = req[c].val
  <2>1. \A pc \in PCs : Goes(c, pc) => req'[c].val = req[c].val
    BY <1>2, GoesTo
  <2>2. Ends(c) => req'[c] = Idle
    BY <1>2, EndsAt
  <2>3. (\E pc \in PCs : Goes(c, pc)) \/ Ends(c)
    BY DEF Deleting, DeleteRecords, DeleteView, RemoveFiles, RemoveCached, PCs, Fails, Succeeds
  <2> QED BY <2>1, <2>2, <2>3
<1>5. answer' = answer
  BY DEF Deleting, DeleteRecords, DeleteView, RemoveFiles, RemoveCached, Fails, Succeeds, history
<1>6. CASE DeleteRecords(c)
  <2>1. req'[c].pc = "row"
    BY <1>2, <1>6, GoesTo DEF DeleteRecords, PCs
  <2>2. req'[c] # Idle /\ k \notin sure'
    BY <1>6, <2>1 DEF DeleteRecords, Idle
  <2> QED BY <1>2, <1>3, <1>4, <1>5, <2>2, WriterSteps
<1>7. CASE DeleteView(c) \/ RemoveFiles(c)
  <2>1. k \notin sure /\ sure' = sure
    BY <1>2, <1>7 DEF Facts, DeleteView, RemoveFiles, At, Fails, history
  <2> QED BY <1>2, <1>3, <1>4, <1>5, <2>1, WriterSteps
<1>8. CASE RemoveCached(c)
  <2>1. k \notin sure /\ file[k] = None /\ file' = file
    BY <1>2, <1>8 DEF Facts, RemoveCached, At, disk
  <2> QED BY <1>2, <1>3, <1>4, <1>5, <2>1, WriterSteps
<1> QED BY <1>6, <1>7, <1>8 DEF Deleting

(* readJob and execJob: what the cache has and what was read from the file is  *)
(* the file, where the file is known.                                          *)
LEMMA ReadingSteps ==
  ASSUME IInv, server = "up", NEW c \in Clients, NEW k \in Keys, k = req[c].key, Reading(c)
  PROVE  StoreStep
<1>1. req[c].pc \in Loading
  BY DEF Reading, GetCached, LoadFile, FillCache, NumberExecution, At, Loading
<1>2. /\ req[c].pc # "idle" /\ OpOK(req[c]) /\ Facts(c) /\ TypeOK /\ KeyOK(k)
      /\ req[c].op \in Readers /\ req[c] \in ReqState
  BY <1>1, AtKey DEF Loading, OpOK
<1>3. Frame(c, k)
  BY GetCached_Inv, LoadFile_Inv, FillCache_Inv, NumberExecution_Inv DEF Reading
<1>4. sure' = sure
  BY DEF Reading, GetCached, LoadFile, FillCache, NumberExecution, Answer, history
<1>5. cache[k] \in Stored /\ file[k] \in Stored /\ req[c].val \in Stored /\ None \in Stored
  BY <1>2, Values DEF TypeOK, ReqState
<1>6. answer' = answer \/ (answer' \in Stored /\ (k \in sure => answer' = file[k]))
  <2>1. CASE GetCached(c)
    <3>1. answer' = answer \/ (cache[k] # None /\ answer' = cache[k])
      BY <2>1 DEF GetCached, Answer, history
    <3> QED BY <1>2, <1>5, <3>1 DEF KeyOK
  <2>2. CASE LoadFile(c)
    BY <1>5, <2>2 DEF LoadFile, Answer, history
  <2>3. CASE FillCache(c)
    <3>1. req[c].val = file[k]
      BY <1>2, <2>3 DEF FillCache, At, Facts
    <3> QED BY <1>5, <2>3, <3>1 DEF FillCache, Answer, history
  <2>4. CASE NumberExecution(c)
    BY <2>4 DEF NumberExecution, history
  <2> QED BY <2>1, <2>2, <2>3, <2>4 DEF Reading
<1> QED BY <1>2, <1>3, <1>4, <1>6, ReaderSteps

LEMMA EvictSteps ==
  ASSUME NEW k \in Keys, Evict(k)
  PROVE  StoreStep
<1>1. UNCHANGED <<file, req, sure, answer>>
  BY DEF Evict, disk, history
<1>2. \A l \in Keys : Still(l)
  BY <1>1 DEF Still, Known, Coming, Changing
<1> QED BY <1>1, <1>2, NoStep

(* A restart gives up every change that was under way.                         *)
LEMMA RestartSteps ==
  ASSUME Restart
  PROVE  StoreStep
<1>1. UNCHANGED <<file, sure, answer>> /\ req' = [c \in Clients |-> Idle]
  BY DEF Restart, disk, history
<1>2. \A l \in Keys : Known(l)' = Known(l)
  BY <1>1 DEF Known
<1>3. ASSUME NEW l \in Keys PROVE Coming(l)' = Unknown
  <2>1. Changing(l)' = {}
    BY <1>1, SpacesAssumption DEF Changing, Idle
  <2> QED BY <2>1 DEF Coming
<1>4. Store!GiveUp(Keys)
  BY <1>1, <1>2, <1>3 DEF Store!GiveUp
<1> QED BY <1>4 DEF StoreStep, Store!Next

LEMMA StoreInit == Init => Store!Init
<1> SUFFICES ASSUME Init PROVE Store!Init
  OBVIOUS
<1>1. \A l \in Keys : Known(l) = None
  BY DEF Init, Known
<1>2. ASSUME NEW l \in Keys PROVE Coming(l) = Unknown
  <2>1. Changing(l) = {}
    BY DEF Init, Changing
  <2> QED BY <2>1 DEF Coming
<1> QED BY <1>1, <1>2 DEF Init, Store!Init

LEMMA StoreNext == IInv /\ [Next]_vars => [Store!Next]_StoreVars
<1> SUFFICES ASSUME IInv, [Next]_vars PROVE StoreStep
  BY DEF StoreStep
<1>1. ASSUME NEW c \in Clients, NEW j \in Jobs, Request(c, j) PROVE StoreStep
  BY <1>1, RequestSteps
<1>2. ASSUME server = "up", NEW c \in Clients, Creating(c) \/ Reading(c) \/ Deleting(c) PROVE StoreStep
  <2>1. req[c].pc # "idle"
    BY <1>2 DEF Creating, Reading, Deleting, At, Add, ResetSeqNo, MakeDirs, OpenFile, WriteFile, InsertView,
                GetCached, LoadFile, FillCache, NumberExecution, DeleteRecords, DeleteView, RemoveFiles,
                RemoveCached
  <2>2. PICK k \in Keys : k = req[c].key
    BY <2>1, HasKey
  <2> QED BY <1>2, <2>2, CreatingSteps, ReadingSteps, DeletingSteps
<1>3. ASSUME NEW k \in Keys, Evict(k) PROVE StoreStep
  BY <1>3, EvictSteps
<1>4. CASE Restart
  BY <1>4, RestartSteps
<1>5. CASE UNCHANGED vars
  <2>1. UNCHANGED <<file, req, sure, answer>>
    BY <1>5 DEF vars, disk, history
  <2>2. \A l \in Keys : Still(l)
    BY <2>1 DEF Still, Known, Coming, Changing
  <2> QED BY <2>1, <2>2, NoStep
<1> QED BY <1>1, <1>2, <1>3, <1>4, <1>5 DEF Next

(* Cache, file, evictions, failures of the disk and restarts together keep     *)
(* what ConfigStore promises: a configuration that was answered with success   *)
(* stays and is what readJob answers (createJob, updateJob, readJob, delJob).  *)
THEOREM StoreIsImplemented == Spec => ImplementsConfigStore
<1>1. Init => Store!Init
  BY StoreInit
<1>2. IInv /\ [Next]_vars => [Store!Next]_StoreVars
  BY StoreNext
<1> QED BY <1>1, <1>2, Invariance, PTL DEF Spec, ImplementsConfigStore, Store!Spec, StoreVars
=============================================================================
