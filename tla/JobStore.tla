------------------------------ MODULE JobStore ------------------------------
(***************************************************************************)
(* Job configurations (api/jobs/handlers.go, utils/utils.go): createJob,   *)
(* updateJob, readJob, delJob and the part of execJob that reads the       *)
(* configuration and numbers the execution, each step by step, on what     *)
(* they share: the cache, the configuration file, the directory, the row   *)
(* of jobView, the sequence number and the records. Every step may be      *)
(* followed by the death of the server, and those that write to the disk   *)
(* or to jobView may fail. Where an error ends the process (log.Fatal on   *)
(* an error of the database or on reading a file) it is such a death.      *)
(*                                                                         *)
(* Left out: executions once they are numbered (JobExec), the wait and the *)
(* channels of delJob (JobDelete), the Dockerfile. A client that changes a *)
(* job waits for the others and they for it.                               *)
(***************************************************************************)
EXTENDS Integers, FiniteSets, FiniteSetsExt

CONSTANTS
  Spaces,   \* namespaces
  Names,    \* names of jobs
  NoSpace,  \* the empty namespace
  Configs,  \* configurations
  NoImage,  \* those without an ImgManager
  NoMarshal,\* those proto.Marshal refuses: a list with an entry that is null
  Clients,  \* requests that can be under way at the same time (a bound)
  MaxSeq,   \* the last execution number the model hands out (a bound)
  None,     \* no configuration, no job
  Empty,    \* the configuration in an empty file: every field has its zero value
  Torn,     \* what is left of a configuration that could not be written to its end
  Unknown   \* the value of a key nothing is promised about

Jobs == Spaces \X Names
Keys == (Spaces \cup {NoSpace}) \X Names

ASSUME SpacesAssumption == NoSpace \notin Spaces /\ None \notin Keys
ASSUME ConfigsAssumption == NoImage \subseteq Configs /\ NoMarshal \subseteq Configs
ASSUME SeqAssumption    == MaxSeq \in Nat
ASSUME ValuesAssumption ==
  /\ {None, Empty, Torn, Unknown} \cap Configs = {}
  /\ Empty # None /\ Torn \notin {None, Empty} /\ Unknown \notin {None, Empty, Torn}

VARIABLES
  server,   \* "up", or "fatal" after log.Fatal ended the process
  cache,    \* d.JobCache: a configuration or None
  seqNo,    \* d.SeqNo, 0 for a missing entry
  dir,      \* the keys whose directory .shera exists
  file,     \* the file configfile: a configuration, Empty, Torn, or None
  rows,     \* the keys of table jobView
  records,  \* records[k]: the numbers of k in table job
  req,      \* the requests under way
  answer,   \* history: what readJob answered last
  sure,     \* history: the last change of k was answered with success
  failed,   \* history: the disk failed
  strayed   \* history: a job without configuration file was executed

memory  == <<cache, seqNo>>
disk    == <<dir, file>>
tables  == <<rows, records>>
history == <<answer, sure, failed, strayed>>
vars == <<server, memory, disk, tables, req, history>>

Idle == [op |-> "none", pc |-> "idle", job |-> None, key |-> None, val |-> None]

Readers == {"read", "exec"}

(* The route of updateJob has no segment for the namespace: the path parameter *)
(* is empty, whatever job is meant.                                            *)
KeyOf(op, j) == IF op \in {"update", "insert"} THEN <<NoSpace, j[2]>> ELSE j

(* Mutant: the cache decides whether a job exists. *)
JobExistsCached(k) == cache[k] # None

JobExists(k) == cache[k] # None \/ file[k] # None

(* A request for job j arrives and is at pc after its first look; nobody       *)
(* changes a key others work with.                                             *)
Arrives(c, op, j, pc, v) ==
  /\ req[c] = Idle
  /\ \A d \in Clients : req[d].key = KeyOf(op, j) => {op, req[d].op} \subseteq Readers
  /\ req' = [req EXCEPT ![c] = [op |-> op, pc |-> pc, job |-> j, key |-> KeyOf(op, j), val |-> v]]

At(c, pc) == req[c].pc = pc

Goes(c, pc) == req' = [req EXCEPT ![c].pc = pc]

Ends(c) == req' = [req EXCEPT ![c] = Idle]

(* The answer is an error, although something may have changed. *)
Fails(c) == Ends(c) /\ failed' = TRUE /\ UNCHANGED <<answer, sure, strayed>>

Succeeds(c) ==
  /\ Ends(c)
  /\ sure' = sure \cup {req[c].key}
  /\ UNCHANGED <<answer, failed, strayed>>

Init ==
  /\ server = "up"
  /\ cache = [k \in Keys |-> None]
  /\ seqNo = [k \in Keys |-> 0]
  /\ dir = {}
  /\ file = [k \in Keys |-> None]
  /\ rows = {}
  /\ records = [k \in Keys |-> {}]
  /\ req = [c \in Clients |-> Idle]
  /\ answer = None
  /\ sure = Keys
  /\ failed = FALSE
  /\ strayed = FALSE

-----------------------------------------------------------------------------
(* createJob of a job that does not exist; for one that exists it only says so. *)
CreateJob(c, j, v) ==
  /\ ~JobExists(j)
  /\ Arrives(c, "create", j, "add", v)
  /\ UNCHANGED <<server, memory, disk, tables, history>>

(* updateJob; a job that does not exist is made ("insert"). *)
UpdateJob(c, j, v) ==
  /\ LET op == IF JobExists(KeyOf("update", j)) THEN "update" ELSE "insert"
     IN Arrives(c, op, j, "add", v)
  /\ UNCHANGED <<server, memory, disk, tables, history>>

(* d.JobCache.Add, before anything else. *)
Add(c) ==
  /\ At(c, "add")
  /\ cache' = [cache EXCEPT ![req[c].key] = req[c].val]
  /\ sure' = sure \ {req[c].key}
  /\ Goes(c, IF req[c].op = "update" THEN "open" ELSE "number")
  /\ UNCHANGED <<server, seqNo, disk, tables, answer, failed, strayed>>

(* d.SeqNo[key] = 0 *)
ResetSeqNo(c) ==
  /\ At(c, "number")
  /\ seqNo' = [seqNo EXCEPT ![req[c].key] = 0]
  /\ Goes(c, "mkdir")
  /\ UNCHANGED <<server, cache, disk, tables, history>>

(* os.MkdirAll. Then createJob looks into the ImgManager of the configuration; *)
(* without one that is a panic, which ends the request and nothing else.       *)
MakeDirs(c) ==
  /\ At(c, "mkdir")
  /\ \/ /\ dir' = dir \cup {req[c].key}
        /\ IF req[c].op = "create" /\ req[c].val \in NoImage THEN Ends(c) ELSE Goes(c, "open")
        /\ UNCHANGED history
     \/ Fails(c) /\ UNCHANGED dir
  /\ UNCHANGED <<server, memory, file, tables>>

(* Mutant: WriteData goes on although there is no directory. *)
OpenFileAnyway(c) ==
  /\ At(c, "open")
  /\ file' = [file EXCEPT ![req[c].key] = Empty]
  /\ Goes(c, "write")
  /\ UNCHANGED <<server, memory, dir, tables, history>>

(* A configuration that WriteData cannot encode. *)
Refused(c) == req[c].val \in NoMarshal

(* WriteData encodes the configuration and opens the file, which empties it. A *)
(* configuration it cannot encode, or no directory, ends the process.          *)
OpenFile(c) ==
  LET k == req[c].key IN
  /\ At(c, "open")
  /\ IF k \in dir /\ ~Refused(c)
     THEN /\ file' = [file EXCEPT ![k] = Empty]
          /\ Goes(c, "write")
          /\ UNCHANGED server
     ELSE server' = "fatal" /\ UNCHANGED <<file, req>>
  /\ UNCHANGED <<memory, dir, tables, history>>

(* file.Write; it may fail with nothing or a part written. *)
WriteFile(c) ==
  LET k == req[c].key IN
  /\ At(c, "write")
  /\ \/ /\ file' = [file EXCEPT ![k] = req[c].val]
        /\ IF req[c].op = "create" THEN Goes(c, "view") /\ UNCHANGED history
           ELSE Succeeds(c)
     \/ /\ file' \in {file, [file EXCEPT ![k] = Torn]}
        /\ Fails(c)
  /\ UNCHANGED <<server, memory, dir, tables>>

(* InsertJobViewRecord; a row that is there already is an error, and so is     *)
(* whatever else the database objects to.                                      *)
InsertView(c) ==
  /\ At(c, "view")
  /\ \/ /\ req[c].key \notin rows
        /\ rows' = rows \cup {req[c].key}
        /\ Succeeds(c)
     \/ Ends(c) /\ UNCHANGED <<rows, history>>
  /\ UNCHANGED <<server, memory, disk, records>>

-----------------------------------------------------------------------------
(* readJob of a job that exists; otherwise the answer is "not found". *)
Answer(c, v) ==
  /\ Ends(c)
  /\ answer' = v
  /\ UNCHANGED <<sure, failed, strayed>>

ReadJob(c, j) ==
  /\ JobExists(j)
  /\ Arrives(c, "read", j, "get", None)
  /\ UNCHANGED <<server, memory, disk, tables, history>>

ReadNotFound(c, j) ==
  /\ ~JobExists(j)
  /\ req[c] = Idle
  /\ \A d \in Clients : req[d].key = j => req[d].op \in Readers
  /\ answer' = None
  /\ UNCHANGED <<server, memory, disk, tables, req, sure, failed, strayed>>

(* d.JobCache.Get *)
GetCached(c) ==
  LET v == cache[req[c].key] IN
  /\ At(c, "get")
  /\ IF v # None THEN Answer(c, v) ELSE Goes(c, "load") /\ UNCHANGED history
  /\ UNCHANGED <<server, memory, disk, tables>>

(* ReadData; an empty file is a configuration, what is left of one need not be. *)
LoadFile(c) ==
  LET k == req[c].key IN
  /\ At(c, "load")
  /\ IF file[k] = None
     THEN Answer(c, None) /\ UNCHANGED server
     ELSE /\ \/ /\ req' = [req EXCEPT ![c].pc = "fill", ![c].val = file[k]]
                /\ UNCHANGED server
             \/ /\ file[k] = Torn
                /\ server' = "fatal"
                /\ UNCHANGED req
          /\ UNCHANGED history
  /\ UNCHANGED <<memory, disk, tables>>

FillCache(c) ==
  /\ At(c, "fill")
  /\ cache' = [cache EXCEPT ![req[c].key] = req[c].val]
  /\ IF req[c].op = "read" THEN Answer(c, req[c].val)
     ELSE Goes(c, "run") /\ UNCHANGED history
  /\ UNCHANGED <<server, seqNo, disk, tables>>

(* execJob: the configuration is loaded when it is not in the cache. *)
ExecJob(c, j) ==
  /\ LET load == cache[j] = None /\ file[j] # None
     IN Arrives(c, "exec", j, IF load THEN "load" ELSE "run", None)
  /\ UNCHANGED <<server, memory, disk, tables, history>>

(* The execution gets its number and its record, unless there is no such job.  *)
(* A number that has a record already ends the process.                        *)
NumberExecution(c) ==
  LET k == req[c].key
      n == seqNo[k] + 1
  IN /\ At(c, "run")
     /\ n <= MaxSeq
     /\ IF ~JobExists(k) THEN Ends(c) /\ UNCHANGED <<server, seqNo, records, strayed>>
        ELSE /\ seqNo' = [seqNo EXCEPT ![k] = n]
             /\ strayed' = (strayed \/ file[k] = None)
             /\ IF n \in records[k] THEN server' = "fatal" /\ UNCHANGED <<records, req>>
                ELSE /\ records' = [records EXCEPT ![k] = @ \cup {n}]
                     /\ Ends(c)
                     /\ UNCHANGED server
     /\ UNCHANGED <<cache, disk, rows, answer, sure, failed>>

-----------------------------------------------------------------------------
(* delJob; it does not ask whether the job exists. *)
DelJob(c, j) ==
  /\ Arrives(c, "delete", j, "records", None)
  /\ UNCHANGED <<server, memory, disk, tables, history>>

DeleteRecords(c) ==
  /\ At(c, "records")
  /\ records' = [records EXCEPT ![req[c].key] = {}]
  /\ sure' = sure \ {req[c].key}
  /\ Goes(c, "row")
  /\ UNCHANGED <<server, memory, disk, rows, answer, failed, strayed>>

(* Mutant: the row of jobView stays. *)
KeepView(c) ==
  /\ At(c, "row")
  /\ Goes(c, "files")
  /\ UNCHANGED <<server, memory, disk, tables, history>>

(* DelJobViewRecord; an error of the database ends the request. *)
DeleteView(c) ==
  /\ At(c, "row")
  /\ \/ rows' = rows \ {req[c].key} /\ Goes(c, "files")
     \/ Ends(c) /\ UNCHANGED rows
  /\ UNCHANGED <<server, memory, disk, records, history>>

(* os.RemoveAll of the hidden directory, and of the one executions work in. *)
RemoveFiles(c) ==
  LET k == req[c].key IN
  /\ At(c, "files")
  /\ \/ /\ file' = [file EXCEPT ![k] = None]
        /\ dir' = dir \ {k}
        /\ \/ Goes(c, "remove") /\ UNCHANGED history
           \/ Fails(c)
     \/ /\ file' \in {file, [file EXCEPT ![k] = None]}
        /\ UNCHANGED dir
        /\ Fails(c)
  /\ UNCHANGED <<server, memory, tables>>

(* Mutant: the cache keeps the configuration. *)
KeepCached(c) ==
  /\ At(c, "remove")
  /\ seqNo' = [seqNo EXCEPT ![req[c].key] = 0]
  /\ Succeeds(c)
  /\ UNCHANGED <<server, cache, disk, tables>>

(* d.JobCache.Remove and delete(d.SeqNo, key) *)
RemoveCached(c) ==
  LET k == req[c].key IN
  /\ At(c, "remove")
  /\ cache' = [cache EXCEPT ![k] = None]
  /\ seqNo' = [seqNo EXCEPT ![k] = 0]
  /\ Succeeds(c)
  /\ UNCHANGED <<server, disk, tables>>

-----------------------------------------------------------------------------
(* Another job takes its place in the cache. *)
Evict(k) ==
  /\ cache[k] # None
  /\ cache' = [cache EXCEPT ![k] = None]
  /\ UNCHANGED <<server, seqNo, disk, tables, req, history>>

(* The process dies, and is started again (recoverSeqNo). *)
Restart ==
  /\ server' = "up"
  /\ cache' = [k \in Keys |-> None]
  /\ seqNo' = [k \in Keys |-> Max({0} \cup records[k])]
  /\ req' = [c \in Clients |-> Idle]
  /\ UNCHANGED <<disk, tables, history>>

Creating(c) == Add(c) \/ ResetSeqNo(c) \/ MakeDirs(c) \/ OpenFile(c) \/ WriteFile(c) \/ InsertView(c)
Reading(c)  == GetCached(c) \/ LoadFile(c) \/ FillCache(c) \/ NumberExecution(c)
Deleting(c) == DeleteRecords(c) \/ DeleteView(c) \/ RemoveFiles(c) \/ RemoveCached(c)

Request(c, j) ==
  \/ \E v \in Configs : CreateJob(c, j, v) \/ UpdateJob(c, j, v)
  \/ ReadJob(c, j) \/ ReadNotFound(c, j) \/ ExecJob(c, j) \/ DelJob(c, j)

Next ==
  \/ /\ server = "up"
     /\ \/ \E c \in Clients, j \in Jobs : Request(c, j)
        \/ \E c \in Clients : Creating(c) \/ Reading(c) \/ Deleting(c)
        \/ \E k \in Keys : Evict(k)
  \/ Restart

Spec == Init /\ [][Next]_vars

-----------------------------------------------------------------------------
Stored == Configs \cup {None, Empty, Torn}

ReqState ==
  [op : {"none", "create", "update", "insert", "read", "exec", "delete"},
   pc : {"idle", "add", "number", "mkdir", "open", "write", "view", "get", "load", "fill", "run",
         "records", "row", "files", "remove"},
   job : Jobs \cup {None}, key : Keys \cup {None}, val : Stored]

(* Type invariant. A file is never without its directory, as WriteData needs.  *)
TypeOK ==
  /\ server \in {"up", "fatal"}
  /\ cache \in [Keys -> Stored]
  /\ seqNo \in [Keys -> 0 .. MaxSeq]
  /\ dir \subseteq Keys
  /\ file \in [Keys -> Stored]
  /\ rows \subseteq Jobs
  /\ records \in [Keys -> SUBSET (1 .. MaxSeq)]
  /\ req \in [Clients -> ReqState]
  /\ answer \in Stored
  /\ sure \subseteq Keys
  /\ failed \in BOOLEAN
  /\ strayed \in BOOLEAN
  /\ \A k \in Keys : file[k] # None => k \in dir

(* The list of jobs agrees with the files: unless a change is under way or     *)
(* failed, a job has a row in jobView exactly if it has a configuration file   *)
(* (createJob, delJob, whatever was evicted and however often the server       *)
(* died).                                                                      *)
ListedAreStored ==
  \A j \in Jobs \cap sure : j \in rows <=> file[j] # None

(* Three things lead to log.Fatal (WriteData, ReadData,                        *)
(* InsertExecutionRecord): the disk failed; a configuration cannot be encoded; *)
(* or some job was executed that had no configuration file, because createJob  *)
(* caches a job first and may then give up. Otherwise no sequence of requests, *)
(* evictions and restarts does: a number that createJob starts anew has no     *)
(* record, there is a directory for the file that is opened, and what is read  *)
(* can be parsed.                                                              *)
FatalOnlyAfterFailure ==
  server = "fatal" => failed \/ strayed \/ \E c \in Clients : At(c, "open") /\ Refused(c)

(* An update of a job that is answered with success changes the configuration  *)
(* of that job (updateJob; its route documents a parameter for the namespace). *)
UpdateReachesJob ==
  [][\A c \in Clients :
       /\ req[c].op \in {"update", "insert"} /\ JobExists(req[c].job)
       /\ At(c, "write") /\ req[c].key \in sure' \ sure
       => file'[req[c].job] = req[c].val]_vars

-----------------------------------------------------------------------------
Only(S) == CHOOSE x \in S : TRUE

(* What is known about k, and what a change of k that is under way makes of it. *)
Known(k) == IF k \in sure THEN file[k] ELSE Unknown

Changing(k) == {c \in Clients : req[c].key = k /\ req[c].op \notin Readers /\ k \notin sure}

Coming(k) ==
  IF Changing(k) = {} THEN Unknown ELSE Only({req[c] : c \in Changing(k)}).val

Store == INSTANCE ConfigStore
           WITH Blank <- {Empty, Torn},
                value <- [k \in Keys |-> Known(k)],
                change <- [k \in Keys |-> Coming(k)]

(* Cache, file and restarts together are a store of configurations: what was   *)
(* answered with success stays, and readJob answers it, whether the cache has  *)
(* it or not (createJob, updateJob, readJob, execJob, delJob).                 *)
ImplementsConfigStore == Store!Spec
=============================================================================
