# She-Ra in TLA+

She-Ra is a small build server written in Go: a client creates jobs (a *job
configuration* says which repository to check out and which build tools to run),
asks for executions of them, kills them, reads their output and deletes them.
This directory holds TLA+ models of the parts of that server in which something
can go wrong that a test would hardly reach, the TLC configurations that check
the models, and theorems about them checked by TLAPS. The repository has no
tests; the code itself is the reference, and every definition of the models is
tied to its lines in `PROJECT.json` (`map`).

Paths below are relative to `src/`.

## 1. Inventory

| component | code | state | operations | module |
|---|---|---|---|---|
| execution engine | `api/jobs/handlers.go` 363-424, 426-731, 765-1003; `utils/utils.go` 316-372 | `ExecChan`, `KillExecChan`, `WaitExec`, `SeqNo`, `accessLock`, tables `job` and `jobView`, one goroutine per execution and per kill request | `execJob`, `runJobExecution`, `ExecAsync`, `killJobExecution`, `delJobExecution`, `recoverSeqNo` | `JobExec` |
| job cache | `lru/arc.go`, `lru/simplelru/lru.go` | the four lists `t1`, `t2`, `b1`, `b2` and the target `p` | `Add`, `Get`, `Peek`, `Contains`, `Remove`, `Purge`, `Len` | `ARCCache` |
| job deletion | `handlers.go` 298-361 | the maps of the engine, files, tables | `delJob` | `JobDelete` |
| job configurations | `handlers.go` 108-268, 298-382, `utils.go` 164-188, 407-463 | cache, configuration file, directory, `SeqNo`, `jobView`, `job` | `createJob`, `updateJob`, `readJob`, `delJob`, the start of `execJob`; `readAllJobs` only reads | `JobStore` |
| log streaming | `handlers.go` 1029-1127, `utils.go` 493-697 | a web socket, an output file, a file watcher, the offset of a reader | `Log`, `WatchFile` and its goroutine, `ReadFile`, `ReadFileToEnd` | `LogStream` |
| build plan | `handlers.go` 440-704 | four counters, the working directory of the process | the stages and commands `runJobExecution` derives from a configuration | `BuildPlan` |
| JDK table | `utils.go` 254-296 | table `jdk` | one SQL statement each | `BuildPlan` |
| routing and startup | `main.go`, `api/jobs/service.go` | none | `main`, `Register` | |
| response helpers, messages | `api/response/*`, `configdata/*` | none | formatting, generated code | |

**How they interact.** Handlers run concurrently, one goroutine per HTTP request.
`execJob` takes `accessLock`, numbers the execution, inserts its record, adds to
the job's wait group, makes the job's `ExecChan` if there is none, and starts the
goroutine `runJobExecution`. That goroutine sends a token to `ExecChan`, a channel
with one place, which is how executions of one job are kept apart. It reads the
configuration from the job cache, and calls `ExecAsync` for every command; `ExecAsync`
selects between kill requests, a timer of 600 seconds and the end of the
command. At the label `COMMON_HANDLING` it takes `accessLock`, receives the token back
and calls `Done` on the wait group. `killJobExecution` marks the record and starts
a goroutine that sends the number of the execution to `KillExecChan`. `delJob` waits
for the wait group and destroys all of this. Only the database and the files
survive a restart; `NewJobManager` rebuilds `SeqNo` from the highest recorded
number of every job.

**What is hard, and what makes each part correct.**

* *Engine*: channels made by one goroutine, looked up by a second, drained by a
  third; a receive under a lock; kill requests that come early, late, or twice; restarts
  and deletions against numbering; one integer that is an execution number, a kill
  code and a return code. Correct means: executions of a job never overlap; the
  wait group counts them; nobody waits for ever with the lock; what was killed stays
  dead and only what was asked for is killed; numbers are never reused; everything
  that was started ends; records agree with what runs.
* *Cache*: a key wanders between four lists, and `p` moves between the test for
  room and the eviction. Correct means: list and map of every LRU agree, no key in two
  lists, no more entries than the cache was made for, no old value ever comes back.
* *Deletion*: a wait group that is waited on without the lock, a kill channel that may
  be nil or in use when it is closed, goroutines that hold channels the maps no longer
  have.
* *Configurations*: the cache is changed before files and database are, each of these steps
  may fail or be the last before the server dies, and numbering depends on records that
  outlive the configuration. Correct means: what was answered with success stays and is what is
  read; the list of jobs agrees with the files; the process ends for known reasons only: a failing disk, a configuration
  that cannot be encoded, or the execution of a job that a creation left behind without its file.
* *Log streaming*: a reader and a writer that must both stop when either side goes
  away; lines that arrive between the first read and the start of the watcher; events that
  coincide. Correct means: the client gets everything, in particular before the end of the
  execution closes the connection, and no goroutine is left behind.
* *Build plan*: three counters that index three lists while a fourth list says which is
  next; the working directory of the whole process. Correct means: the commands asked for are run
  in order, each in its directory.

`PROJECT.json` lists each such hazard at its line with the properties that cover it.

## 2. Plan

The modules, most important first; all of them are written.

1. **Engine.** `JobExec`, with `SerialJobs` as its abstract specification
   (`JobExecRefinement`), `JobExecHistory` for what needs memory of requests, and
   `JobExecProofs` and `JobExecRecordProofs` (records, numbers, outcomes, the refinement, lock and wait groups, waits, kills
   and progress).
2. **Cache.** `SimpleLRU` (operators), `ARCCache`, `LossyCache` as its
   abstract specification (`ARCRefinement`), `ARCProofs` (lists and bounds) and `ARCValueProofs` (values and the refinement).
3. **Deletion.** `JobDelete` extends `JobExec` with the steps of `delJob`, channels
   that are closed and map entries that are deleted while goroutines still hold
   what was in them; `JobDeleteRefinement` relates it to `SerialJobs`; `JobDeleteProofs`.
4. **Configurations.** `JobStore` with `ConfigStore` as its abstract specification,
   and `JobStoreProofs`.
5. **Log streaming.** `LogStream` and `LogStreamProofs`.
6. **Build plan and JDK table.** `BuildPlan` and `BuildPlanProofs`.

`MCJobDelete`, `MCARCCache`, `MCJobStore` and `MCBuildPlan` only hold what TLC needs: symmetries
and the configurations of a small instance.

What is left: a history of requests for `JobDelete`, to say that a kill request dies with the
job it was made for (today it does not, see section 10); configurations whose clients do not wait for each
other, for the promises that are left to them.

## 3. The execution engine

`JobExec.tla` has one action per stretch of code between two accesses to state
other goroutines see. What the variables stand for:

| variable | code |
|---|---|
| `accessLock` | `JobManager.accessLock`, with its holder |
| `cached` | the jobs in `JobCache` (what the cache does inside is `ARCCache`) |
| `seqNo`, `execChan`, `killChan`, `waitExec` | the maps `SeqNo`, `ExecChan`, `KillExecChan`, `WaitExec` |
| `execChans`, `killChans`, `waitGroups` | the channels and wait groups these maps refer to. A map entry is an index, 0 is a missing entry, that is a nil channel. A goroutine that looked a channel up keeps its index: what happens when the map changes afterwards is in the model |
| `job`, `jobView` | the rows of the two tables, columns `finished`, `status`, `cancelled` and `status` |
| `exec`, `kill` | the goroutines: a program counter, the job and number they work for, commands left, the return code of `ExecAsync`, the channel they hold |
| `server` | `"fatal"` after `log.Fatalf` |

| action | code |
|---|---|
| `ExecCheck`, `ExecStart` | `execJob` before and under the lock; `InsertExecutionRecord` ends the process on a clash |
| `LookupExecChan`, `Acquire` | the send to `ExecChan`: the map is read first, the send waits on that channel |
| `Begin` | the cache and the cancelled flag are read; the commands are chosen (`Plans`) |
| `SilentFailure` | every `goto COMMON_HANDLING` that writes no record |
| `StartCommand`, `StartFails`, `RecvKill`, `CommandTimesOut`, `CommandFails`, `CommandSucceeds`, `ReturnFromCommand` | `ExecAsync` |
| `Succeed`, `SucceedView` | the end of `runJobExecution` |
| `CommonLock`, `Release` | `COMMON_HANDLING` |
| `KillRequest`, `KillCheck`, `KillMake`, `KillLookup`, `KillSend` | `killJobExecution` and its goroutine, which takes no lock |
| `DelJobExecution` | `delJobExecution` |
| `Evict` | any other use of the cache that evicts the job |
| `Restart` | the process dies at any point and is started again |

What a command prints and which command it is are abstracted; how many commands a
configuration asks for is `Plans`. Wait groups and channel capacities are modelled,
not assumed.

`SerialJobs.tla` is the promise: executions are submitted with fresh numbers,
start one at a time per job, finish, and are forgotten by a crash. `JobExecRefinement` maps an
execution to *pending* from `execJob` until its send to `ExecChan` and to *running* until
its receive. `JobExecHistory` adds the set of kill requests clients made.

### Runs

| run | constants | shows |
|---|---|---|
| `killed` | one job, two executions, a killer, numbers 2 and 3, no command or two, kills of 2, with history and fairness | `TypeOK`; `WaitGroupCountsRuns`: the wait group counts the executions that were started and have not ended; `LockHolderNeverWaits`: who holds `accessLock` finds the token it receives; `ImplementsSerialJobs`: executions of the job never overlap and have numbers of their own; `DoneMeansStopped`: whatever is killed, timed out or failed runs no further command; `KilledWasAsked`: only what a client named is killed; `NeverFatal`: no order of deletions, restarts and executions makes a number clash; `SelectListens`: a select that listens to a kill channel listens to the one in the map; `WaitsAreForSomebody`: an execution that waits for its turn waits for a live one that has the place, and no kill goroutine sends to the nil channel; `OutcomeIsFinal`: what was recorded of an execution that is done stays; `RunsAdvance`: every step of an execution but one brings it nearer to its end; `EveryRunEnds` |
| `first` | smallest instance that shows it | a disagreement of section 10 |

*Bounds.* Numbers start at `FirstSeq` + 1. Run `killed` starts at 2: execution 1 has
a defect of its own (run `first`), it does not ask to kill number 886, which is the code `EXEC_KILL_ALL`, and a job that has had one execution
is a state like any other. Executions of different jobs share `accessLock`, the
tables and nothing else, and each entry of the maps is read and written for one job
only; so one job with two goroutines has the contention for the lock that two
jobs have. Two executions are one inside the channel and one that waits to
send or comes from `execJob`; a third, waiting behind the second, is covered by the theorems (section 9), which
have any number of goroutines for each of these properties but `SelectListens` and `EveryRunEnds`. Two kill requests can be under way
one after the other with one killer, because the first may be left in the
channel. A goroutine of the pool is reused, so the pool does not bound the number of
executions; `MaxSeq` does.

*Fairness* (`HFairSpec`). Weak fairness for each goroutine of `runJobExecution` and of
`killJobExecution` while the server is up: Go's scheduler runs every goroutine that can run.
The timer of `ExecAsync` is part of `Progress`. That a command
ends by itself is *not* assumed, nor that clients do anything. `EveryRunEnds` has a
premise: clients stop sending kill requests at some time. Without it the property is false, since every
request that is received and dropped makes a new timer of 600 seconds.
A send to `ExecChan` needs no strong fairness in these bounds: with two executions
there is only one that waits.

Go maps that two goroutines write at the same time without a lock, as `KillExecChan` may be,
can end the process; in the models that is one more reason for `Restart`, which may
happen at any point. So are errors of the database and of pipes that the code answers with `log.Fatal`
(`utils.go` 316-372, `handlers.go` 836-838): `server` is `"fatal"` only where a number or a record is at fault.

## 4. Deletion of a job

`JobDelete.tla` extends `JobExec`: its steps are those of `JobExec`, guarded by what deletion changes
(`Request`, `RunStep`, `KillStep`, `OtherStep`), and those of `delJob`. New variables: `files`
(configuration files), `closed` (the channels that are closed), `del` (goroutines in `delJob`) and
`drain` (the goroutines `delJob` starts to receive from `KillExecChan`). The goroutine that sends
`EXEC_KILL_ALL` does what the goroutine of `killJobExecution` does, and is one of `kill`.

| action | code |
|---|---|
| `CreateJob` | `createJob`, one step; it may give up with the job in the cache, with or without the configuration file |
| `DelJob` | `SetAllCancelled` and the kill goroutine |
| `DelCheck`, `DelLookup`, `DelWait` | the wait group is tested, read again, and waited on, without a lock |
| `DelRecords`, `DelFiles`, `DelFails` | records, view and directories, and the early returns |
| `DelRemove`, `DrainLookup`, `DrainRecv` | the second goroutine, and the removal from the cache |
| `DelClose` | everything under `accessLock`: closing a nil channel panics, and the request ends with the lock held |
| `Panic` | a goroutine that sends to a closed channel, or calls `Done` on a wait group that counts nobody, ends the process |
| `RecvClosed` | the select of `ExecAsync` on a closed channel |

`Concurrent` says whether clients send requests for a job while they wait for its
deletion. What is promised to clients that wait is checked with `Concurrent = FALSE`; goroutines of earlier
requests, executions, evictions and restarts interleave with the deletion all the same.
`JobDeleteRefinement` maps executions to `SerialJobs` as `JobExecRefinement` does. Its variable `strayed` remembers whether
an execution was ever asked for of a job that has no configuration file. A creation that gives up early, or a deletion that gives up late, leaves such
a job in the cache; once it is executed, evicted and made anew its numbers may clash (section 10), so from then on `SerialJobsAnew` and
`FatalOnlyByPanic` promise nothing; the other properties hold all the same.

| run | constants | shows |
|---|---|---|
| `delete` | one job, two goroutines for executions, one killer, one deletion at a time, kills of 886, not concurrent, `Unmade` = the job, no `Stray` | `DTypeOK`; `SerialExecution`, across a deletion and a job created anew under the same name; `DeleteWaitsForRuns`: nothing runs when records, files and channels go; `ExecutionsNeverPanic`: none sends to a closed channel or calls `Done` on a group that counts nobody; `WaitersHaveOwners`: a deletion or an execution that waits, waits for an execution of the job that is alive; `SerialJobsAnew`: the engine with deletions implements `SerialJobs`, although a job made anew counts from 0; `FatalOnlyByPanic`: no number of it clashes with a record of its earlier life; `DeletionEnds`, under fair scheduling |
| `delete_any` | one execution, one killer, two deletions at a time, concurrent, with `Stray` | `NeverClosedTwice`: the maps hold no closed channel, so no channel is closed twice |
| `delete_panic` | one execution | a disagreement of section 10 |

*Bounds.* In run `delete` a deletion starts while fewer than `MaxClosed` = 2 kill channels of the job are closed:
two deletions to their end in each life of the server, and any number that give up half-way.
`Unmade` and `Stray` bound what happens to jobs without a configuration file: the creations that may leave one, and
whether clients execute it. Run `delete` has the first and not the second, which would triple its states and in which the two
properties with `strayed` promise nothing; runs `delete_any` and `delete_panic` have the second. The theorems hold for every value of both.
Sequence numbers stop at 1, so a second execution exists only after the job was deleted and created
anew: that is the case in which two executions could share a number, channels and a directory.
Clients ask to kill 886, which kills whatever runs (section 10), so the kill goroutines of clients and of deletions send the same; kills by number are the
business of run `killed`.
In `delete_any` two requests delete the job at once, each at any of its steps while the other is at any of its own; they are
interchangeable (`MCJobDelete`). Both may go to their end, since both may start before a channel is closed.
Several executions of one job at a time are the business of `JobExec`; the theorems (section 9) have no bounds.

*Fairness* (`DFairness`) is that of `JobExec`, with the goroutines of `delJob`. `DeletionEnds` excepts two endings the code really
has: the server died, or an earlier deletion died with `accessLock` (`close` of a nil channel). That no
request for the job restarts the timer of a command is part of `Concurrent = FALSE`.

*Coarser than the code.* `createJob` is one step here and many in `JobStore`. `DelClose` is everything `delJob` does under
`accessLock`, although kill goroutines read `KillExecChan` without it: one that looks between the close of the
channel and the removal of its entry finds the channel it would have found just before; one that makes a channel there loses it
at once, and in the model finds it closed.

## 5. The job cache

`SimpleLRU.tla` gives `lru/simplelru/lru.go` as operators on a record of a list and
a map: the code keeps the same keys in both, and the type invariant checks it. The front of
the list is the entry used last. `ARCCache.tla` has one action per operation of
`lru/arc.go`, each under the cache's lock from its first line to its last, so an operation is one
step. `Add` is its four cases: `AddCached`, `AddFromB1`, `AddFromB2`, `AddNew`. `call`
records the last operation and what it returned.

`LossyCache.tla` is what callers may rely on: `Get` returns the value added last or nothing;
`Get` may forget one other entry (a hit moves an entry to `t2`, which may be full and evict),
`Add` may forget two (run `AddNew` with both `replace` and a trim of `t1`); neither forgets the entry it
is about. Both bounds were found to be tight: with one fewer TLC finds a counterexample.

| run | constants | shows |
|---|---|---|
| `cache` | six keys, two values, size 3 | `TypeOK` (lists and maps agree, `p` within the size), `OneListPerKey`, `EvictsOnlyWhenFull`, `ImplementsLossyCache` |
| `cache_size` | the same | a disagreement of section 10 |

*Bounds.* Size 3 lets `t1` and `t2` both be non-empty and full with one entry to choose,
and with six keys every list, ghosts included, can be full while a new key arrives. Keys and
values are interchangeable (the code only compares keys), hence the symmetry. The server makes a cache of
100 entries. There are no deadlocks and no liveness: every operation ends.

## 6. Job configurations

`JobStore.tla` takes `createJob`, `updateJob`, `readJob`, `delJob` and the part of `execJob` that
loads the configuration and numbers the execution, step by step. A step is one access to what the
requests share, and after each of them the server may die (`Restart`); those that write to the disk may fail,
also with a part written, and the database may refuse a row. `NoImage` are the configurations without an `ImgManager`, at which `createJob` panics after it
made the directories (`handlers.go` 174); `NoMarshal` are those `proto.Marshal` refuses, which `WriteData` answers with `log.Fatal`. Other errors of
the database that end the process are such a `Restart`.

| variable | code |
|---|---|
| `cache` | `JobCache`, with `Evict` for whatever the ARC does with other jobs |
| `seqNo`, `records` | the map `SeqNo`, the numbers in table `job` |
| `dir`, `file` | the hidden directory of a job and its configuration file: a configuration, `Empty` (the file was opened), `Torn` (written in part), or `None` |
| `rows` | table `jobView` |
| `req` | the requests under way: operation, program counter, job, key, configuration |
| `server` | `"fatal"` after `log.Fatal` |
| `answer`, `sure`, `failed`, `strayed` | histories: what `readJob` answered last; the keys whose last change was answered with success; whether the disk ever failed; whether a job without configuration file was executed |

| action | code |
|---|---|
| `CreateJob`, `UpdateJob`, `ReadJob`, `ReadNotFound`, `ExecJob`, `DelJob` | the request arrives, and the handler asks whether the job exists (`JobExists`: in the cache, or a file) |
| `Add`, `ResetSeqNo`, `MakeDirs`, `OpenFile`, `WriteFile`, `InsertView` | `createJob` and `updateJob`: cache first, then number, directory, `WriteData` (which empties the file and then writes), `jobView` |
| `GetCached`, `LoadFile`, `FillCache` | `readJob`, `execJob`, `ReadData` |
| `NumberExecution` | `execJob` under the lock |
| `DeleteRecords`, `DeleteView`, `RemoveFiles`, `RemoveCached` | `delJob`: records, row, directories, cache and number |

An update of a job that does not exist makes it, without a row in `jobView` (operation `"insert"`). The route
of `updateJob` has no segment for the namespace, so `KeyOf` sends every update to the empty
namespace (run `store_update`).

*Clients wait.* A request that changes a job does not arrive while another of the same job is under way, and none
arrives while it is. Without this assumption the promises do not hold: two creations of a job may both
pass `jobExists`, and a `readJob` may put the empty file of a creation, or the file of a
deletion, into the cache afterwards. Two requests for one job may still be both readers, and requests for
different jobs interleave as they like.

`ConfigStore.tla` is the promise: per key a value and perhaps a change that is under way; a change that
is answered with success is the value from then on; nothing is promised during a change or after one
that failed or died; a read answers the value. `ImplementsConfigStore` maps the value to the file where the key
is `sure`, and to `Unknown` otherwise: what the cache has must be shown to agree.

| run | constants | shows |
|---|---|---|
| `store` | one namespace and the empty one, one name, three configurations, two requests at a time, numbers up to 2 | `TypeOK` (no file without directory), `ListedAreStored`, `FatalOnlyAfterFailure`: `log.Fatal` needs a disk that failed, a configuration that cannot be encoded, or an execution of a job without its file; `ImplementsConfigStore` |
| `store_update` | the same, one request | a disagreement of section 10 |

*Bounds.* A key takes part in a request only as the key of that request, so two keys with two requests show every
interleaving of two; two configurations tell an old one from a new one, and the third is one without an `ImgManager`
that cannot be encoded: a creation panics on it, an update ends the process. States that differ only in the last answer, which no step reads,
are one (`View` of `MCJobStore`; what is answered is a matter of the step that answers). Two numbers are enough for a record
that outlives its job and is met by a number that starts anew. That all of this holds for every instance is proved
(section 9).

## 7. Log streaming

`LogStream.tla` is one execution that writes its output file, one client, the handler `Log`, `WatchFile` with
its goroutine, and the queue of the file watcher. A position of the file stands for a piece of
output, and `got` is the set of positions the client was sent.

| variable | code |
|---|---|
| `record`, `there`, `len`, `todo`, `running` | the record of the execution, its output file, and what it still does at its end: six orders of last line, record and change of the mode (`Endings`) |
| `events` | the queue of `fsnotify`: equal events may coincide, a file that is gone has none |
| `client`, `ws` | both ends of the web socket |
| `log`, `watch`, `inner` | where the handler, `WatchFile` and its goroutine are; their unbuffered channels are joint steps (`Start`, `OnEnd`) |
| `nLen` | the offset of the goroutine |

The change of the mode (`os.Chmod`) is how an execution tells watchers that it is over.

| run | constants | shows |
|---|---|---|
| `log` | buffer of 2 pieces, lines of 1 and 3, a file of up to 6 and one line | `TypeOK`, `NothingSkipped`: what lies before the offset was sent; `CompleteAfterChmod`: a client that stays until the mode changes has everything; `PartnersMeet`: who waits at an unbuffered channel waits for a goroutine that comes to it; `NothingLeftBehind`, `EndsWithExecution`, under fair scheduling |

*Bounds.* Lines shorter and longer than the buffer, and enough of them for the reader to lag by more than one
buffer with several events in the queue. One client: handlers of several clients share nothing but the file.

*Fairness.* Each goroutine that can run runs, and a select whose case stays ready takes it; an execution
that has ended does its last steps. Neither client nor commands have to do anything. The system may stop
(an execution without end, a client that neither leaves nor asks), hence `CHECK_DEADLOCK FALSE`.

`NothingLeftBehind` excepts what the code gets wrong when the execution ends the watch first: `Log` then sends to a
channel nobody receives from, or its loop goes round on an error other than EOF (section 10).

## 8. Build plan and JDK table

`BuildPlan.tla` is the body of `runJobExecution` between its token and `COMMON_HANDLING`: the stages git, build
and image, the three commands of the first and of the last, the loop over `SeqNo` with its counters `i`, `j`, `k`, `os.Chdir` at the start of each
stage, and the table of JDKs that a build command may need (`createJdk`, `deleteJdk`). What a command does is to succeed or
to fail. `Plan` is the reference: the n-th command of a kind is the n-th entry of its list.

| run | constants | shows |
|---|---|---|
| `build` | two executions of different jobs, the nine configurations of `MCConfigs` each | `TypeOK` (no counter beyond its list), `PlanFollowed`, `PanicOnlyIfShort`, `DirectoryUnlessDisturbed` |
| `build_dir` | the same | a disagreement of section 10 |

*Bounds.* `MCConfigs` has, for each branch of the code, a configuration that takes it: no stage, each stage and pairs of
them, kinds that interleave, a list that is too short, an empty command, an entry that is nil, a number that is no kind, a JDK, an empty
`SeqNo`. Executions end, hence `CHECK_DEADLOCK FALSE`.

## 9. What is proved

For all values of the constants, from the `ASSUME`s of the modules: bounds are naturals, kill
arguments integers, `None` and the other markers are none of the values they are told apart from, goroutines of `delJob` are none of those of `runJobExecution` (either may hold `accessLock`), the size of the
cache and of the buffer of `ReadFile` are positive, configurations have the fields of the protobuf message.

| theorem | module | statement |
|---|---|---|
| `TypeCorrect` | `JobExecProofs` | `Spec => []TypeOK` |
| `Serial` | `JobExecProofs` | `Spec => []SerialExecution` |
| `NoFatalEnd` | `JobExecRecordProofs` | `Spec => []NeverFatal` |
| `DoneStops` | `JobExecRecordProofs` | `Spec => [](FirstSeq > 0 => DoneMeansStopped)` |
| `SerialJobsIsImplemented` | `JobExecRecordProofs` | `Spec => ImplementsSerialJobs` |
| `GroupsCount` | `JobExecRecordProofs` | `Spec => []WaitGroupCountsRuns` |
| `LockIsGivenBack` | `JobExecRecordProofs` | `Spec => []LockHolderNeverWaits` |
| `NobodyWaitsInVain` | `JobExecRecordProofs` | `Spec => []WaitsAreForSomebody` |
| `RunsNeverGoBack` | `JobExecRecordProofs` | `Spec => RunsAdvance` |
| `OutcomesAreFinal` | `JobExecRecordProofs` | `Spec => OutcomeIsFinal`, if `FirstSeq > 0` |
| `OnlyAskedAreKilled` | `JobExecRecordProofs` | `HSpec => KilledWasAsked`, if `EXEC_KILL_ALL` is not asked for |
| `DeleteTypeCorrect` | `JobDeleteProofs` | `DSpec => []DTypeOK` |
| `ClosedOnce` | `JobDeleteProofs` | `DSpec => []NeverClosedTwice` |
| `DeletionWaits` | `JobDeleteProofs` | `DSpec => [](~Concurrent => DeleteWaitsForRuns)` |
| `SerialAcrossDeletions` | `JobDeleteProofs` | `DSpec => [](~Concurrent => SerialExecution)` |
| `OnlyKillsPanic` | `JobDeleteProofs` | `DSpec => [](~Concurrent => ExecutionsNeverPanic)` |
| `WaitersAreServed` | `JobDeleteProofs` | `DSpec => [](~Concurrent => WaitersHaveOwners)` |
| `NoClashAcrossDeletions` | `JobDeleteProofs` | `HDSpec => FatalOnlyByPanic` (it says `~strayed`), if `~Concurrent` and `FirstSeq = 0` |
| `SerialJobsSurviveDeletion` | `JobDeleteProofs` | `HDSpec => SerialJobsAnew` (until `strayed`), if `~Concurrent` and `FirstSeq = 0` |
| `CacheTypeCorrect` | `ARCProofs` | `Spec => []TypeOK` |
| `CacheDisjoint` | `ARCProofs` | `Spec => []OneListPerKey` |
| `CacheBounded` | `ARCProofs` | `Spec => []AtMostOneOver`, what is left of `NeverOverSize` |
| `LossyCacheIsImplemented` | `ARCValueProofs` | `Spec => ImplementsLossyCache` |
| `OnlyAFullCacheForgets` | `ARCValueProofs` | `Spec => EvictsOnlyWhenFull` |
| `StoreTypeCorrect` | `JobStoreProofs` | `Spec => []TypeOK` |
| `RowsAgreeWithFiles` | `JobStoreProofs` | `Spec => []ListedAreStored` |
| `NoFatalWithoutFailure` | `JobStoreProofs` | `Spec => []FatalOnlyAfterFailure` |
| `StoreIsImplemented` | `JobStoreProofs` | `Spec => ImplementsConfigStore` |
| `LogTypeCorrect` | `LogStreamProofs` | `Spec => []TypeOK` |
| `NoGaps` | `LogStreamProofs` | `Spec => []NothingSkipped` |
| `WholeOutput` | `LogStreamProofs` | `Spec => []CompleteAfterChmod` |
| `PartnersComeToMeet` | `LogStreamProofs` | `Spec => []PartnersMeet` |
| `PlanTypeCorrect` | `BuildPlanProofs` | `Spec => []TypeOK` |
| `PlanIsFollowed` | `BuildPlanProofs` | `Spec => []PlanFollowed` |
| `OnlyShortPanics` | `BuildPlanProofs` | `Spec => []PanicOnlyIfShort` |
| `UndisturbedDirectory` | `BuildPlanProofs` | `Spec => []DirectoryUnlessDisturbed` |

*Engine.* `TypeOK` alone is not inductive: that an index of a map refers to a channel that was made is
needed for the updates of the heap, and `IndexOK` says it. `SerialExecution` is
proved from `SlotOK`: every execution that looked `ExecChan` up has the channel that is in the map, and if one is
past its send this channel is full. `SerialExecution` is not inductive without the
last part: nothing else keeps a second execution from sending. `StateOK` is `TypeOK` without the lock, which
deletions may hold too; the lemmas about steps use it, so that they serve `JobDelete` as well.

*Records.* `RecordsOK` says that the counter of a job is above every recorded number and every number an execution
has, that no two executions of a job have one number, and that the record of an execution is there and not done
up to the places in `Opened`. From the first part `ExecStart` meets no record, also after a restart, which counts on from the greatest
record; the second keeps one execution from closing or losing the record of another; the third is why `GetCancelStatus`
finds its record. `Opened` reaches to the select only if no execution has the number 1 (`FirstSeq > 0`): run `first` shows
why, and the theorem `DoneStops` has that premise. `DelJobExecution` deletes only records that are done, so it cannot break the third.
The refinement uses the same invariant with `SlotOK`: `ExecStart` submits an execution with a number no live one has, `Acquire`
starts one while none runs because the channel was empty, `Release` finishes one, `Restart` forgets all of them, and
every other step is a stutter.
An outcome is final for the same reason: whoever writes one has its record open before (`Opened`, hence again
`FirstSeq > 0`: killed number 1 goes on and writes a second outcome), a request to kill writes another column, and a new
record takes a number at which there was none (`OutcomesKept`).

*Lock and wait groups.* `GroupsOK` says that the wait group in the map counts the executions of the job, of which there are finitely
many at any time, and that without a wait group there is none. `LockOK` says that accessLock is held over a step by whoever is at
the receive, and by nobody else. With `SlotOK` the holder finds a token in the channel, and with `GroupsOK` a counter
above zero.

*Waits and progress.* `TokenOwned` says that a channel with a token has an execution past its send, the converse of what `SlotOK` says of
its executions; without it a place could be lost by an execution that left, and the next one would wait for
ever. Each step of an execution that ends must give the place back for it to be preserved, failures and kills alike.
`KillsPosted` says that a kill goroutine that is past its look at the map finds a channel in it. `RunsAdvance` is a
measure: `Ahead` counts the steps before an execution has its place, `Left` those from there to its end, where a
command counts for three; `RunSteps` lists what each action does to the execution, and `Nearer` that each of these descends. With the timer of
`ExecAsync`, which no run may lack, it is why `EveryRunEnds` holds; the one exception it makes is the
premise of that property.

*Kills.* `AskedOK` says that every message in a kill channel, and every kill goroutine before its send, has a number a client asked
for (`Posted`), for the job whose channel it is; an execution is killed only by a message that matches its number, and the number of the
command is the number of the record (`Cause`). A request to kill 886 is read as `EXEC_KILL_ALL`, so the theorem assumes that no client sends it
(section 10).

*Deletion.* `IInv` of `JobDeleteProofs` has two parts. `AnyClients` holds whatever clients do: types, indexes, and
`NeverClosedTwice`. A step closes only channels the maps have, and takes them out of the maps; every other step leaves
an entry of a map as it is or makes a channel that was not there (`HeapGrows`), so that no closed channel comes back.
`Sound` holds where clients wait: it is `SlotOK`, `TokenOwned`, `GroupsOK` and `LockOK` of the engine, and `Alone`: a job has one
deletion at a time and no request of `execJob` past its look at the cache meanwhile, so that no execution is added to the group
`delJob` waits for; that group is the one in the map; and when it counts nobody there is no execution left (`GroupsOK`),
up to the step that closes the channels. So the invariants of the engine survive `DelClose`, which is the one step
that takes channel and group away: nobody has them. The steps of `JobExec` are not proved again: their lemmas apply, with
`Calm` for what they leave alone. `Concurrent = TRUE` breaks `Sound` (section 10), not `AnyClients`.
For the numbers `ClearedOK` is added: a job without a configuration file has no record, no request and no execution, nor has one whose
files `delJob` is about to remove; it may still be in the cache. So
`createJob`, which starts the counter anew, and `DelClose`, which drops it, do so where there is nothing to clash with
(`CountedAnew`), and `RecordsOK` of the engine holds as long as the server is up. A job that is made anew has an execution 1; `FirstSeq = 0`, a server that starts
with an empty database, leaves out the part of `RecordsOK` that needs that there is none. `ClearedOK` survives creations and deletions that give up anywhere; what
breaks it is an execution of the job one of them left in the cache (section 10), so `NumbersOK` has it only until then; the properties say `~strayed`, and no
more is lost.

*Cache.* `CacheOK` is `TypeOK`, `OneListPerKey` and `AtMostOneOver` together. Disjointness is
needed to count; the bound needs the argument that `replace` evicts nothing only when
`t2` is empty and `t1` is no longer than `p`, in which case the four lists leave at most one
entry too many, and that the next operation that adds evicts one.
For the values, every operation is taken apart into steps on one list, and each of them `Keeps` the keys and values outside
a small set of keys. `Leaves` puts them together: an operation leaves its key with its value and every other key with the
one it had, except for those it evicts, of which there are none unless the cache is full. That is a step of `LossyCache`
that forgets the evicted keys (`LeavesIsForgetting`).

*Configurations.* `IInv` of `JobStoreProofs` has three parts. `Facts` is what a request may rely on at each of its
steps (after `Add` the key is not `sure`; before the file is opened there is a directory; after the row is deleted it is
gone; what was loaded is what the file has). `Exclusive` is the assumption about clients, as an invariant; it is what
keeps the facts of one request true while others step. `KeyOK` relates cache, file, directory, row, number and records of a key:
in particular records imply a file and numbers not below them, unless the disk failed or a job without file was executed (`strayed`), which is why a creation that
starts the numbers anew meets no record; and, unless the disk failed, a cached configuration has its directory but while a request is at work
(`Busy`), which is why `updateJob` may trust the cache and go on to open the file. One lemma (`StepAt`) reduces every action to what it does at its
own key. The refinement follows: each step begins, completes or gives up one change, answers a read, or is a
stutter, and a restart gives up all of them.

*Log streaming.* `IInv` adds to the two invariants that no event and no step of the goroutine is the change of the
mode while anything is left to write (`Quiet`), that `todo` is the rest of one of the orders in which executions end (`TodoOK`), and that `Log` starts no
watch before it has sent what the file had, and keeps the connection open until then, as does a watch that goes on (`Handling`).
`Meetings` relates the three goroutines of a watch: each place at which one waits for another determines where the
other may be. The place that the property leaves out, `Log` after its watch was ended by a change of the mode, is the
one at which nobody comes (section 10).

*Build plan.* `Fits` says where an execution that ran n commands can be: the counter of a kind is the number of
positions before the present one that ask for the kind (`Seen`), which makes the index of the next command the number
`Earlier` of the reference, and makes a counter at the end of its list mean that the list is too short.

*Only model-checked:* `SelectListens`, for kill goroutines that follow each other: two at once break it at `handlers.go` 816 (section 10), so it is no theorem. And `EveryRunEnds`, `DeletionEnds`, `NothingLeftBehind` and `EndsWithExecution`: liveness under fairness
is beyond the prover, as is induction over data, which a statement about sequences of arbitrary operations on a recursive
definition would need. The safety half of their arguments is proved: that waits have an owner (`NobodyWaitsInVain`,
`WaitersAreServed`, `PartnersComeToMeet`) and that executions descend (`RunsNeverGoBack`).

## 10. Disagreements between the code and what it says

Each is a run with `expect` = `violation`, and a finding in `PROJECT.json`.

* `first`: killing execution 1 of a job stops one command and starts the next, because the
  number of the execution is returned as if it were the return code `EXEC_FINISHED`.
* `delete_panic`: a deletion can end the server, because it closes the channel its own kill
  goroutine sends to, whether or not that goroutine has sent.
* `store_update`: an update is stored as a job of the empty namespace and leaves the job that was meant as it was.
* `build_dir`: a command may start in the directory of another job, because the working directory belongs to the process.
* `cache_size`: a cache of size N may hold N + 1 entries, although `lru/arc.go` 17 calls the size "the total capacity of the
  cache". A hit in `b1` raises `p` before `replace` compares `t1` with it, so `replace` turns to `t2`, which is empty. One entry
  is all that it can be (theorem `CacheBounded`).

Known from the models, and not runs of their own:

* An execution may end, or die with the server, while its record says it runs: some failures update the record,
  others only leave. Such a record cannot be deleted.
* The first kill request of a job makes the channel; a command that already runs listens to the nil channel it
  found before, and is not killed. Two kill goroutines at once may make two channels, one of which is lost.
* An execution asked for during a deletion is started after the wait and runs
  while its records, files and channels are removed, which contradicts the comment at `handlers.go` 314 ("wait until all the running
  executions exit"): with `Concurrent` = `TRUE` TLC finds `DeleteWaitsForRuns` violated, which the run `delete` and the
  theorem `DeletionWaits` state for clients that wait for answers. Such an execution may share the channel and the
  wait group of the job created anew, and TLC reaches `DoneTooOften` with two executions. The goroutine of a deletion that
  runs late leaves `EXEC_KILL_ALL` for a job created later.
* If the kill goroutine of a deletion has not made a channel when `delJob` comes to close it, `close` panics with `accessLock` held, and
  nobody gets the lock any more (`DeletionEnds` excepts it).
* A job may be in the cache without a configuration file: `createJob` caches it first and then gives up, because the request has no
  `ImgManager` (`handlers.go` 174, a panic; no disk needs to fail) or a directory or the file cannot be made; or `os.RemoveAll` fails in a deletion after the
  configuration is gone. Executions can be started until the job is evicted. Then it can be created again, its numbers start from 0, and two live executions
  may get one number, or the insertion of a record that is there ends the server (`utils.go` 320). Without `strayed`, neither
  `FatalOnlyAfterFailure` nor `SerialJobsAnew` nor `FatalOnlyByPanic` would hold.
* A configuration with a list that has an entry `null` cannot be encoded, and a creation or an update with it ends the server (`utils.go` 434-437).
* A request to kill execution 886 kills whichever execution of the job is running, since 886 is `EXEC_KILL_ALL`.
* Requests for one job that overlap may leave a configuration in the cache that is not in the file (section 6).
* A watch of an execution that was killed, timed out or left without a word ends only with its client; a handler whose watch was ended by
  the execution never returns; a job deleted while its log is opened ends the server (`WatchAdd`).

## 11. Not modelled

Routing, startup and response helpers (no
state), generated and vendored code, and what commands print. The models leave out the goroutine that
waits for a command after it was killed, which blocks for ever on its channel and
affects nothing else, and what `createJob` writes into the Dockerfile next to the configuration (that it may panic before that is modelled). `readAllJobs` and the
reads of records and views return what the tables have.
