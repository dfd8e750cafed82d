----------------------------- MODULE LogStream -----------------------------
(***************************************************************************)
(* The output of one execution and one client that watches it: the file an *)
(* execution appends to (ExecAsync and runJobExecution, api/jobs), the     *)
(* handler Log of a web socket, WatchFile (utils) with its goroutine and   *)
(* the file watcher it selects on. A position of the file stands for a     *)
(* piece of output; what is sent to the client is the set of positions in  *)
(* the message. The client sees a piece twice in many cases, and padding   *)
(* after it: only which pieces reach it is modelled.                       *)
(***************************************************************************)
EXTENDS Integers, Sequences, SequencesExt

CONSTANTS
  BufLen,  \* pieces that fit the buffer of ReadFile
  Lines,   \* lengths of the lines that are written (a bound)
  MaxLen   \* an execution goes on writing while its file is shorter (a bound)

ASSUME LogAssumption ==
  BufLen \in Nat \ {0} /\ MaxLen \in Nat /\ Lines \subseteq Nat \ {0}

VARIABLES
  server,   \* "up", or "fatal" after log.Fatal ended the process
  record,   \* the record of the execution: "none", "running", or "done"
  there,    \* does the file exist?
  len,      \* how much has been written to it
  todo,     \* what the execution has still to do when its commands have ended
  running,  \* do commands of the execution run, or wait to run?
  events,   \* the watcher's events that nobody has received yet
  client,   \* "open"; "closed", Receive answers EOF; "lost", it answers another error
  ws,       \* the server's end of the web socket
  got,      \* the positions of the file sent to the client
  log,      \* where the handler Log is
  watch,    \* where WatchFile is
  inner,    \* where the goroutine of WatchFile is
  nLen      \* its nLen

execution == <<record, there, len, todo, running>>
sockets   == <<client, ws, got>>
vars == <<server, execution, events, sockets, log, watch, inner, nLen>>

Upto(a, b) == a .. b - 1

(* The watcher exists from its Add until WatchFile returns. *)
Watching == watch = "wait"

-----------------------------------------------------------------------------
(* An execution that was accepted; its record is inserted after the answer.    *)
Init ==
  /\ server = "up"
  /\ record = "none" /\ there = FALSE /\ len = 0 /\ todo = <<>> /\ running = TRUE
  /\ events = <<>>
  /\ client = "open" /\ ws = "open" /\ got = {}
  /\ log = "receive" /\ watch = "none" /\ inner = "none" /\ nLen = 0

InsertRecord ==
  /\ record = "none" /\ running
  /\ record' = "running"
  /\ UNCHANGED <<server, there, len, todo, running, events, sockets, log, watch, inner, nLen>>

(* inotify puts an event into the queue, or lets it coincide with an equal one *)
(* that is last in the queue.                                                  *)
Emit(ev) ==
  IF Watching THEN \/ events' = Append(events, ev)
                   \/ events # <<>> /\ Last(events) = ev /\ UNCHANGED events
  ELSE UNCHANGED events

(* WriteFile creates the file when it is not there, and appends to it.         *)
WriteLine ==
  /\ len < MaxLen
  /\ \E n \in Lines : len' = len + n
  /\ there' = TRUE
  /\ Emit("write")

(* A line of output, or "step ... finished". *)
Output ==
  /\ record = "running" /\ running
  /\ WriteLine
  /\ UNCHANGED <<server, record, todo, running, sockets, log, watch, inner, nLen>>

(* Mutant: an execution that fails changes the mode before it writes the reason. *)
EndingsChmodFirst == {<<"chmod", "line", "record">>, <<"record", "chmod", "line">>, <<"record", "chmod">>}

(* How an execution ends: jobCmd.Start fails; a command fails; all succeed; it *)
(* is killed or timed out, perhaps with output that is still in the pipe; it   *)
(* leaves without a word.                                                      *)
Endings == {<<"line", "chmod", "record">>, <<"record", "line", "chmod">>, <<"record", "chmod">>,
            <<"record", "line">>, <<"record">>, <<>>}

CommandsEnd ==
  /\ record = "running" /\ running
  /\ running' = FALSE
  /\ todo' \in Endings
  /\ UNCHANGED <<server, record, there, len, events, sockets, log, watch, inner, nLen>>

(* One of the last things an execution does. The bound of WriteLine does not   *)
(* stop the last line.                                                         *)
Finish ==
  /\ todo # <<>>
  /\ todo' = Tail(todo)
  /\ \/ /\ Head(todo) = "record"
        /\ record' = "done"
        /\ UNCHANGED <<there, len, events>>
     \/ /\ Head(todo) = "line"
        /\ \E n \in Lines : len' = len + n
        /\ there' = TRUE
        /\ Emit("write")
        /\ UNCHANGED record
     \/ /\ Head(todo) = "chmod"
        /\ IF there THEN Emit("chmod") ELSE UNCHANGED events
        /\ UNCHANGED <<record, there, len>>
  /\ UNCHANGED <<server, running, sockets, log, watch, inner, nLen>>

(* The job is deleted after the execution ended. The watcher passes on only    *)
(* the event it holds already: it drops events of a file that is gone.         *)
DeleteFile ==
  /\ ~running /\ todo = <<>> /\ there
  /\ there' = FALSE
  /\ record' = "none"
  /\ events' \in {<<>>, IF events = <<>> THEN <<>> ELSE <<Head(events)>>}
  /\ UNCHANGED <<server, len, todo, running, sockets, log, watch, inner, nLen>>

-----------------------------------------------------------------------------
(* The client leaves in good order, or its connection breaks. *)
ClientLeaves ==
  /\ client = "open"
  /\ client' \in {"closed", "lost"}
  /\ UNCHANGED <<server, execution, events, ws, got, log, watch, inner, nLen>>

(* websocket.Message.Send; an error is only logged. *)
SendTo(new) == got' = IF client = "open" /\ ws = "open" THEN got \cup new ELSE got

(* Log receives the message that asks for the output. A message without Flag,  *)
(* a second one with it, and an error that is not EOF change nothing: the loop *)
(* of Log goes round.                                                          *)
LogReceive ==
  /\ log = "receive" /\ watch = "none"
  /\ client = "open" /\ ws = "open"
  /\ log' = "check"
  /\ UNCHANGED <<server, execution, events, sockets, watch, inner, nLen>>

LogReturns == log' = "returned" /\ ws' = "closed"

(* The number is not one, the job or the number is unknown, or there is no     *)
(* record.                                                                     *)
LogRefuses ==
  /\ log = "check"
  /\ LogReturns
  /\ UNCHANGED <<server, execution, events, client, got, watch, inner, nLen>>

(* GetFinishStatus *)
LogChecks ==
  /\ log = "check"
  /\ record # "none"
  /\ log' = IF record = "done" THEN "whole" ELSE "snapshot"
  /\ UNCHANGED <<server, execution, events, sockets, watch, inner, nLen>>

(* An execution that is done: the file is sent as it is. *)
LogWhole ==
  /\ log = "whole"
  /\ SendTo(IF there THEN Upto(0, len) ELSE {})
  /\ LogReturns
  /\ UNCHANGED <<server, execution, events, client, watch, inner, nLen>>

(* One that is not: what is in the file is sent, and WatchFile is started.     *)
LogSnapshot ==
  /\ log = "snapshot"
  /\ IF there
     THEN /\ SendTo(Upto(0, len))
          /\ log' = "start"
          /\ watch' = "add"
          /\ UNCHANGED ws
     ELSE /\ LogReturns
          /\ UNCHANGED <<got, watch>>
  /\ UNCHANGED <<server, execution, events, client, inner, nLen>>

(* Mutant: the end of the connection is not handed over to WatchFile. *)
LogJustReturns ==
  /\ log = "receive" /\ client = "closed"
  /\ LogReturns
  /\ UNCHANGED <<server, execution, events, client, got, watch, inner, nLen>>

(* EOF: end <- false, unless there is nothing to end. Once WatchFile has       *)
(* closed the web socket, Receive answers another error, for ever.             *)
LogEof ==
  /\ log = "receive" /\ client = "closed" /\ ws = "open"
  /\ IF watch = "none" THEN LogReturns ELSE log' = "end" /\ UNCHANGED ws
  /\ UNCHANGED <<server, execution, events, client, got, watch, inner, nLen>>

-----------------------------------------------------------------------------
(* Mutant: the goroutine of WatchFile begins at the end of the file. *)
FromTheEnd == len

(* var nLen int = 0 *)
FromTheStart == 0

(* NewWatcher, Add and the goroutine; Add fails when there is no file.         *)
WatchAdd ==
  /\ watch = "add"
  /\ IF there
     THEN /\ watch' = "wait"
          /\ inner' = "start"
          /\ nLen' = FromTheStart
          /\ UNCHANGED server
     ELSE /\ server' = "fatal"
          /\ UNCHANGED <<watch, inner, nLen>>
  /\ UNCHANGED <<execution, events, sockets, log>>

(* start <- true meets <-start, and Log goes on to receive.                    *)
Start ==
  /\ log = "start" /\ inner = "start"
  /\ log' = "receive"
  /\ inner' = "select"
  /\ UNCHANGED <<server, execution, events, sockets, watch, nLen>>

(* Mutant: the length of the buffer is added to the offset, not what was read. *)
ReadToBuffer == nLen + BufLen

(* ReadFile: one buffer from nLen on; the offset is lost when it fails.        *)
ReadTo == IF nLen + BufLen < len THEN nLen + BufLen ELSE len

OnWrite ==
  /\ inner = "select" /\ events # <<>> /\ Head(events) = "write"
  /\ events' = Tail(events)
  /\ IF there
     THEN SendTo(Upto(nLen, ReadTo)) /\ nLen' = ReadTo
     ELSE UNCHANGED got /\ nLen' = 0
  /\ UNCHANGED <<server, execution, client, ws, log, watch, inner>>

(* Mutant: ReadFile instead of ReadFileToEnd. *)
RestInBuffer == Upto(nLen, ReadTo)

(* ReadFileToEnd *)
Rest == Upto(nLen, len)

(* Mutant: the rest is sent, and the goroutine goes on to watch. *)
OnChmodGoesOn ==
  /\ inner = "select" /\ events # <<>> /\ Head(events) = "chmod"
  /\ events' = Tail(events)
  /\ SendTo(IF there THEN Rest ELSE {})
  /\ UNCHANGED <<server, execution, client, ws, log, watch, inner, nLen>>

(* A change of the mode is the sign that the execution is over. *)
OnChmod ==
  /\ inner = "select" /\ events # <<>> /\ Head(events) = "chmod"
  /\ events' = Tail(events)
  /\ SendTo(IF there THEN Rest ELSE {})
  /\ inner' = "chmod"
  /\ UNCHANGED <<server, execution, client, ws, log, watch, nLen>>

(* end <- false meets <-end, and Log returns.                                  *)
OnEnd ==
  /\ log = "end" /\ inner = "select"
  /\ LogReturns
  /\ inner' = "end"
  /\ UNCHANGED <<server, execution, events, client, got, watch, nLen>>

(* done: WatchFile closes the watcher and the web socket.                      *)
WatchReturns ==
  /\ watch = "wait" /\ inner \in {"chmod", "end"}
  /\ watch' = "returned"
  /\ ws' = "closed"
  /\ events' = <<>>
  /\ UNCHANGED <<server, execution, client, got, log, inner, nLen>>

-----------------------------------------------------------------------------
Execution == InsertRecord \/ Output \/ CommandsEnd \/ Finish \/ DeleteFile
Handler   == LogReceive \/ LogRefuses \/ LogChecks \/ LogWhole \/ LogSnapshot \/ LogEof
Watcher   == WatchAdd \/ Start \/ OnWrite \/ OnChmod \/ OnEnd \/ WatchReturns

Next == server = "up" /\ (Execution \/ ClientLeaves \/ Handler \/ Watcher)

Spec == Init /\ [][Next]_vars

(* Go's scheduler runs each goroutine that can run, and a select whose case    *)
(* stays ready takes it. Neither the client nor the commands of an execution   *)
(* have to do anything, but an execution that has ended does its last steps.   *)
FairSpec ==
  /\ Spec
  /\ WF_vars(server = "up" /\ (LogChecks \/ LogRefuses \/ LogWhole \/ LogSnapshot))
  /\ WF_vars(server = "up" /\ LogEof)
  /\ WF_vars(server = "up" /\ (WatchAdd \/ Start \/ WatchReturns))
  /\ WF_vars(server = "up" /\ (OnWrite \/ OnChmod))
  /\ WF_vars(server = "up" /\ OnEnd)
  /\ WF_vars(server = "up" /\ Finish)

-----------------------------------------------------------------------------
(* Type invariant: where the goroutines can be, together: a goroutine watches  *)
(* only between the start and the return of WatchFile.                         *)
TypeOK ==
  /\ server \in {"up", "fatal"}
  /\ record \in {"none", "running", "done"}
  /\ there \in BOOLEAN /\ running \in BOOLEAN
  /\ len \in Nat /\ nLen \in 0 .. len
  /\ todo \in Seq({"record", "line", "chmod"})
  /\ events \in Seq({"write", "chmod"})
  /\ client \in {"open", "closed", "lost"} /\ ws \in {"open", "closed"}
  /\ got \subseteq Upto(0, len)
  /\ log \in {"receive", "check", "whole", "snapshot", "start", "end", "returned"}
  /\ watch \in {"none", "add", "wait", "returned"}
  /\ inner \in {"none", "start", "select", "chmod", "end"}
  /\ (inner = "none") <=> (watch \in {"none", "add"})

(* Nothing is skipped: what lies before the offset of the goroutine has been   *)
(* sent, lines that were written between the first message and the start of    *)
(* the watcher included (Log, WatchFile, ReadFile).                            *)
NothingSkipped == client = "open" /\ ws = "open" => Upto(0, nLen) \subseteq got

(* A client that stays until the change of the mode ends the watch has the     *)
(* whole output: nothing is written after it, however many events were lost    *)
(* in each other and however far the reader lagged behind (WatchFile).         *)
CompleteAfterChmod ==
  inner = "chmod" /\ client = "open" /\ there => got = Upto(0, len)

(* Who waits at an unbuffered channel waits for a goroutine that will come to  *)
(* it: Log, at start or at end, for the goroutine of WatchFile, which is there *)
(* unless a change of the mode ended it; and a goroutine that watches has a    *)
(* handler that can still end it (Log, WatchFile).                             *)
PartnersMeet ==
  /\ log = "start" => watch = "add" \/ inner = "start"
  /\ log = "end" => inner \in {"select", "chmod"}
  /\ inner = "start" => log = "start"
  /\ inner = "select" => log \in {"receive", "end"}

(* After its client closed the connection the handler returns, and neither     *)
(* WatchFile nor its goroutine is left behind, unless the end of the execution *)
(* ended the watch first: then Log sends to end for ever, or goes round in its *)
(* loop.                                                                       *)
NothingLeftBehind ==
  client = "closed" ~> \/ log = "returned" /\ watch \in {"none", "returned"}
                       \/ inner = "chmod"
                       \/ server = "fatal"

(* A change of the mode that comes after the watcher was added closes the      *)
(* connection, unless the job was deleted meanwhile.                           *)
EndsWithExecution ==
  (\E i \in DOMAIN events : events[i] = "chmod") ~> ws = "closed" \/ ~there
=============================================================================
