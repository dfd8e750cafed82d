-------------------------- MODULE LogStreamProofs --------------------------
(***************************************************************************)
(* Proofs about LogStream, for any buffer, any lines and outputs of any    *)
(* length: no piece of output is skipped, a client that stays until the    *)
(* change of the mode has all of it, and the goroutines of a watch meet.   *)
(***************************************************************************)
EXTENDS LogStream, TLAPS

HasChmod(s) == \E i \in DOMAIN s : s[i] = "chmod"

(* What an execution may still have to do: Endings and what is left of them.   *)
Left ==
  Endings \cup {<<"chmod", "record">>, <<"line", "chmod">>, <<"chmod">>, <<"line">>}

TodoOK == todo \in Left /\ (running => todo = <<>>)

(* Once the mode is changed nothing more is written. *)
Quiet ==
  HasChmod(events) \/ inner = "chmod" => ~running /\ todo \in {<<>>, <<"record">>}

(* Log has not started a watch before it has sent the snapshot, and until then *)
(* it leaves the connection open; so does a watch that goes on.                *)
Handling ==
  /\ log \in {"check", "whole", "snapshot"} => watch = "none" /\ ws = "open"
  /\ watch = "add" \/ inner \in {"start", "select"} => ws = "open"

(* The inductive invariant. *)
IInv == TypeOK /\ TodoOK /\ Quiet /\ Handling /\ NothingSkipped /\ CompleteAfterChmod

-----------------------------------------------------------------------------
Events == {"write", "chmod"}

LEMMA NothingHas == ~HasChmod(<<>>) /\ <<>> \in Seq(Events)
  BY DEF HasChmod

LEMMA TailHas ==
  ASSUME NEW s \in Seq(Events), s # <<>>
  PROVE  /\ Tail(s) \in Seq(Events) /\ (HasChmod(Tail(s)) => HasChmod(s))
         /\ Head(s) \in Events /\ (Head(s) = "chmod" => HasChmod(s))
<1>1. Tail(s) \in Seq(Events) /\ Head(s) \in Events /\ Len(s) \in Nat \ {0}
  OBVIOUS
<1>2. HasChmod(Tail(s)) => HasChmod(s)
  <2> SUFFICES ASSUME NEW i \in DOMAIN Tail(s), Tail(s)[i] = "chmod" PROVE HasChmod(s)
    BY DEF HasChmod
  <2>1. i + 1 \in DOMAIN s /\ s[i + 1] = "chmod"
    OBVIOUS
  <2> QED BY <2>1 DEF HasChmod
<1>3. Head(s) = "chmod" => HasChmod(s)
  <2>1. 1 \in DOMAIN s /\ Head(s) = s[1]
    OBVIOUS
  <2> QED BY <2>1 DEF HasChmod
<1> QED BY <1>1, <1>2, <1>3

LEMMA AppendHas ==
  ASSUME NEW s \in Seq(Events), NEW ev \in Events
  PROVE  /\ Append(s, ev) \in Seq(Events)
         /\ HasChmod(Append(s, ev)) => HasChmod(s) \/ ev = "chmod"
<1>1. Append(s, ev) \in Seq(Events)
  OBVIOUS
<1>2. ASSUME NEW i \in DOMAIN Append(s, ev), Append(s, ev)[i] = "chmod"
      PROVE  HasChmod(s) \/ ev = "chmod"
  <2>1. CASE i = Len(s) + 1
    BY <1>2, <2>1
  <2>2. CASE i # Len(s) + 1
    <3>1. i \in DOMAIN s /\ s[i] = "chmod"
      BY <1>2, <2>2
    <3> QED BY <3>1 DEF HasChmod
  <2> QED BY <2>1, <2>2
<1> QED BY <1>1, <1>2 DEF HasChmod

LEMMA OneHas ==
  ASSUME NEW ev \in Events
  PROVE  <<ev>> \in Seq(Events) /\ (HasChmod(<<ev>>) => ev = "chmod")
  BY DEF HasChmod

LEMMA Emitted ==
  ASSUME NEW ev \in Events, events \in Seq(Events), Emit(ev)
  PROVE  events' \in Seq(Events) /\ (HasChmod(events') => HasChmod(events) \/ ev = "chmod")
<1>1. CASE events' = Append(events, ev)
  BY <1>1, AppendHas
<1>2. CASE events' = events
  BY <1>2
<1> QED BY <1>1, <1>2 DEF Emit

LEMMA LeftTyped == Left \subseteq Seq({"record", "line", "chmod"})
<1> DEFINE A == {"record", "line", "chmod"}
<1>1. ASSUME NEW x \in A, NEW y \in A, NEW z \in A
      PROVE  <<x, y, z>> \in Seq(A) /\ <<x, y>> \in Seq(A) /\ <<x>> \in Seq(A) /\ <<>> \in Seq(A)
  BY <1>1
<1>2. "record" \in A /\ "line" \in A /\ "chmod" \in A
  OBVIOUS
<1> HIDE DEF A
<1> QED BY <1>1, <1>2 DEF Left, Endings, A

LEMMA Tails ==
  ASSUME NEW x, NEW y, NEW z
  PROVE  /\ Tail(<<x, y, z>>) = <<y, z>> /\ Head(<<x, y, z>>) = x
         /\ Tail(<<x, y>>) = <<y>> /\ Head(<<x, y>>) = x
         /\ Tail(<<x>>) = <<>> /\ Head(<<x>>) = x
  OBVIOUS

LEMMA LeftTail ==
  ASSUME NEW t \in Left, t # <<>>
  PROVE  /\ Tail(t) \in Left /\ Head(t) \in {"record", "line", "chmod"}
         /\ Head(t) = "chmod" => Tail(t) \in {<<>>, <<"record">>}
         /\ t = <<"record">> => Head(t) = "record" /\ Tail(t) = <<>>
<1>1. CASE t = <<"line", "chmod", "record">>
  <2>1. Head(t) = "line" /\ Tail(t) = <<"chmod", "record">>
    BY <1>1, Tails
  <2>2. <<"chmod", "record">> \in Left
    BY DEF Left, Endings
  <2> QED BY <1>1, <2>1, <2>2
<1>2. CASE t = <<"record", "line", "chmod">>
  <2>1. Head(t) = "record" /\ Tail(t) = <<"line", "chmod">>
    BY <1>2, Tails
  <2>2. <<"line", "chmod">> \in Left
    BY DEF Left, Endings
  <2> QED BY <1>2, <2>1, <2>2
<1>3. CASE t = <<"record", "chmod">>
  <2>1. Head(t) = "record" /\ Tail(t) = <<"chmod">>
    BY <1>3, Tails
  <2>2. <<"chmod">> \in Left
    BY DEF Left, Endings
  <2> QED BY <1>3, <2>1, <2>2
<1>4. CASE t = <<"record", "line">>
  <2>1. Head(t) = "record" /\ Tail(t) = <<"line">>
    BY <1>4, Tails
  <2>2. <<"line">> \in Left
    BY DEF Left, Endings
  <2> QED BY <1>4, <2>1, <2>2
<1>5. CASE t = <<"chmod", "record">>
  <2>1. Head(t) = "chmod" /\ Tail(t) = <<"record">>
    BY <1>5, Tails
  <2>2. <<"record">> \in Left
    BY DEF Left, Endings
  <2> QED BY <1>5, <2>1, <2>2
<1>6. CASE t = <<"line", "chmod">>
  <2>1. Head(t) = "line" /\ Tail(t) = <<"chmod">>
    BY <1>6, Tails
  <2>2. <<"chmod">> \in Left
    BY DEF Left, Endings
  <2> QED BY <1>6, <2>1, <2>2
<1>7. CASE t = <<"record">>
  <2>1. Head(t) = "record" /\ Tail(t) = <<>>
    BY <1>7, Tails
  <2>2. <<>> \in Left
    BY DEF Left, Endings
  <2> QED BY <1>7, <2>1, <2>2
<1>8. CASE t = <<"chmod">>
  <2>1. Head(t) = "chmod" /\ Tail(t) = <<>>
    BY <1>8, Tails
  <2>2. <<>> \in Left
    BY DEF Left, Endings
  <2> QED BY <1>8, <2>1, <2>2
<1>9. CASE t = <<"line">>
  <2>1. Head(t) = "line" /\ Tail(t) = <<>>
    BY <1>9, Tails
  <2>2. <<>> \in Left
    BY DEF Left, Endings
  <2> QED BY <1>9, <2>1, <2>2
<1> QED BY <1>1, <1>2, <1>3, <1>4, <1>5, <1>6, <1>7, <1>8, <1>9 DEF Left, Endings

LEMMA Types ==
  ASSUME TypeOK
  PROVE  /\ len \in Nat /\ nLen \in Nat /\ nLen <= len /\ BufLen \in Nat \ {0}
         /\ events \in Seq(Events) /\ got \subseteq Upto(0, len)
  BY LogAssumption DEF TypeOK, Events

(* Sending only adds, and only what is in the file.                            *)
LEMMA SentOK ==
  ASSUME NEW new, SendTo(new), got \subseteq Upto(0, len), new \subseteq Upto(0, len)
  PROVE  /\ got \subseteq got' /\ got' \subseteq Upto(0, len)
         /\ client = "open" /\ ws = "open" => new \subseteq got'
  BY DEF SendTo

-----------------------------------------------------------------------------
(* The execution: it writes, emits events and ends.                            *)
LEMMA Written ==
  ASSUME TypeOK, NEW n \in Lines, len' = len + n, got' = got, nLen' = nLen
  PROVE  /\ len' \in Nat /\ nLen' \in 0 .. len' /\ got' \subseteq Upto(0, len)'
<1>1. n \in Nat
  BY LogAssumption
<1>2. len' \in Nat /\ len <= len'
  BY <1>1, Types
<1>3. Upto(0, len) \subseteq Upto(0, len')
  BY <1>2, Types DEF Upto
<1> QED BY <1>2, <1>3, Types

LEMMA InsertRecord_Inv == ASSUME IInv, InsertRecord PROVE IInv'
  BY DEF IInv, InsertRecord, execution, sockets, TypeOK, TodoOK, Quiet, Handling, NothingSkipped, CompleteAfterChmod

LEMMA Output_Inv ==
  ASSUME IInv, Output
  PROVE  IInv'
<1>1. PICK n \in Lines : len' = len + n
  BY DEF Output, WriteLine
<1>2. events' \in Seq(Events) /\ (HasChmod(events') => HasChmod(events))
  BY Types, Emitted DEF IInv, Output, WriteLine, Events
<1>3. len' \in Nat /\ nLen' \in 0 .. len' /\ got' \subseteq Upto(0, len)'
  BY <1>1, Written DEF IInv, Output, sockets
<1>4. TypeOK'
  BY <1>2, <1>3 DEF IInv, Output, WriteLine, TypeOK, sockets, Events
<1>5. ~HasChmod(events) /\ inner # "chmod"
  BY DEF IInv, Quiet, Output
<1>6. Quiet' /\ CompleteAfterChmod'
  BY <1>2, <1>5 DEF Quiet, CompleteAfterChmod, Output
<1>7. TodoOK' /\ Handling' /\ NothingSkipped'
  BY DEF IInv, TodoOK, Handling, NothingSkipped, Output, sockets
<1> QED BY <1>4, <1>6, <1>7 DEF IInv

LEMMA CommandsEnd_Inv ==
  ASSUME IInv, CommandsEnd
  PROVE  IInv'
<1>1. todo' \in Left /\ running' = FALSE
  BY DEF CommandsEnd, Left
<1>2. TypeOK'
  BY <1>1, LeftTyped, ZenonT(40) DEF IInv, CommandsEnd, TypeOK, sockets
<1>3. ~HasChmod(events) /\ inner # "chmod"
  BY DEF IInv, Quiet, CommandsEnd
<1>4. Quiet' /\ CompleteAfterChmod'
  BY <1>3 DEF Quiet, CompleteAfterChmod, CommandsEnd
<1>5. TodoOK'
  BY <1>1 DEF TodoOK
<1>6. Handling' /\ NothingSkipped'
  BY DEF IInv, Handling, NothingSkipped, CommandsEnd, sockets
<1> QED BY <1>2, <1>4, <1>5, <1>6 DEF IInv

LEMMA Finish_Inv ==
  ASSUME IInv, Finish
  PROVE  IInv'
<1>1. /\ todo \in Left /\ todo # <<>> /\ ~running /\ todo' = Tail(todo)
      /\ UNCHANGED <<server, running, sockets, log, watch, inner, nLen>>
  BY DEF IInv, TodoOK, Finish
<1>2. /\ todo' \in Left
      /\ Head(todo) = "chmod" => todo' \in {<<>>, <<"record">>}
      /\ todo = <<"record">> => Head(todo) = "record" /\ todo' = <<>>
  BY <1>1, LeftTail
<1>3. TodoOK' /\ todo' \in Seq({"record", "line", "chmod"})
  BY <1>1, <1>2, LeftTyped DEF TodoOK
<1>4. Handling' /\ NothingSkipped'
  BY <1>1 DEF IInv, Handling, NothingSkipped, sockets
<1>5. CASE Head(todo) = "record" /\ record' = "done" /\ UNCHANGED <<there, len, events>>
  <2>1. TypeOK'
    BY <1>1, <1>3, <1>5 DEF IInv, TypeOK, sockets
  <2>2. Quiet'
    BY <1>1, <1>2, <1>5 DEF IInv, Quiet
  <2>3. CompleteAfterChmod'
    BY <1>1, <1>5 DEF IInv, CompleteAfterChmod, sockets
  <2> QED BY <1>3, <1>4, <2>1, <2>2, <2>3 DEF IInv
<1>6. CASE /\ Head(todo) = "line" /\ \E n \in Lines : len' = len + n
           /\ there' = TRUE /\ Emit("write") /\ UNCHANGED record
  <2>1. PICK n \in Lines : len' = len + n
    BY <1>6
  <2>2. events' \in Seq(Events) /\ (HasChmod(events') => HasChmod(events))
    BY <1>6, Types, Emitted DEF IInv, Events
  <2>3. len' \in Nat /\ nLen' \in 0 .. len' /\ got' \subseteq Upto(0, len)'
    BY <1>1, <2>1, Written DEF IInv, sockets
  <2>4. TypeOK'
    BY <1>1, <1>3, <1>6, <2>2, <2>3 DEF IInv, TypeOK, sockets, Events
  <2>5. ~HasChmod(events) /\ inner # "chmod"
    BY <1>1, <1>2, <1>6 DEF IInv, Quiet
  <2>6. Quiet' /\ CompleteAfterChmod'
    BY <1>1, <2>2, <2>5 DEF Quiet, CompleteAfterChmod
  <2> QED BY <1>3, <1>4, <2>4, <2>6 DEF IInv
<1>7. CASE /\ Head(todo) = "chmod" /\ (IF there THEN Emit("chmod") ELSE UNCHANGED events)
           /\ UNCHANGED <<record, there, len>>
  <2>1. events' \in Seq(Events)
    BY <1>7, Types, Emitted DEF IInv, Events
  <2>2. TypeOK'
    BY <1>1, <1>3, <1>7, <2>1 DEF IInv, TypeOK, sockets, Events
  <2>3. Quiet'
    BY <1>1, <1>2, <1>7 DEF Quiet
  <2>4. CompleteAfterChmod'
    BY <1>1, <1>7 DEF IInv, CompleteAfterChmod, sockets
  <2> QED BY <1>3, <1>4, <2>2, <2>3, <2>4 DEF IInv
<1> QED BY <1>5, <1>6, <1>7 DEF Finish

LEMMA DeleteFile_Inv ==
  ASSUME IInv, DeleteFile
  PROVE  IInv'
<1>1. events' \in Seq(Events) /\ (HasChmod(events') => HasChmod(events))
  <2>1. CASE events' = <<>>
    BY <2>1, NothingHas
  <2>2. CASE events # <<>> /\ events' = <<Head(events)>>
    BY <2>2, Types, TailHas, OneHas DEF IInv
  <2> QED BY <2>1, <2>2 DEF DeleteFile
<1>2. TypeOK'
  BY <1>1, ZenonT(40) DEF IInv, DeleteFile, TypeOK, sockets, Events
<1>3. Quiet'
  BY <1>1 DEF IInv, Quiet, DeleteFile
<1>4. TodoOK' /\ Handling' /\ NothingSkipped' /\ CompleteAfterChmod'
  BY DEF IInv, TodoOK, Handling, NothingSkipped, CompleteAfterChmod, DeleteFile, sockets
<1> QED BY <1>2, <1>3, <1>4 DEF IInv

LEMMA ClientLeaves_Inv == ASSUME IInv, ClientLeaves PROVE IInv'
  BY DEF IInv, ClientLeaves, execution, TypeOK, TodoOK, Quiet, Handling, NothingSkipped, CompleteAfterChmod

-----------------------------------------------------------------------------
(* The handler Log.                                                            *)
LEMMA LogReceive_Inv == ASSUME IInv, LogReceive PROVE IInv'
  BY DEF IInv, LogReceive, execution, sockets, TypeOK, TodoOK, Quiet, Handling, NothingSkipped, CompleteAfterChmod

LEMMA LogRefuses_Inv == ASSUME IInv, LogRefuses PROVE IInv'
  BY DEF IInv, LogRefuses, LogReturns, execution, TypeOK, TodoOK, Quiet, Handling, NothingSkipped, CompleteAfterChmod

LEMMA LogChecks_Inv == ASSUME IInv, LogChecks PROVE IInv'
  BY DEF IInv, LogChecks, execution, sockets, TypeOK, TodoOK, Quiet, Handling, NothingSkipped, CompleteAfterChmod

LEMMA LogEof_Inv == ASSUME IInv, LogEof PROVE IInv'
  BY DEF IInv, LogEof, LogReturns, execution, TypeOK, TodoOK, Quiet, Handling, NothingSkipped, CompleteAfterChmod

LEMMA LogWhole_Inv ==
  ASSUME IInv, LogWhole
  PROVE  IInv'
<1> DEFINE new == IF there THEN Upto(0, len) ELSE {}
<1>1. SendTo(new) /\ new \subseteq Upto(0, len) /\ got \subseteq Upto(0, len)
  BY Types DEF IInv, LogWhole
<1>2. got \subseteq got' /\ got' \subseteq Upto(0, len)
  <2> HIDE DEF new
  <2> QED BY <1>1, SentOK
<1>3. TypeOK'
  BY <1>2 DEF IInv, LogWhole, LogReturns, execution, TypeOK
<1>4. inner = "none"
  BY DEF IInv, Handling, LogWhole, TypeOK
<1>5. Quiet' /\ TodoOK' /\ Handling' /\ NothingSkipped' /\ CompleteAfterChmod'
  BY <1>4 DEF IInv, LogWhole, LogReturns, execution, TodoOK, Quiet, Handling, NothingSkipped, CompleteAfterChmod
<1> QED BY <1>3, <1>5 DEF IInv

LEMMA LogSnapshot_Inv ==
  ASSUME IInv, LogSnapshot
  PROVE  IInv'
<1>1. inner = "none" /\ watch = "none" /\ ws = "open"
  BY DEF IInv, Handling, LogSnapshot, TypeOK
<1>2. got \subseteq got' /\ got' \subseteq Upto(0, len)
  BY Types, SentOK DEF IInv, LogSnapshot
<1>3. TypeOK'
  BY <1>1, <1>2 DEF IInv, LogSnapshot, LogReturns, execution, TypeOK
<1>4. Quiet' /\ TodoOK' /\ Handling' /\ CompleteAfterChmod'
  BY <1>1 DEF IInv, LogSnapshot, LogReturns, execution, TodoOK, Quiet, Handling, CompleteAfterChmod
<1>5. NothingSkipped'
  BY <1>1, <1>2 DEF IInv, NothingSkipped, LogSnapshot, LogReturns, execution
<1> QED BY <1>3, <1>4, <1>5 DEF IInv

-----------------------------------------------------------------------------
(* WatchFile and its goroutine.                                                *)
LEMMA WatchAdd_Inv ==
  ASSUME IInv, WatchAdd
  PROVE  IInv'
<1>1. inner = "none" /\ nLen' \in 0 .. len /\ Upto(0, nLen') \subseteq Upto(0, nLen)
  BY Types DEF IInv, TypeOK, WatchAdd, FromTheStart, Upto
<1>2. TypeOK'
  BY <1>1 DEF IInv, WatchAdd, execution, sockets, TypeOK
<1>3. Quiet' /\ TodoOK' /\ Handling' /\ CompleteAfterChmod'
  BY <1>1 DEF IInv, WatchAdd, execution, sockets, TodoOK, Quiet, Handling, CompleteAfterChmod
<1>4. NothingSkipped'
  BY <1>1 DEF IInv, NothingSkipped, WatchAdd, execution, sockets
<1> QED BY <1>2, <1>3, <1>4 DEF IInv

LEMMA Start_Inv == ASSUME IInv, Start PROVE IInv'
  BY DEF IInv, Start, execution, sockets, TypeOK, TodoOK, Quiet, Handling, NothingSkipped, CompleteAfterChmod

LEMMA OnEnd_Inv == ASSUME IInv, OnEnd PROVE IInv'
  BY DEF IInv, OnEnd, LogReturns, execution, TypeOK, TodoOK, Quiet, Handling, NothingSkipped, CompleteAfterChmod

(* The event that is taken off the queue. *)
LEMMA Taken ==
  ASSUME IInv, events # <<>>, events' = Tail(events)
  PROVE  /\ events' \in Seq(Events) /\ (HasChmod(events') => HasChmod(events))
         /\ Head(events) = "chmod" => HasChmod(events)
  BY Types, TailHas DEF IInv

(* What is read joins what was sent before: the pieces up to the new offset.   *)
LEMMA OnWrite_Inv ==
  ASSUME IInv, OnWrite
  PROVE  IInv'
<1>1. len \in Nat /\ nLen \in Nat /\ nLen <= len /\ BufLen \in Nat \ {0} /\ got \subseteq Upto(0, len)
  BY Types DEF IInv
<1>2. events' \in Seq(Events) /\ (HasChmod(events') => HasChmod(events))
  BY Taken DEF OnWrite
<1>3. ReadTo \in 0 .. len /\ nLen <= ReadTo
  BY <1>1 DEF ReadTo
<1>4. nLen' \in 0 .. len /\ got \subseteq got' /\ got' \subseteq Upto(0, len)
  <2>1. CASE there
    <3>1. Upto(nLen, ReadTo) \subseteq Upto(0, len)
      BY <1>1, <1>3 DEF Upto
    <3> QED BY <2>1, <3>1, <1>1, <1>3, SentOK DEF OnWrite
  <2>2. CASE ~there
    BY <2>2, <1>1 DEF OnWrite
  <2> QED BY <2>1, <2>2 DEF IInv, TypeOK
<1>5. TypeOK'
  BY <1>2, <1>4 DEF IInv, OnWrite, execution, TypeOK, Events
<1>6. NothingSkipped'
  <2> SUFFICES ASSUME client = "open", ws = "open" PROVE Upto(0, nLen') \subseteq got'
    BY DEF NothingSkipped, OnWrite
  <2>1. Upto(0, nLen) \subseteq got
    BY DEF IInv, NothingSkipped
  <2>2. CASE there
    <3>1. nLen' = ReadTo /\ got' = got \cup Upto(nLen, ReadTo)
      BY <2>2 DEF OnWrite, SendTo
    <3>2. Upto(0, ReadTo) \subseteq Upto(0, nLen) \cup Upto(nLen, ReadTo)
      BY <1>1, <1>3 DEF Upto
    <3> QED BY <2>1, <3>1, <3>2
  <2>3. CASE ~there
    BY <2>3 DEF OnWrite, Upto
  <2> QED BY <2>2, <2>3
<1>7. Quiet' /\ TodoOK' /\ Handling' /\ CompleteAfterChmod'
  BY <1>2 DEF IInv, OnWrite, execution, TodoOK, Quiet, Handling, CompleteAfterChmod
<1> QED BY <1>5, <1>6, <1>7 DEF IInv

(* The rest of the file completes what was sent: the offset skipped nothing,   *)
(* and the mode is changed after the last line.                                *)
LEMMA OnChmod_Inv ==
  ASSUME IInv, OnChmod
  PROVE  IInv'
<1> DEFINE new == IF there THEN Rest ELSE {}
<1>1. len \in Nat /\ nLen \in Nat /\ nLen <= len /\ got \subseteq Upto(0, len)
  BY Types DEF IInv
<1>2. events' \in Seq(Events) /\ (HasChmod(events') => HasChmod(events)) /\ HasChmod(events)
  BY Taken DEF OnChmod
<1>3. SendTo(new) /\ new \subseteq Upto(0, len)
  BY <1>1 DEF OnChmod, Rest, Upto
<1>4. /\ got \subseteq got' /\ got' \subseteq Upto(0, len)
      /\ client = "open" /\ ws = "open" => new \subseteq got'
  <2> HIDE DEF new
  <2> QED BY <1>1, <1>3, SentOK
<1>5. TypeOK'
  BY <1>2, <1>4 DEF IInv, OnChmod, execution, TypeOK, Events
<1>6. NothingSkipped'
  BY <1>4 DEF IInv, NothingSkipped, OnChmod
<1>7. CompleteAfterChmod'
  <2> SUFFICES ASSUME client = "open", there PROVE Upto(0, len) \subseteq got'
    BY <1>4 DEF CompleteAfterChmod, OnChmod, execution
  <2>1. ws = "open"
    BY DEF IInv, Handling, OnChmod
  <2>2. Upto(0, nLen) \subseteq got /\ Upto(nLen, len) \subseteq got'
    BY <2>1, <1>4 DEF IInv, NothingSkipped, Rest
  <2>3. Upto(0, len) \subseteq Upto(0, nLen) \cup Upto(nLen, len)
    BY <1>1 DEF Upto
  <2> QED BY <2>2, <2>3, <1>4
<1>8. Quiet' /\ TodoOK' /\ Handling'
  BY <1>2 DEF IInv, OnChmod, execution, TodoOK, Quiet, Handling
<1> QED BY <1>5, <1>6, <1>7, <1>8 DEF IInv

LEMMA WatchReturns_Inv ==
  ASSUME IInv, WatchReturns
  PROVE  IInv'
<1>1. events' \in Seq(Events) /\ ~HasChmod(events')
  BY NothingHas DEF WatchReturns
<1>2. TypeOK'
  BY <1>1 DEF IInv, WatchReturns, execution, TypeOK, Events
<1>3. Quiet' /\ TodoOK' /\ Handling' /\ NothingSkipped' /\ CompleteAfterChmod'
  BY <1>1 DEF IInv, WatchReturns, execution, TodoOK, Quiet, Handling, NothingSkipped, CompleteAfterChmod
<1> QED BY <1>2, <1>3 DEF IInv

-----------------------------------------------------------------------------
LEMMA Init_Inv == Init => IInv
<1> SUFFICES ASSUME Init PROVE IInv
  OBVIOUS
<1>1. <<>> \in Seq(Events) /\ ~HasChmod(<<>>) /\ <<>> \in Left
  BY NothingHas DEF Left, Endings
<1>2. TypeOK
  <2>1. todo \in Seq({"record", "line", "chmod"}) /\ events \in Seq({"write", "chmod"})
    BY <1>1, LeftTyped DEF Init, Events
  <2>2. 0 \in 0 .. 0
    OBVIOUS
  <2> QED BY <2>1, <2>2 DEF Init, TypeOK
<1>3. TodoOK /\ Quiet /\ Handling /\ NothingSkipped /\ CompleteAfterChmod
  BY <1>1 DEF Init, TodoOK, Quiet, Handling, NothingSkipped, CompleteAfterChmod, Upto
<1> QED BY <1>2, <1>3 DEF IInv

LEMMA Next_Inv == IInv /\ [Next]_vars => IInv'
<1> SUFFICES ASSUME IInv, [Next]_vars PROVE IInv'
  OBVIOUS
<1>1. CASE UNCHANGED vars
  BY <1>1 DEF vars, execution, sockets, IInv, TypeOK, TodoOK, Quiet, Handling, NothingSkipped, CompleteAfterChmod
<1>2. CASE Execution
  BY <1>2, InsertRecord_Inv, Output_Inv, CommandsEnd_Inv, Finish_Inv, DeleteFile_Inv DEF Execution
<1>3. CASE ClientLeaves
  BY <1>3, ClientLeaves_Inv
<1>4. CASE Handler
  BY <1>4, LogReceive_Inv, LogRefuses_Inv, LogChecks_Inv, LogWhole_Inv, LogSnapshot_Inv, LogEof_Inv DEF Handler
<1>5. CASE Watcher
  BY <1>5, WatchAdd_Inv, Start_Inv, OnWrite_Inv, OnChmod_Inv, OnEnd_Inv, WatchReturns_Inv DEF Watcher
<1> QED BY <1>1, <1>2, <1>3, <1>4, <1>5 DEF Next

LEMMA Invariance == Spec => []IInv
  BY Init_Inv, Next_Inv, PTL DEF Spec

(* Handler, watch and goroutine are always in places that fit each other, the  *)
(* offset within the file (Log, WatchFile, ReadFile).                          *)
THEOREM LogTypeCorrect == Spec => []TypeOK
<1>1. IInv => TypeOK
  BY DEF IInv
<1> QED BY <1>1, Invariance, PTL

(* What lies before the offset was sent, for any buffer and any lines          *)
(* (WatchFile, ReadFile).                                                      *)
THEOREM NoGaps == Spec => []NothingSkipped
<1>1. IInv => NothingSkipped
  BY DEF IInv
<1> QED BY <1>1, Invariance, PTL

(* A client that stays until the change of the mode has the whole output,      *)
(* however far the reader lagged behind (WatchFile, ReadFileToEnd).            *)
THEOREM WholeOutput == Spec => []CompleteAfterChmod
<1>1. IInv => CompleteAfterChmod
  BY DEF IInv
<1> QED BY <1>1, Invariance, PTL
-----------------------------------------------------------------------------
(* The inductive invariant of the meetings: a watch is added by a handler that *)
(* then waits for its start, and one that receives has no watch or one whose   *)
(* goroutine was started and that no end has reached.                          *)
Meetings ==
  /\ PartnersMeet
  /\ watch = "add" => log = "start"
  /\ log = "receive" => watch = "none" \/ inner \in {"select", "chmod"}

LEMMA Init_Meet == Init => Meetings
  BY DEF Init, Meetings, PartnersMeet

LEMMA Next_Meet == IInv /\ Meetings /\ [Next]_vars => Meetings'
<1> SUFFICES ASSUME IInv, Meetings, [Next]_vars PROVE Meetings'
  OBVIOUS
<1>0. (inner = "none" <=> watch \in {"none", "add"}) /\ Handling
  BY DEF IInv, TypeOK
<1> USE DEF Meetings, PartnersMeet
<1>1. CASE UNCHANGED vars
  BY <1>1 DEF vars
<1>2. CASE Execution \/ ClientLeaves
  <2>1. UNCHANGED <<log, watch, inner>>
    BY <1>2 DEF Execution, InsertRecord, Output, CommandsEnd, Finish, DeleteFile, ClientLeaves
  <2> QED BY <2>1
<1>3. CASE Handler
  BY <1>0, <1>3 DEF Handler, LogReceive, LogRefuses, LogChecks, LogWhole, LogSnapshot, LogEof, LogReturns,
                    Handling
<1>4. CASE Watcher
  BY <1>0, <1>4 DEF Watcher, WatchAdd, Start, OnWrite, OnChmod, OnEnd, WatchReturns, LogReturns
<1> QED BY <1>1, <1>2, <1>3, <1>4 DEF Next

(* Log and the goroutine of WatchFile never wait for each other in vain,       *)
(* unless the change of the mode came first (Log, WatchFile).                  *)
THEOREM PartnersComeToMeet == Spec => []PartnersMeet
<1>1. Meetings => PartnersMeet
  BY DEF Meetings
<1> QED BY <1>1, Init_Meet, Next_Meet, Invariance, PTL DEF Spec
=============================================================================
