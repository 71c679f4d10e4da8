------------------------- MODULE HttpSessionProofs -------------------------
(***************************************************************************)
(* Proofs about HttpSession for every buffer, header and file size and any *)
(* number of messages: the invariants its run checks.                      *)
(*                                                                         *)
(* The timer invariants hold because output waits only after a message,    *)
(* and a message cancels both timers, so that CloseConnection() finds none *)
(* of them armed (Quiet).  The file invariant holds because the transfer   *)
(* of a fresh file keeps its two counters in step with the bytes sent      *)
(* (Progress).                                                             *)
(***************************************************************************)
EXTENDS HttpSession, SequenceTheorems, TLAPS

-----------------------------------------------------------------------------
(* Parts of a file                                                         *)

\* The length of a part is a natural number, at most both bounds, and one of
\* them.
LEMMA LeastIsLeast ==
  ASSUME NEW a \in Nat, NEW b \in Nat
  PROVE  /\ Least(a, b) \in Nat
         /\ Least(a, b) <= a /\ Least(a, b) <= b
         /\ Least(a, b) = a \/ Least(a, b) = b
BY DEF Least

\* The bytes of a part are a sequence of their number.
LEMMA BytesType ==
  ASSUME NEW a \in Nat, NEW n \in Nat
  PROVE  Bytes(a, n) \in Seq(Nat) /\ Len(Bytes(a, n)) = n
BY DEF Bytes

\* The part that starts where the bytes sent so far end continues them.
LEMMA BytesJoin ==
  ASSUME NEW a \in Nat, NEW n \in Nat
  PROVE  Bytes(0, a) \o Bytes(a, n) = Bytes(0, a + n)
<1> DEFINE joined == Bytes(0, a) \o Bytes(a, n)
           whole == Bytes(0, a + n)
<1>1. /\ Bytes(0, a) \in Seq(Nat) /\ Len(Bytes(0, a)) = a
      /\ Bytes(a, n) \in Seq(Nat) /\ Len(Bytes(a, n)) = n
      /\ whole \in Seq(Nat) /\ Len(whole) = a + n
  BY BytesType
<1>2. joined \in Seq(Nat) /\ Len(joined) = a + n
  BY <1>1
<1>3. ASSUME NEW i \in 1..Len(joined)
      PROVE  joined[i] = whole[i]
  <2>1. i \in 1..(a + n)
    BY <1>2
  <2>2. whole[i] = i - 1
    BY <2>1 DEF Bytes
  <2>3. CASE i <= a
    <3>1. joined[i] = Bytes(0, a)[i]
      BY <1>1, <2>1, <2>3
    <3> QED BY <2>1, <2>2, <2>3, <3>1 DEF Bytes
  <2>4. CASE i > a
    <3>1. joined[i] = Bytes(a, n)[i - a]
      BY <1>1, <2>1, <2>4
    <3>2. i - a \in 1..n
      BY <2>1, <2>4
    <3> QED BY <2>1, <2>2, <3>1, <3>2 DEF Bytes
  <2> QED BY <2>1, <2>3, <2>4
<1> HIDE DEF joined, whole
<1>4. joined = whole
  BY <1>1, <1>2, <1>3, SeqEqual
<1> QED BY <1>4 DEF joined, whole

\* The size of a file fits the word it is counted in.
LEMMA SizeFits ==
  ASSUME NEW x \in Sizes \cup {0}
  PROVE  x \in Nat /\ x < WordSize /\ WordSize \in Nat \ {0}
<1>1. CASE x \in Sizes
  BY <1>1, SizesAssumption
<1>2. CASE x = 0
  BY <1>2, SizesAssumption
<1> QED BY <1>1, <1>2

\* The unsigned remainder of a transfer that is not past the end is exact.
LEMMA SmallRemainder ==
  ASSUME NEW x \in Nat, NEW w \in Nat \ {0}, x < w
  PROVE  x % w = x
OBVIOUS

-----------------------------------------------------------------------------
(* Types                                                                   *)

\* A response is described by a record of Replies.
LEMMA ReplyType ==
  ASSUME NEW kind \in Kinds, NEW size \in Sizes \cup {0}, NEW sent \in Seq(Nat),
         NEW keepAlive \in BOOLEAN
  PROVE  Reply(kind, size, sent, keepAlive) \in Replies
BY DEF Reply, Replies

\* It stays one when its kind changes.
LEMMA KindType ==
  ASSUME NEW r \in Replies, NEW kind \in Kinds
  PROVE  [r EXCEPT !.kind = kind] \in Replies
BY DEF Replies

\* It stays one when a part is sent.
LEMMA SentType ==
  ASSUME NEW r \in Replies, NEW sent \in Seq(Nat)
  PROVE  [r EXCEPT !.sent = r.sent \o sent] \in Replies
<1>1. r.sent \o sent \in Seq(Nat)
  BY ConcatProperties DEF Replies
<1> QED BY <1>1 DEF Replies

\* A new connection has the types.
LEMMA InitTypeOK == Init => TypeOK
<1> SUFFICES ASSUME Init PROVE TypeOK
  OBVIOUS
<1>1. "none" \in Kinds /\ 0 \in Sizes \cup {0} /\ <<>> \in Seq(Nat)
  BY DEF Kinds
<1>2. Reply("none", 0, <<>>, FALSE) \in Replies
  BY <1>1, ReplyType
<1>3. reply \in Replies
  BY <1>2 DEF Init
<1>4. 0 \in 0..MaxMessages
  BY TimersAssumption
<1> QED BY <1>3, <1>4 DEF Init, TypeOK

\* What every message does to the timers keeps their types.
LEMMA HearType ==
  ASSUME TypeOK, Hear
  PROVE  /\ heard' \in 0..MaxMessages /\ armed' \subseteq TimerIds
         /\ connection_timer_id_' \in TimerIds \cup {NoTimer}
         /\ keep_alive_timer_id_' \in TimerIds \cup {NoTimer}
         /\ use_mmap' \in BOOLEAN /\ conn' \in {"new", "up", "down"}
BY TimersAssumption DEF TypeOK, Hear, CancelledByMessage

\* So does an error response.
LEMMA ErrorType ==
  ASSUME TypeOK, ErrorResponse
  PROVE  output' \in BOOLEAN /\ shut' \in BOOLEAN /\ reply' \in Replies
<1>1. Reply("error", 0, <<>>, FALSE) \in Replies
  <2>1. "error" \in Kinds /\ 0 \in Sizes \cup {0} /\ <<>> \in Seq(Nat)
    BY DEF Kinds
  <2> QED BY <2>1, ReplyType
<1> QED BY <1>1 DEF TypeOK, ErrorResponse, Send

\* So does the end of a response.
LEMMA AnsweredType ==
  ASSUME TypeOK, Answered
  PROVE  reply' \in Replies
<1>1. "done" \in Kinds
  BY DEF Kinds
<1> QED BY <1>1, KindType DEF TypeOK, Answered

\* So does CloseConnection().
LEMMA CloseConnectionType ==
  ASSUME TypeOK, CloseConnection
  PROVE  /\ armed' \subseteq TimerIds /\ shut' \in BOOLEAN
         /\ connection_timer_id_' \in TimerIds \cup {NoTimer}
         /\ keep_alive_timer_id_' \in TimerIds \cup {NoTimer}
BY DEF TypeOK, CloseConnection, FreshTimers, timers

\* So does sending a part.
LEMMA SendsPartType ==
  ASSUME TypeOK, NEW bytes \in Seq(Nat), SendsPart(bytes)
  PROVE  output' \in BOOLEAN /\ reply' \in Replies
BY SentType DEF TypeOK, SendsPart

\* The types are inductive.
LEMMA NextTypeOK ==
  ASSUME TypeOK, [Next]_vars
  PROVE  TypeOK'
<1>1. CASE Connect
  BY <1>1 DEF TypeOK, transfer, Connect, FreshTimers
<1>2. CASE Disconnect
  BY <1>2 DEF TypeOK, Disconnect
<1>3. CASE TimerFires
  BY <1>3 DEF TypeOK, transfer, TimerFires
<1>4. CASE OnShort
  <2>1. reply' \in Replies
    <3>1. (IF output THEN reply.kind ELSE "short") \in Kinds
      BY DEF TypeOK, Replies, Kinds
    <3> QED BY <1>4, <3>1, KindType DEF TypeOK, OnShort
  <2> QED BY <1>4, <2>1, HearType DEF TypeOK, transfer, OnShort
<1>5. CASE OnShortBody
  BY <1>5, HearType DEF TypeOK, transfer, OnShortBody
<1>6. CASE OnError
  BY <1>6, HearType, ErrorType DEF TypeOK, transfer, OnError
<1>7. ASSUME NEW size \in Sizes, OnUnopened(size) PROVE TypeOK'
  BY <1>7, HearType, ErrorType DEF TypeOK, OnUnopened
<1>8. ASSUME NEW size \in Sizes, OnUnreadable(size) PROVE TypeOK'
  BY <1>8, HearType DEF TypeOK, OnUnreadable
<1>9. ASSUME NEW size \in Sizes, NEW ka \in BOOLEAN, OnStatic(size, ka) PROVE TypeOK'
  <2> DEFINE readn == Least(BufferSize - HeaderSize, size)
             first == IF shut THEN <<>> ELSE Bytes(0, readn)
  <2>1. readn \in Nat
    BY SizesAssumption, LeastIsLeast
  <2>2. first \in Seq(Nat)
    BY <2>1, BytesType
  <2>3. Reply("static", size, first, ka) \in Replies
    <3>1. "static" \in Kinds
      BY DEF Kinds
    <3> QED BY <2>2, <3>1, ReplyType
  <2>4. reply' \in Replies
    BY <1>9, <2>3 DEF OnStatic
  <2>5. cache_filesize_' \in Nat /\ callback' \in {"file", "last"}
        /\ captured' \in Sizes \cup {0}
    BY <1>9, <2>1 DEF OnStatic, Counted, TypeOK
  <2> QED BY <1>9, <2>4, <2>5, HearType DEF TypeOK, OnStatic, Send
<1>10. ASSUME NEW ka \in BOOLEAN, OnDynamic(ka) PROVE TypeOK'
  <2>1. Reply("dynamic", 0, <<>>, ka) \in Replies
    <3>1. "dynamic" \in Kinds /\ 0 \in Sizes \cup {0} /\ <<>> \in Seq(Nat)
      BY DEF Kinds
    <3> QED BY <3>1, ReplyType
  <2> QED BY <1>10, <2>1, HearType DEF TypeOK, transfer, OnDynamic, Send
<1>11. CASE NoCallback
  BY <1>11 DEF TypeOK, timers, transfer, NoCallback
<1>12. CASE LastWriteComplete
  BY <1>12, AnsweredType, CloseConnectionType DEF TypeOK, transfer, LastWriteComplete
<1>13. CASE SendFile
  <2> DEFINE readn == Least(BufferSize, captured - cache_filesize_)
  <2>1. readn \in Nat /\ cache_filesize_ + readn \in Nat
    BY <1>13, SizesAssumption DEF SendFile, Least, TypeOK
  <2>2. output' \in BOOLEAN /\ reply' \in Replies
    BY <1>13, <2>1, BytesType, SendsPartType DEF SendFile, TypeOK
  <2>3. callback' \in {"file", "last"} /\ captured' \in Sizes \cup {0}
    BY <1>13 DEF SendFile, AfterLast, TypeOK
  <2> QED BY <1>13, <2>1, <2>2, <2>3 DEF TypeOK, timers, SendFile
<1>14. CASE SendFileEnds
  BY <1>14, AnsweredType, CloseConnectionType DEF TypeOK, SendFileEnds
<1>15. CASE SendFileFails
  <2>1. reply' \in Replies
    <3>1. "error" \in Kinds /\ 0 \in Sizes \cup {0} /\ <<>> \in Seq(Nat)
      BY DEF Kinds
    <3> QED BY <1>15, <3>1, ReplyType DEF SendFileFails
  <2> QED BY <1>15, <2>1 DEF TypeOK, transfer, SendFileFails
<1>16. CASE SendFileOfMmap
  <2> DEFINE n == Least(BufferSize, Left)
  <2>1. n \in Nat /\ cache_filesize_ + n \in Nat
    <3>1. Left \in Nat
      BY SizesAssumption DEF Left, TypeOK
    <3>2. n \in Nat
      BY <3>1, SizesAssumption, LeastIsLeast
    <3> QED BY <3>2 DEF TypeOK
  <2>2. output' \in BOOLEAN /\ reply' \in Replies
    BY <1>16, <2>1, BytesType, SendsPartType DEF SendFileOfMmap, TypeOK
  <2>3. /\ callback' \in {"file", "last"} /\ captured' \in Sizes \cup {0}
        /\ cache_filesize_' \in Nat
    BY <1>16, <2>1 DEF SendFileOfMmap, AfterLast, TypeOK
  <2> QED BY <1>16, <2>2, <2>3 DEF TypeOK, timers, SendFileOfMmap
<1>17. CASE SendFileOfMmapFaults
  BY <1>17 DEF TypeOK, timers, transfer, SendFileOfMmapFaults
<1>18. CASE UNCHANGED vars
  BY <1>18 DEF TypeOK, vars, timers, transfer
<1> QED
  BY <1>1, <1>2, <1>3, <1>4, <1>5, <1>6, <1>7, <1>8, <1>9, <1>10, <1>11,
     <1>12, <1>13, <1>14, <1>15, <1>16, <1>17, <1>18
     DEF Next, OnMessage, OnWriteComplete

\* Every variable of a session keeps its type; the transfer counters, which only
\* grow, stay natural numbers.
THEOREM TypeCorrect == Spec => []TypeOK
BY InitTypeOK, NextTypeOK, PTL DEF Spec

-----------------------------------------------------------------------------
(* Timers                                                                  *)

\* A timer is armed only while no output waits, and a new connection has done
\* nothing.
Quiet == /\ output => armed = {}
         /\ conn = "new" => armed = {} /\ callback = "none" /\ ~output

TimersInv == /\ Quiet /\ ArmedIsRecorded
             /\ NothingOutlivesSession /\ NoTimerDuringTransfer

\* The timer invariants hold for a new connection.
LEMMA InitTimersInv == Init => TimersInv
BY DEF Init, TimersInv, Quiet, ArmedIsRecorded, NothingOutlivesSession,
       NoTimerDuringTransfer

\* After a step that leaves no timer armed the timer invariants are plain.
LEMMA NoneArmed ==
  ASSUME conn' = "up", armed' = {}
  PROVE  TimersInv'
BY DEF TimersInv, Quiet, ArmedIsRecorded, NothingOutlivesSession, NoTimerDuringTransfer

\* A message leaves no timer armed, because the session has recorded all that
\* were.
LEMMA HearTimers ==
  ASSUME TimersInv, Hear
  PROVE  TimersInv'
<1>1. conn' = "up" /\ armed' = {}
  BY DEF TimersInv, ArmedIsRecorded, Hear, CancelledByMessage, Up
<1> QED BY <1>1, NoneArmed

\* When the output buffer is emptied no timer is armed.
LEMMA EmptiedTimers ==
  ASSUME TimersInv, Emptied
  PROVE  conn = "up" /\ armed = {}
BY DEF TimersInv, Quiet, Emptied, Up

\* So a callback that leaves the timers alone keeps their invariants.
LEMMA CallbackTimers ==
  ASSUME TimersInv, Emptied, UNCHANGED <<conn, armed>>
  PROVE  TimersInv'
<1>1. conn' = "up" /\ armed' = {}
  BY EmptiedTimers
<1> QED BY <1>1, NoneArmed

\* CloseConnection() records the only timer that is armed.
LEMMA CloseConnectionTimers ==
  ASSUME TimersInv, Emptied, CloseConnection, conn' = conn,
         callback' # "file", ~output'
  PROVE  TimersInv'
<1>1. conn' = "up" /\ armed = {}
  BY EmptiedTimers
<1>2. armed' \subseteq {connection_timer_id_', keep_alive_timer_id_'}
  BY <1>1 DEF CloseConnection, timers
<1> QED
  BY <1>1, <1>2 DEF TimersInv, Quiet, ArmedIsRecorded, NothingOutlivesSession,
                    NoTimerDuringTransfer

\* The timer invariants are inductive.
LEMMA NextTimersInv ==
  ASSUME TimersInv, [Next]_vars
  PROVE  TimersInv'
<1>1. CASE Connect
  BY <1>1 DEF TimersInv, Quiet, ArmedIsRecorded, NothingOutlivesSession,
              NoTimerDuringTransfer, Connect, transfer
<1>2. CASE Disconnect
  <2>1. conn' = "down" /\ callback' = "none" /\ ~output'
    BY <1>2 DEF Disconnect
  <2>2. armed' = {}
    BY <1>2 DEF TimersInv, ArmedIsRecorded, Disconnect, CancelledByTeardown
  <2> QED
    BY <2>1, <2>2 DEF TimersInv, Quiet, ArmedIsRecorded, NothingOutlivesSession,
                      NoTimerDuringTransfer
<1>3. CASE TimerFires
  BY <1>3 DEF TimersInv, Quiet, ArmedIsRecorded, NothingOutlivesSession,
              NoTimerDuringTransfer, TimerFires, Up, transfer
<1>4. CASE OnShort
  BY <1>4, HearTimers DEF OnShort
<1>5. CASE OnShortBody
  BY <1>5, HearTimers DEF OnShortBody
<1>6. CASE OnError
  BY <1>6, HearTimers DEF OnError
<1>7. ASSUME NEW size \in Sizes, OnUnopened(size) PROVE TimersInv'
  BY <1>7, HearTimers DEF OnUnopened
<1>8. ASSUME NEW size \in Sizes, OnUnreadable(size) PROVE TimersInv'
  BY <1>8, HearTimers DEF OnUnreadable
<1>9. ASSUME NEW size \in Sizes, NEW ka \in BOOLEAN, OnStatic(size, ka) PROVE TimersInv'
  BY <1>9, HearTimers DEF OnStatic
<1>10. ASSUME NEW ka \in BOOLEAN, OnDynamic(ka) PROVE TimersInv'
  BY <1>10, HearTimers DEF OnDynamic
<1>11. CASE NoCallback
  BY <1>11, CallbackTimers DEF NoCallback, timers
<1>12. CASE LastWriteComplete
  BY <1>12, CloseConnectionTimers DEF LastWriteComplete, transfer
<1>13. CASE SendFile
  BY <1>13, CallbackTimers DEF SendFile, timers
<1>14. CASE SendFileEnds
  BY <1>14, CloseConnectionTimers DEF SendFileEnds
<1>15. CASE SendFileFails
  <2>1. conn' = "up" /\ armed' = {}
    BY <1>15, EmptiedTimers DEF SendFileFails
  <2> QED BY <2>1, NoneArmed
<1>16. CASE SendFileOfMmap
  BY <1>16, CallbackTimers DEF SendFileOfMmap, timers
<1>17. CASE SendFileOfMmapFaults
  BY <1>17, CallbackTimers DEF SendFileOfMmapFaults, timers
<1>18. CASE UNCHANGED vars
  BY <1>18 DEF TimersInv, Quiet, ArmedIsRecorded, NothingOutlivesSession,
               NoTimerDuringTransfer, vars, timers, transfer
<1> QED
  BY <1>1, <1>2, <1>3, <1>4, <1>5, <1>6, <1>7, <1>8, <1>9, <1>10, <1>11,
     <1>12, <1>13, <1>14, <1>15, <1>16, <1>17, <1>18
     DEF Next, OnMessage, OnWriteComplete

\* The timer invariants hold in every reachable state.
THEOREM TimersHold == Spec => []TimersInv
BY InitTimersInv, NextTimersInv, PTL DEF Spec

\* CloseConnection() never loses the id of a timer that is armed.
THEOREM ArmedIsAlwaysRecorded == Spec => []ArmedIsRecorded
<1>1. TimersInv => ArmedIsRecorded
  BY DEF TimersInv
<1> QED BY <1>1, TimersHold, PTL

\* No timer and no callback refers to a session after its connection is down.
THEOREM SessionIsLast == Spec => []NothingOutlivesSession
<1>1. TimersInv => NothingOutlivesSession
  BY DEF TimersInv
<1> QED BY <1>1, TimersHold, PTL

\* No timer interrupts a file.
THEOREM FilesAreNotInterrupted == Spec => []NoTimerDuringTransfer
<1>1. TimersInv => NoTimerDuringTransfer
  BY DEF TimersInv
<1> QED BY <1>1, TimersHold, PTL

-----------------------------------------------------------------------------
(* Files                                                                   *)

\* While a file that found cache_filesize_ zero is being sent, the counters tell
\* how much of it has been sent; once it has been, no callback adds to it.
Progress ==
  /\ Up /\ reply.kind = "static" /\ reply.fresh =>
       \/ /\ callback = "file" /\ output /\ ~shut
          /\ captured = reply.size /\ cur_filesize_ = reply.size
          /\ cache_filesize_ < reply.size
          /\ reply.sent = Bytes(0, cache_filesize_)
       \/ callback = "last" /\ reply.sent = Bytes(0, reply.size)
  /\ reply.kind = "done" => callback # "file"
  /\ conn = "new" => reply.kind = "none"
  /\ FreshFileIsExact

\* A new connection has sent nothing.
LEMMA InitProgress == Init => Progress
BY DEF Init, Progress, FreshFileIsExact, Reply

\* The progress of a fresh file is inductive.
LEMMA NextProgress ==
  ASSUME TypeOK, TimersInv, Progress, [Next]_vars
  PROVE  Progress'
<1> USE DEF TypeOK, Replies, TimersInv, Quiet, Progress, FreshFileIsExact
<1>1. CASE Connect
  BY <1>1 DEF Connect, Up
<1>2. CASE Disconnect
  BY <1>2 DEF Disconnect, Up
<1>3. CASE TimerFires
  BY <1>3 DEF TimerFires, transfer, Up
<1>4. CASE OnShort
  BY <1>4 DEF OnShort, transfer, Hear, Up
<1>5. CASE OnShortBody
  BY <1>5 DEF OnShortBody, transfer, Hear, Up
<1>6. CASE OnError
  BY <1>6 DEF OnError, ErrorResponse, Reply, Hear, Up
<1>7. ASSUME NEW size \in Sizes, OnUnopened(size) PROVE Progress'
  BY <1>7 DEF OnUnopened, ErrorResponse, Reply, Hear, Up
<1>8. ASSUME NEW size \in Sizes, OnUnreadable(size) PROVE Progress'
  BY <1>8 DEF OnUnreadable, Hear, Up
<1>9. ASSUME NEW size \in Sizes, NEW ka \in BOOLEAN, OnStatic(size, ka) PROVE Progress'
  <2> DEFINE readn == Least(BufferSize - HeaderSize, size)
             first == IF shut THEN <<>> ELSE Bytes(0, readn)
  <2>1. readn \in Nat /\ readn <= size /\ size \in Nat
    <3>1. size \in Nat /\ BufferSize - HeaderSize \in Nat
      BY SizesAssumption
    <3> QED BY <3>1, LeastIsLeast
  <2>2. reply' = Reply("static", size, first, ka)
    BY <1>9 DEF OnStatic
  <2>3. /\ reply'.kind = "static" /\ reply'.size = size
        /\ reply'.fresh => /\ ~shut /\ cache_filesize_ = 0
                          /\ reply'.sent = Bytes(0, readn)
    BY <2>2 DEF Reply
  <2>4. /\ conn' # "new"
        /\ ~shut => ~shut' /\ output'
    BY <1>9 DEF OnStatic, Hear, Up, Send
  <2>5. CASE readn < size
    <3>1. /\ callback' = "file" /\ captured' = size /\ cur_filesize_' = size
          /\ cache_filesize_' = cache_filesize_ + readn
      BY <1>9, <2>1, <2>5 DEF OnStatic, Counted
    <3> QED BY <2>1, <2>3, <2>4, <2>5, <3>1
  <2>6. CASE readn = size
    <3>1. callback' = "last"
      BY <1>9, <2>1, <2>6 DEF OnStatic
    <3> QED BY <2>3, <2>4, <2>6, <3>1
  <2> QED BY <2>1, <2>5, <2>6
<1>10. ASSUME NEW ka \in BOOLEAN, OnDynamic(ka) PROVE Progress'
  BY <1>10 DEF OnDynamic, Reply, Hear, Up
<1>11. CASE NoCallback
  BY <1>11 DEF NoCallback, transfer, Emptied, Up
<1>12. CASE LastWriteComplete
  BY <1>12 DEF LastWriteComplete, Answered, transfer, Emptied, Up
<1>13. CASE SendFile
  <2> DEFINE readn == Least(BufferSize, captured - cache_filesize_)
  <2>1. /\ conn' = conn /\ conn # "new" /\ reply'.kind = reply.kind /\ reply.kind # "done"
        /\ reply'.fresh = reply.fresh /\ reply'.size = reply.size
        /\ shut' = shut /\ Up /\ cur_filesize_' = cur_filesize_
    BY <1>13 DEF SendFile, SendsPart, Emptied, Up
  <2>2. SUFFICES ASSUME reply.kind = "static", reply.fresh
                 PROVE  Progress'
    BY <2>1
  <2>3. /\ ~shut /\ captured = reply.size /\ cur_filesize_ = reply.size
        /\ cache_filesize_ < reply.size /\ reply.sent = Bytes(0, cache_filesize_)
    BY <1>13, <2>1, <2>2 DEF SendFile
  <2>4. readn \in Nat /\ cache_filesize_ + readn <= reply.size
    BY <2>3, SizesAssumption DEF Least
  <2>5. reply'.sent = Bytes(0, cache_filesize_ + readn) /\ output'
    <3>1. reply'.sent = reply.sent \o Bytes(cache_filesize_, readn) /\ output'
      BY <1>13, <2>3 DEF SendFile, SendsPart
    <3> QED BY <2>3, <2>4, <3>1, BytesJoin
  <2>6. CASE cur_filesize_ = cache_filesize_ + readn
    <3>1. callback' = "last"
      BY <1>13, <2>6 DEF SendFile, AfterLast
    <3> QED BY <2>1, <2>2, <2>3, <2>5, <2>6, <3>1
  <2>7. CASE cur_filesize_ # cache_filesize_ + readn
    <3>1. /\ callback' = "file" /\ captured' = captured
          /\ cache_filesize_' = cache_filesize_ + readn
      BY <1>13, <2>7 DEF SendFile
    <3>2. cache_filesize_' < reply.size
      BY <2>3, <2>4, <2>7, <3>1, SizesAssumption
    <3> QED BY <2>1, <2>2, <2>3, <2>5, <3>1, <3>2
  <2> QED BY <2>6, <2>7
<1>14. CASE SendFileEnds
  BY <1>14, SizesAssumption DEF SendFileEnds, Answered, Emptied, Up
<1>15. CASE SendFileFails
  BY <1>15 DEF SendFileFails, Reply, Emptied, Up
<1>16. CASE SendFileOfMmap
  <2> DEFINE n == Least(BufferSize, Left)
  <2>1. /\ conn' = conn /\ conn # "new" /\ reply'.kind = reply.kind /\ reply.kind # "done"
        /\ reply'.fresh = reply.fresh /\ reply'.size = reply.size
        /\ shut' = shut /\ Up /\ cur_filesize_' = cur_filesize_
    BY <1>16 DEF SendFileOfMmap, SendsPart, Emptied, Up
  <2>2. SUFFICES ASSUME reply.kind = "static", reply.fresh
                 PROVE  Progress'
    BY <2>1
  <2>3. /\ ~shut /\ captured = reply.size /\ cur_filesize_ = reply.size
        /\ cache_filesize_ < reply.size /\ reply.sent = Bytes(0, cache_filesize_)
    BY <1>16, <2>1, <2>2 DEF SendFileOfMmap
  <2>4. Left = reply.size - cache_filesize_ /\ Left \in Nat
    <3>1. reply.size \in Nat /\ reply.size < WordSize /\ WordSize \in Nat \ {0}
      <4>1. reply.size \in Sizes \cup {0}
        OBVIOUS
      <4> QED BY <4>1, SizeFits
    <3>2. /\ cur_filesize_ - cache_filesize_ \in Nat
          /\ cur_filesize_ - cache_filesize_ < WordSize
      BY <2>3, <3>1
    <3>3. Left = cur_filesize_ - cache_filesize_
      BY <3>1, <3>2, SmallRemainder DEF Left
    <3> QED BY <2>3, <3>2, <3>3
  <2>5. n \in Nat /\ n <= Left /\ BufferSize \in Nat
    BY <2>4, SizesAssumption, LeastIsLeast
  <2>6. reply'.sent = Bytes(0, cache_filesize_ + n) /\ output'
    <3>1. reply'.sent = reply.sent \o Bytes(cache_filesize_, n) /\ output'
      BY <1>16, <2>3 DEF SendFileOfMmap, SendsPart
    <3> QED BY <2>3, <2>5, <3>1, BytesJoin
  <2>7. CASE Left > BufferSize
    <3>1. /\ callback' = "file" /\ captured' = captured
          /\ cache_filesize_' = cache_filesize_ + n
      BY <1>16, <2>7 DEF SendFileOfMmap
    <3>2. n = BufferSize
      BY <2>4, <2>5, <2>7 DEF Least
    <3>3. cache_filesize_' < reply.size
      BY <2>3, <2>4, <2>5, <2>7, <3>1, <3>2, SizesAssumption
    <3> QED BY <2>1, <2>2, <2>3, <2>6, <3>1, <3>3
  <2>8. CASE ~(Left > BufferSize)
    <3>1. callback' = "last"
      BY <1>16, <2>8 DEF SendFileOfMmap, AfterLast
    <3>2. n = Left
      BY <2>4, <2>5, <2>8 DEF Least
    <3>3. cache_filesize_ + n = reply.size
      BY <2>3, <2>4, <3>2, SizesAssumption
    <3> QED BY <2>1, <2>2, <2>6, <3>1, <3>3
  <2> QED BY <2>7, <2>8
<1>17. CASE SendFileOfMmapFaults
  BY <1>17 DEF SendFileOfMmapFaults, transfer, Emptied, Up
<1>18. CASE UNCHANGED vars
  BY <1>18 DEF vars, transfer, Up
<1> QED
  BY <1>1, <1>2, <1>3, <1>4, <1>5, <1>6, <1>7, <1>8, <1>9, <1>10, <1>11,
     <1>12, <1>13, <1>14, <1>15, <1>16, <1>17, <1>18
     DEF Next, OnMessage, OnWriteComplete

\* The first file on a connection arrives byte for byte, whatever its size and
\* that of the buffer, with pread() and with mmap().
THEOREM FreshFilesAreExact == Spec => []FreshFileIsExact
<1>1. Progress => FreshFileIsExact
  BY DEF Progress
<1> QED
  BY <1>1, InitTypeOK, NextTypeOK, InitTimersInv, NextTimersInv,
     InitProgress, NextProgress, PTL DEF Spec
=============================================================================
