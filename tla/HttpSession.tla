---------------------------- MODULE HttpSession ----------------------------
(***************************************************************************)
(* One connection and the HttpSession that serves it: its two timers, the  *)
(* write-complete callback that carries on a file transfer, the transfer's *)
(* two 64-bit counters, and the way a response ends (keep-alive timer or   *)
(* ShutdownWrite()).                                                       *)
(*                                                                         *)
(* All of it runs on the connection's I/O thread, so a handler is atomic;  *)
(* what interleaves is messages from the client, emptyings of the output   *)
(* buffer, timers and the disconnection.  The kanon library is external:   *)
(*  - Send() appends to the output buffer, and does nothing once           *)
(*    ShutdownWrite() has been called;                                     *)
(*  - each time the output buffer has been emptied, the write-complete     *)
(*    callback installed at that time is called once;                      *)
(*  - a timer runs its callback once, unless it is cancelled before.       *)
(*                                                                         *)
(* Sizes are in units of which BufferSize make kFileBufferSize_.  A byte   *)
(* of a file is its offset.  OnMessage() parses with a parser of its own   *)
(* (see HttpParser): here only the outcome of the parse matters.           *)
(***************************************************************************)
EXTENDS Integers, Sequences

CONSTANTS BufferSize,  \* kFileBufferSize_
          HeaderSize,  \* the response header of a static page
          Sizes,       \* the sizes of the files of the site
          WordSize,    \* 2^64
          TimerIds, NoTimer,
          MaxMessages, \* bound: messages of the client on one connection
          MaxOffset    \* bound: how far reads past the end of a mapping get

ASSUME SizesAssumption == /\ HeaderSize \in Nat /\ BufferSize \in Nat
                          /\ HeaderSize < BufferSize
                          /\ Sizes \subseteq Nat /\ MaxOffset \in Nat
                          /\ WordSize \in Nat \ {0}
                          /\ \A s \in Sizes : s < WordSize
ASSUME TimersAssumption == NoTimer \notin TimerIds /\ MaxMessages \in Nat

VARIABLES use_mmap,             \* g_config.use_mmap, read at startup
          conn,                 \* "new", "up" or "down"
          loop,                 \* the I/O thread: "running", "hung" or "crashed"
          connection_timer_id_, keep_alive_timer_id_,
          armed,                \* the timers that will fire
          callback,             \* write-complete: "none", "file" or "last"
          captured,             \* the size of the file the callback refers to
          cur_filesize_, cache_filesize_,
          output,               \* the output buffer holds bytes
          shut,                 \* ShutdownWrite() has been called
          heard,                \* messages so far
          reply                 \* history: the response being sent

timers == <<connection_timer_id_, keep_alive_timer_id_, armed>>
transfer == <<callback, captured, cur_filesize_, cache_filesize_>>
vars == <<use_mmap, conn, loop, timers, transfer, output, shut, heard, reply>>

\* What the client was last answered: for a file the bytes it was sent, and
\* whether at the start of the response cache_filesize_ was zero (fresh) and
\* the response before it had left the output buffer (alone), and the
\* connection had not been shut down.
Reply(kind, size, sent, keepAlive) ==
  [kind |-> kind, size |-> size, sent |-> sent, keepAlive |-> keepAlive,
   fresh |-> ~shut /\ cache_filesize_ = 0, alone |-> ~shut /\ ~output]

Init == /\ use_mmap \in BOOLEAN
        /\ conn = "new" /\ loop = "running"
        /\ connection_timer_id_ = NoTimer /\ keep_alive_timer_id_ = NoTimer
        /\ armed = {}
        /\ callback = "none" /\ captured = 0
        /\ cur_filesize_ = 0 /\ cache_filesize_ = 0
        /\ output = FALSE /\ shut = FALSE
        /\ heard = 0
        /\ reply = Reply("none", 0, <<>>, FALSE)

Up == conn = "up" /\ loop = "running"

FreshTimers == TimerIds \ (armed \cup {connection_timer_id_, keep_alive_timer_id_})

\* The bytes from offset a on, n of them.
Bytes(a, n) == [i \in 1..n |-> a + i - 1]
Least(a, b) == IF a < b THEN a ELSE b

\* Send() from a handler, and from the callback, which finds the buffer empty.
Send == output' = (output \/ ~shut)
SendsPart(bytes) == /\ output' = ~shut
                    /\ reply' = IF shut THEN reply ELSE [reply EXCEPT !.sent = @ \o bytes]

-----------------------------------------------------------------------------
(* HttpServer's connection callback, Setup() and Teardown()                *)

Connect ==
  /\ conn = "new" /\ conn' = "up"
  /\ \E t \in FreshTimers : connection_timer_id_' = t /\ armed' = armed \cup {t}
  /\ UNCHANGED <<use_mmap, loop, keep_alive_timer_id_, transfer, output, shut, heard, reply>>

\* (The first form forgets the keep-alive timer.)
CancelledByTeardownOne == {connection_timer_id_}
CancelledByTeardown == {keep_alive_timer_id_, connection_timer_id_}

Disconnect ==
  /\ Up /\ conn' = "down"
  /\ callback' = "none" /\ captured' = 0
  /\ armed' = armed \ CancelledByTeardown
  /\ keep_alive_timer_id_' = NoTimer /\ connection_timer_id_' = NoTimer
  /\ output' = FALSE
  /\ UNCHANGED <<use_mmap, loop, cur_filesize_, cache_filesize_, shut, heard, reply>>

\* Both timers only call ShutdownWrite().
TimerFires ==
  /\ Up
  /\ \E t \in armed : armed' = armed \ {t}
  /\ shut' = TRUE
  /\ UNCHANGED <<use_mmap, conn, loop, connection_timer_id_, keep_alive_timer_id_,
                 transfer, output, heard, reply>>

-----------------------------------------------------------------------------
(* OnMessage()                                                             *)

\* The timers a message cancels.  (The first two forms forget one.)
CancelledByMessageOne == {connection_timer_id_}
CancelledByMessageOther == {keep_alive_timer_id_}
CancelledByMessage == {connection_timer_id_, keep_alive_timer_id_}

Hear ==
  /\ Up /\ heard < MaxMessages /\ heard' = heard + 1
  /\ armed' = armed \ CancelledByMessage
  /\ connection_timer_id_' = IF connection_timer_id_ \in CancelledByMessage
                             THEN NoTimer ELSE connection_timer_id_
  /\ keep_alive_timer_id_' = IF keep_alive_timer_id_ \in CancelledByMessage
                             THEN NoTimer ELSE keep_alive_timer_id_
  /\ UNCHANGED <<use_mmap, conn>>

\* kShort: the handler waits for more, and no timer is armed.  A response that
\* is still being sent goes on.
OnShort ==
  /\ Hear
  /\ reply' = [reply EXCEPT !.kind = IF output THEN @ ELSE "short"]
  /\ UNCHANGED <<loop, transfer, output, shut>>

\* A body that has not arrived in full: Parse() does not return.
OnShortBody ==
  /\ Hear
  /\ loop' = "hung"
  /\ UNCHANGED <<transfer, output, shut, reply>>

\* SendErrorResponse(), once OnMessage() has cancelled the timers.
ErrorResponse ==
  /\ Send /\ shut' = TRUE
  /\ reply' = Reply("error", 0, <<>>, FALSE)

\* kError, an unimplemented method, a file that is missing or not readable, a
\* plugin that cannot be opened.
OnError ==
  /\ Hear /\ ErrorResponse
  /\ UNCHANGED <<loop, transfer>>

\* GetFd() or GetAddr() returns nullptr: the size is recorded already.
OnUnopened(size) ==
  /\ Hear /\ ErrorResponse
  /\ cur_filesize_' = size
  /\ UNCHANGED <<loop, callback, captured, cache_filesize_>>

\* The first pread() fails: AddBody() is given the length -1.  (If it took that,
\* the first form would follow: the counter goes below zero.)
OnUnreadableUnnoticed(size) ==
  /\ Hear /\ Send /\ ~use_mmap
  /\ cur_filesize_' = size /\ captured' = size
  /\ cache_filesize_' = cache_filesize_ - 1
  /\ callback' = "file"
  /\ reply' = Reply("static", size, <<>>, TRUE)
  /\ UNCHANGED <<loop, shut>>

OnUnreadable(size) ==
  /\ Hear /\ ~use_mmap
  /\ loop' = "crashed"
  /\ cur_filesize_' = size
  /\ UNCHANGED <<callback, captured, cache_filesize_, output, shut, reply>>

\* The counter after the first part.  (The first form does not count it.)
CountedNever(readn) == cache_filesize_
Counted(readn) == cache_filesize_ + readn

\* ServeFile() sends the header and the first part, and leaves the rest to the
\* callback.  (mmap() of an empty file fails: that is OnUnopened().)
OnStatic(size, keepAlive) ==
  LET readn == Least(BufferSize - HeaderSize, size)
      first == IF shut THEN <<>> ELSE Bytes(0, readn)
  IN /\ Hear /\ Send
     /\ use_mmap => size > 0
     /\ cur_filesize_' = size
     /\ reply' = Reply("static", size, first, keepAlive)
     /\ \/ /\ readn < size
           /\ callback' = "file" /\ captured' = size
           /\ cache_filesize_' = Counted(readn)
        \/ /\ readn = size
           /\ callback' = "last" /\ captured' = 0
           /\ UNCHANGED cache_filesize_
     /\ UNCHANGED <<loop, shut>>

\* ServeDynamicContent(): the plugin sends one response and installs nothing,
\* so an earlier response's callback stays.
OnDynamic(keepAlive) ==
  /\ Hear /\ Send
  /\ reply' = Reply("dynamic", 0, <<>>, keepAlive)
  /\ UNCHANGED <<loop, transfer, shut>>

OnMessage == \/ OnShort \/ OnShortBody \/ OnError
             \/ \E size \in Sizes : \/ OnUnopened(size) \/ OnUnreadable(size)
                                    \/ \E ka \in BOOLEAN : OnStatic(size, ka)
             \/ \E ka \in BOOLEAN : OnDynamic(ka)

-----------------------------------------------------------------------------
(* The output buffer has been emptied: the write-complete callback         *)

\* CloseConnection(): the callback refers to the HttpRequest of an OnMessage()
\* that has returned, so is_keep_alive reads as anything.
CloseConnection ==
  \/ /\ \E t \in FreshTimers : keep_alive_timer_id_' = t /\ armed' = armed \cup {t}
     /\ UNCHANGED <<connection_timer_id_, shut>>
  \/ shut' = TRUE /\ UNCHANGED timers

Emptied == Up /\ output
Answered == reply' = IF reply.kind = "static" THEN [reply EXCEPT !.kind = "done"] ELSE reply

NoCallback ==
  /\ Emptied /\ callback = "none"
  /\ output' = FALSE
  /\ UNCHANGED <<use_mmap, conn, loop, timers, transfer, shut, heard, reply>>

\* The callback of SetLastWriteComplete(); it stays installed.
LastWriteComplete ==
  /\ Emptied /\ callback = "last"
  /\ output' = FALSE
  /\ Answered
  /\ CloseConnection
  /\ UNCHANGED <<use_mmap, conn, loop, transfer, heard>>

\* What follows the last part of a file.  (The first form installs nothing.)
AfterLastNothing == "none"
AfterLast == "last"

\* pread() reads a part and it is the last when the counters agree.
SendFile ==
  LET readn == Least(BufferSize, captured - cache_filesize_)
  IN /\ Emptied /\ callback = "file" /\ ~use_mmap
     /\ readn > 0
     /\ cache_filesize_' = cache_filesize_ + readn
     /\ IF cur_filesize_ = cache_filesize_ + readn
        THEN callback' = AfterLast /\ captured' = 0
        ELSE UNCHANGED <<callback, captured>>
     /\ SendsPart(Bytes(cache_filesize_, readn))
     /\ UNCHANGED <<use_mmap, conn, loop, timers, cur_filesize_, shut, heard>>

\* pread() is past the end of the file.
SendFileEnds ==
  /\ Emptied /\ callback = "file" /\ ~use_mmap
  /\ captured <= cache_filesize_
  /\ callback' = "none" /\ captured' = 0
  /\ output' = FALSE
  /\ Answered
  /\ CloseConnection
  /\ UNCHANGED <<use_mmap, conn, loop, cur_filesize_, cache_filesize_, heard>>

\* pread() fails: an error response follows the part already sent, and the
\* callback stays.
SendFileFails ==
  /\ Emptied /\ callback = "file" /\ ~use_mmap
  /\ output' = ~shut /\ shut' = TRUE
  /\ armed' = armed \ {keep_alive_timer_id_} /\ keep_alive_timer_id_' = NoTimer
  /\ reply' = Reply("error", 0, <<>>, FALSE)
  /\ UNCHANGED <<use_mmap, conn, loop, connection_timer_id_, transfer, heard>>

\* The counters are unsigned.
Left == (cur_filesize_ - cache_filesize_) % WordSize

\* A part from the mapping.  Beyond its end there are the bytes of whatever is
\* mapped there, if anything.
SendFileOfMmap ==
  LET n == Least(BufferSize, Left)
      end == cache_filesize_ + n
  IN /\ Emptied /\ callback = "file" /\ use_mmap
     /\ end <= captured \/ end <= MaxOffset
     /\ IF Left > BufferSize
        THEN cache_filesize_' = end /\ UNCHANGED <<callback, captured>>
        ELSE callback' = AfterLast /\ captured' = 0 /\ UNCHANGED cache_filesize_
     /\ SendsPart(Bytes(cache_filesize_, n))
     /\ UNCHANGED <<use_mmap, conn, loop, timers, cur_filesize_, shut, heard>>

SendFileOfMmapFaults ==
  /\ Emptied /\ callback = "file" /\ use_mmap
  /\ cache_filesize_ + Least(BufferSize, Left) > captured
  /\ loop' = "crashed"
  /\ UNCHANGED <<use_mmap, conn, timers, transfer, output, shut, heard, reply>>

OnWriteComplete == \/ NoCallback \/ LastWriteComplete
                   \/ SendFile \/ SendFileEnds \/ SendFileFails
                   \/ SendFileOfMmap \/ SendFileOfMmapFaults

-----------------------------------------------------------------------------
Next == \/ Connect \/ Disconnect \/ TimerFires
        \/ OnMessage \/ OnWriteComplete

Spec == Init /\ [][Next]_vars

\* The loop runs a timer that is due, and a client that reads lets the output
\* buffer empty; nothing makes the client send or disconnect.
FairSpec == Spec /\ WF_vars(TimerFires) /\ WF_vars(OnWriteComplete)

-----------------------------------------------------------------------------
(* Properties                                                              *)

Kinds == {"none", "short", "static", "done", "dynamic", "error"}
Replies == [kind : Kinds, size : Sizes \cup {0}, sent : Seq(Nat),
            keepAlive : BOOLEAN, fresh : BOOLEAN, alone : BOOLEAN]

\* Every variable has its type.
TypeOK ==
  /\ use_mmap \in BOOLEAN /\ output \in BOOLEAN /\ shut \in BOOLEAN
  /\ conn \in {"new", "up", "down"} /\ loop \in {"running", "hung", "crashed"}
  /\ connection_timer_id_ \in TimerIds \cup {NoTimer}
  /\ keep_alive_timer_id_ \in TimerIds \cup {NoTimer}
  /\ armed \in SUBSET TimerIds
  /\ callback \in {"none", "file", "last"} /\ captured \in Sizes \cup {0}
  /\ cur_filesize_ \in Sizes \cup {0} /\ cache_filesize_ \in Nat
  /\ heard \in 0..MaxMessages
  /\ reply \in Replies

\* A timer that will fire is one the session has recorded, so the next message
\* or the disconnection can cancel it: CloseConnection() never overwrites the
\* id of a timer that is still armed, however responses, stale callbacks and
\* messages follow each other.
ArmedIsRecorded == armed \subseteq {connection_timer_id_, keep_alive_timer_id_}

\* When the connection is down neither a timer nor the write-complete callback
\* refers to the session that is being destroyed.
NothingOutlivesSession == conn = "down" => armed = {} /\ callback = "none"

\* No timer can shut the connection down in the middle of a file.
NoTimerDuringTransfer == callback = "file" => armed = {}

\* The first file on a connection that needs more than one part arrives byte
\* for byte, in order, once; with pread() and with mmap().
FreshFileIsExact ==
  reply.kind = "done" /\ reply.fresh => reply.sent = Bytes(0, reply.size)

\* A client that falls silent, and reads, after connecting or after asking for
\* a file is shut down in the end: some timer or ShutdownWrite() is always
\* ahead of it.  (After kShort and after a dynamic page nothing is.)
AwaitsClose == Up /\ ~shut /\ reply.kind \in {"none", "static", "done"}
SilentClientIsClosed == AwaitsClose ~> ~AwaitsClose

\* Every file asked for when the response before it is complete arrives byte
\* for byte: "to support long connection to reuse this connection"
\* (http_session.h:88).  Does not hold: ServeFile() never resets
\* cache_filesize_.
EveryFileIsExact ==
  reply.kind = "done" /\ reply.alone => reply.sent = Bytes(0, reply.size)

\* The end of a response to a keep-alive request leaves the connection open, as
\* README_en.md:5 promises.  Does not hold: the callback reads the request of a
\* handler that has returned.
KeepAliveIsHonoured ==
  [][reply.kind = "static" /\ reply'.kind = "done" /\ reply.keepAlive
       => shut' = shut]_vars
=============================================================================
