---------------------------- MODULE CgiExchange ----------------------------
(***************************************************************************)
(* HttpServer::ExecuteCgi() of version 1.  The loop, which is the only     *)
(* thread, makes two pipes, forks, writes the body of a POST to one and    *)
(* sends on what it reads from the other until there is no writer left.    *)
(* The child redirects its standard streams and executes a program, which  *)
(* is the adder of cgi/src: it reads the body, then writes it again and a  *)
(* page after it.                                                          *)
(*                                                                         *)
(* The processes interleave at every system call.  No pipe end has the     *)
(* close-on-exec flag and Pipe has no destructor, so ends are inherited by *)
(* every later child and stay open until they are closed by name.          *)
(*                                                                         *)
(* Process 0 is the server, process x its child of the x-th exchange.      *)
(***************************************************************************)
EXTENDS Integers, FiniteSets, SequencesExt

CONSTANTS Exchanges,      \* bound: how many requests there are
          MaxDescriptors, \* how many pipe ends the server can have open
          Capacity,       \* how much a pipe holds
          BufferSize,     \* sizeof buf
          MaxLength,      \* bound: the longest body
          PageLength      \* how much the program writes of its own

ASSUME ConstantsAssumption ==
  /\ Exchanges \in Nat /\ MaxDescriptors \in Nat /\ MaxLength \in Nat /\ PageLength \in Nat
  /\ Capacity \in Nat \ {0} /\ BufferSize \in Nat \ {0}

VARIABLES pc,       \* where the loop is in ExecuteCgi()
          requests, \* the requests so far, the last one is being answered
          left,     \* what Pipe::Write() has still to write
          buf,      \* what Pipe::Read() has read
          sent,     \* what each client has been sent
          shut,     \* the clients after ShutdownWrite()
          holds,    \* the pipe ends that each process has open
          pipe,     \* what is in each pipe
          child     \* the state of each child, its stdin and stdout

vars == <<pc, requests, left, buf, sent, shut, holds, pipe, child>>

Server == 0
Processes == 0..Exchanges
Pipes == (1..Exchanges) \X {"input", "output"}
Ends == Pipes \X {"read", "write"}

Input(x) == <<x, "input">>
Output(x) == <<x, "output">>
EndsOf(p) == {<<p, "read">>, <<p, "write">>}
IsOpen(end) == \E q \in Processes : end \in holds[q]

\* A byte sent to a client or through a pipe: of the status line, of the body, of the
\* page, or one that lies behind what has arrived of the body.
Status == <<"status", 0>>
Page == [k \in 1..PageLength |-> <<"page", k>>]

\* length is the Content-Length, of which so much has arrived; the program may not be
\* found, or its path not be accepted (the child asserts that a POST has no query);
\* the client may ask for the connection to be closed.
Requests ==
  {r \in [method : {"GET", "POST"}, length : 0..MaxLength, arrived : 0..MaxLength,
          found : BOOLEAN, close : BOOLEAN] :
     r.arrived <= r.length /\ (r.method = "GET" => r.length = 0)}

\* The body that is written is Content-Length bytes from the start of the connection's
\* buffer, whether they have arrived or not.
Body(r) == [k \in 1..r.length |-> <<IF k <= r.arrived THEN "body" ELSE "stale", k>>]

NoChild == [state |-> "none", stdin |-> <<>>, stdout |-> <<>>, read |-> <<>>, out |-> <<>>]

Init == /\ pc = "loop"
        /\ requests = <<>>
        /\ left = <<>> /\ buf = <<>>
        /\ sent = [x \in 1..Exchanges |-> <<>>]
        /\ shut = {}
        /\ holds = [q \in Processes |-> {}]
        /\ pipe = [p \in Pipes |-> <<>>]
        /\ child = [x \in 1..Exchanges |-> NoChild]

-----------------------------------------------------------------------------
(* The server                                                              *)

Current == Len(requests)
Request == Last(requests)

\* The pipes are made and the status line is sent.
ExecuteCgi ==
  /\ pc = "loop" /\ Current < Exchanges
  /\ Cardinality(holds[Server]) + 4 <= MaxDescriptors
  /\ \E r \in Requests : requests' = Append(requests, r)
  /\ LET x == Current + 1
     IN /\ holds' = [holds EXCEPT ![Server] = @ \cup EndsOf(Output(x)) \cup EndsOf(Input(x))]
        /\ sent' = [sent EXCEPT ![x] = <<Status>>]
  /\ pc' = "fork"
  /\ UNCHANGED <<left, buf, shut, pipe, child>>

\* pipe() has no descriptor for one of the pipes: PipeException, which nothing here
\* catches.  The output pipe is made first.
PipeThrows ==
  /\ pc = "loop" /\ Current < Exchanges
  /\ Cardinality(holds[Server]) + 4 > MaxDescriptors
  /\ holds' = IF Cardinality(holds[Server]) + 2 > MaxDescriptors THEN holds
              ELSE [holds EXCEPT ![Server] = @ \cup EndsOf(Output(Current + 1))]
  /\ pc' = "thrown"
  /\ UNCHANGED <<requests, left, buf, sent, shut, pipe, child>>

\* The child starts with all the server has open.
Fork ==
  /\ pc = "fork"
  /\ holds' = [holds EXCEPT ![Current] = holds[Server]]
  /\ child' = [child EXCEPT ![Current].state = "forked"]
  /\ pc' = "close"
  /\ UNCHANGED <<requests, left, buf, sent, shut, pipe>>

\* Fork() returns false, which ExecuteCgi() drops.  (The first form goes on as if there
\* were a child.)
ForkFailsUnnoticed == /\ pc = "fork"
                      /\ pc' = "close"
                      /\ UNCHANGED <<requests, left, buf, sent, shut, holds, pipe, child>>

ForkFails == /\ pc = "fork"
             /\ pc' = "loop"
             /\ UNCHANGED <<requests, left, buf, sent, shut, holds, pipe, child>>

\* input.CloseReadEnd(), output.CloseWriteEnd().  (The first form forgets the second.)
UnusedByServerOne(x) == {<<Input(x), "read">>}
UnusedByServer(x) == {<<Input(x), "read">>, <<Output(x), "write">>}

ServerCloses ==
  /\ pc = "close"
  /\ holds' = [holds EXCEPT ![Server] = @ \ UnusedByServer(Current)]
  /\ left' = IF Request.method = "POST" THEN Body(Request) ELSE <<>>
  /\ pc' = IF left' = <<>> THEN "read" ELSE "write"
  /\ UNCHANGED <<requests, buf, sent, shut, pipe, child>>

\* The first k of what q has to write go into pipe p, if there is room for them.
Puts(p, from, k) == /\ k + Len(pipe[p]) <= Capacity
                    /\ pipe' = [pipe EXCEPT ![p] = @ \o SubSeq(from, 1, k)]
Rest(s, k) == SubSeq(s, k + 1, Len(s))

\* Pipe::Write(), in whatever parts the pipe has room for.  (The first form writes
\* again what it has written: p is not advanced.)
LeftAfterSame(k) == SubSeq(left, 1, Len(left) - k)
LeftAfter(k) == Rest(left, k)

ServerWrites ==
  /\ pc = "write" /\ IsOpen(<<Input(Current), "read">>)
  /\ \E k \in 1..Len(left) : Puts(Input(Current), left, k) /\ left' = LeftAfter(k)
  /\ pc' = IF left' = <<>> THEN "read" ELSE "write"
  /\ UNCHANGED <<requests, buf, sent, shut, holds, child>>

\* EPIPE: the child is gone.  The result of Write() is not looked at.
WriteFails == /\ pc = "write" /\ ~IsOpen(<<Input(Current), "read">>)
              /\ left' = <<>>
              /\ pc' = "read"
              /\ UNCHANGED <<requests, buf, sent, shut, holds, pipe, child>>

\* No byte of the buffer remains to be read.  (The first form reads once more.)
FullLate(s) == Len(s) > BufferSize
Full(s) == Len(s) = BufferSize

\* Pipe::Read(), in whatever parts there are: a full buffer is sent.
ServerReads ==
  /\ pc = "read"
  /\ LET o == Output(Current)
     IN \E k \in 1..Len(pipe[o]) :
          LET got == buf \o SubSeq(pipe[o], 1, k)
          IN /\ Len(got) <= BufferSize
             /\ pipe' = [pipe EXCEPT ![o] = Rest(@, k)]
             /\ buf' = IF Full(got) THEN <<>> ELSE got
             /\ sent' = IF Full(got) THEN [sent EXCEPT ![Current] = @ \o got] ELSE sent
  /\ UNCHANGED <<pc, requests, left, shut, holds, child>>

\* read() returns 0 when nothing is left and nobody can write any more: the rest of
\* the buffer is sent, and CloseConnection() looks at the Connection header.  The
\* other two ends stay open, and the child is not waited for.
ServerReadsEnd ==
  /\ pc = "read"
  /\ pipe[Output(Current)] = <<>> /\ ~IsOpen(<<Output(Current), "write">>)
  /\ sent' = [sent EXCEPT ![Current] = @ \o buf]
  /\ buf' = <<>>
  /\ shut' = IF Request.close THEN shut \cup {Current} ELSE shut
  /\ pc' = "loop"
  /\ UNCHANGED <<requests, left, holds, pipe, child>>

-----------------------------------------------------------------------------
(* The child                                                               *)

\* input.RedirectReadEnd(), output.RedirectWriteEnd().
ChildRedirects(x) ==
  /\ child[x].state = "forked"
  /\ child' = [child EXCEPT ![x].state = "redirected", ![x].stdin = Input(x),
                            ![x].stdout = Output(x)]
  /\ UNCHANGED <<pc, requests, left, buf, sent, shut, holds, pipe>>

\* input.CloseWriteEnd(), output.CloseReadEnd().
ChildCloses(x) ==
  /\ child[x].state = "redirected"
  /\ child' = [child EXCEPT ![x].state = "closed"]
  /\ holds' = [holds EXCEPT ![x] = @ \ {<<Input(x), "write">>, <<Output(x), "read">>}]
  /\ UNCHANGED <<pc, requests, left, buf, sent, shut, pipe>>

\* exit() closes what is open: the originals of the redirected ends, too.
Exits(x) == /\ child' = [child EXCEPT ![x].state = "exited"]
            /\ holds' = [holds EXCEPT ![x] = {}]

\* What the program does once it has read s.
Writes(x, s) == child' = [child EXCEPT ![x].state = "writing", ![x].read = s,
                                       ![x].out = s \o Page]

ExecSucceeds(x) ==
  /\ child[x].state = "closed" /\ requests[x].found
  /\ IF requests[x].length = 0 THEN Writes(x, <<>>)
     ELSE child' = [child EXCEPT ![x].state = "reading"]
  /\ UNCHANGED <<pc, requests, left, buf, sent, shut, holds, pipe>>

\* perror() and exit(0).  (The first form does not exit.)
ExitsAfterNothing(x) == child' = [child EXCEPT ![x].state = "exited"] /\ UNCHANGED holds
ExitsAfterFailure(x) == Exits(x)

ExecFails(x) ==
  /\ child[x].state = "closed" /\ ~requests[x].found
  /\ ExitsAfterFailure(x)
  /\ UNCHANGED <<pc, requests, left, buf, sent, shut, pipe>>

\* fread() of CONTENT_LENGTH bytes.
ProgramReads(x) ==
  /\ child[x].state = "reading"
  /\ LET p == child[x].stdin
     IN \E k \in 1..Len(pipe[p]) :
          LET s == child[x].read \o SubSeq(pipe[p], 1, k)
          IN /\ Len(s) <= requests[x].length
             /\ pipe' = [pipe EXCEPT ![p] = Rest(@, k)]
             /\ IF Len(s) = requests[x].length THEN Writes(x, s)
                ELSE child' = [child EXCEPT ![x].read = s]
  /\ UNCHANGED <<pc, requests, left, buf, sent, shut, holds>>

ProgramWrites(x) ==
  /\ child[x].state = "writing"
  /\ \E k \in 1..Len(child[x].out) :
       /\ Puts(child[x].stdout, child[x].out, k)
       /\ child' = [child EXCEPT ![x].out = Rest(@, k)]
  /\ UNCHANGED <<pc, requests, left, buf, sent, shut, holds>>

ProgramExits(x) ==
  /\ child[x].state = "writing" /\ child[x].out = <<>>
  /\ Exits(x)
  /\ UNCHANGED <<pc, requests, left, buf, sent, shut, pipe>>

-----------------------------------------------------------------------------
ServerStep == \/ Fork \/ ForkFails \/ ServerCloses
              \/ ServerWrites \/ WriteFails \/ ServerReads \/ ServerReadsEnd

ChildStep(x) == \/ ChildRedirects(x) \/ ChildCloses(x) \/ ExecSucceeds(x) \/ ExecFails(x)
                \/ ProgramReads(x) \/ ProgramWrites(x) \/ ProgramExits(x)

Next == ExecuteCgi \/ PipeThrows \/ ServerStep \/ \E x \in 1..Exchanges : ChildStep(x)

\* The kernel runs every process that can go on.  Whether a request comes is up to the
\* clients.
Spec == /\ Init /\ [][Next]_vars
        /\ WF_vars(ServerStep) /\ \A x \in 1..Exchanges : WF_vars(ChildStep(x))

-----------------------------------------------------------------------------
(* Properties                                                              *)

TypeOK ==
  /\ pc \in {"loop", "fork", "close", "write", "read", "thrown"}
  /\ requests \in Seq(Requests) /\ Current <= Exchanges
  /\ Len(left) <= MaxLength /\ Len(buf) < BufferSize
  /\ shut \subseteq 1..Current
  /\ holds \in [Processes -> SUBSET Ends]
  /\ \A p \in Pipes : Len(pipe[p]) <= Capacity
  /\ \A x \in 1..Exchanges :
       child[x].state \in {"none", "forked", "redirected", "closed", "reading", "writing",
                           "exited"}

\* What a program writes in answer to the x-th request, if it is run at all: the body
\* and a page.
Answer(x) == IF child[x].state = "none" \/ ~requests[x].found THEN <<>>
             ELSE Body(requests[x]) \o Page

\* A client is sent the status line and then, in order and without a gap, what the
\* program of its own request writes; when the loop is back that is all of it, and
\* only then is the connection shut down.  The output of ExecuteCgi() goes through two
\* pipes, two buffers and any number of short reads and writes.
AnswerIsExact ==
  \A x \in 1..Current :
    /\ IsPrefix(sent[x], <<Status>> \o Answer(x))
    /\ x < Current \/ pc \in {"loop", "thrown"} => sent[x] = <<Status>> \o Answer(x)
    /\ x \in shut => sent[x] = <<Status>> \o Answer(x)

\* While the loop waits for the end of the output no process but the one it has just
\* forked can keep it waiting: not the server itself, and not an earlier child.
OnlyItsChildIsAwaited ==
  pc = "read" => \A q \in Processes \ {Current} : <<Output(Current), "write">> \notin holds[q]

\* What the x-th request costs for ever: the two ends that ExecuteCgi() does not close,
\* and all four when fork() has failed.
Kept(x) == IF child[x].state = "none" THEN EndsOf(Input(x)) \cup EndsOf(Output(x))
           ELSE {<<Input(x), "write">>, <<Output(x), "read">>}
KeptOpen == UNION {Kept(x) : x \in 1..Current}

\* Between two requests the server has open what the earlier ones have cost it and no
\* more.  A server that throws has used up its descriptors in this way and no other.
DescriptorsAreAccounted ==
  /\ pc = "loop" => holds[Server] = KeptOpen
  /\ pc = "thrown" => KeptOpen \subseteq holds[Server]
                      /\ Cardinality(KeptOpen) > MaxDescriptors - 4

\* The loop comes back from every exchange, whatever the lengths: it writes the whole
\* body before it reads, which the program reads before it writes.
ExchangeEnds == pc = "fork" ~> pc = "loop"
=============================================================================
