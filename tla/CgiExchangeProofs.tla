-------------------------- MODULE CgiExchangeProofs --------------------------
(***************************************************************************)
(* Proofs about CgiExchange for every number of exchanges and descriptors, *)
(* and for pipes, buffers, bodies and pages of any size and any cutting of *)
(* the reads and writes: the types, whom the loop waits for, what an       *)
(* exchange costs, and that a client is sent exactly what the program of   *)
(* its own request writes.                                                 *)
(*                                                                         *)
(* The first argument is about who has which pipe end.  The server has the *)
(* ends that earlier exchanges have cost it (KeptOpen), a child inherits   *)
(* those and the ends of its own exchange, and never gets any later: so    *)
(* nobody but the newest child can have the write end that the loop waits  *)
(* for.                                                                    *)
(*                                                                         *)
(* The second one follows the bytes of the newest exchange.  Upstream,     *)
(* what the program has read, what is in its input pipe and what the       *)
(* server has still to write make up the body; downstream, what the client *)
(* has been sent, what the server has buffered, what is in the output pipe *)
(* and what the program has still to write make up the answer.  Every step *)
(* moves a part from the front of one of these to the end of the one       *)
(* before it.                                                              *)
(***************************************************************************)
EXTENDS CgiExchange, FiniteSetTheorems, SequenceTheorems, TLAPS

States == {"none", "forked", "redirected", "closed", "reading", "writing", "exited"}
Data == {"status", "body", "stale", "page"} \X Int
Children == [state : States, stdin : Pipes \cup {<<>>}, stdout : Pipes \cup {<<>>},
             read : Seq(Data), out : Seq(Data)]

\* TypeOK leaves out what TLC need not be told: what the sequences are made of.
Members ==
  /\ left \in Seq(Data) /\ buf \in Seq(Data)
  /\ pipe \in [Pipes -> Seq(Data)]
  /\ child \in [1..Exchanges -> Children]
  /\ \A x \in 1..Exchanges : child[x].state \notin {"none", "forked", "exited"} =>
                               child[x].stdin \in Pipes /\ child[x].stdout \in Pipes

Types == TypeOK /\ Members

\* The loop has started as many exchanges as there are requests; the newest has a child
\* once fork() has succeeded, and none before.
Newest ==
  /\ pc \in {"fork", "close", "write", "read"} => Current >= 1
  /\ \A x \in 1..Exchanges : x > Current \/ (x = Current /\ pc = "fork") => child[x].state = "none"
  /\ pc \in {"close", "write", "read"} => child[Current].state # "none"

\* A child that does not exist has nothing open, and no child an end that was made
\* after it.
OlderEnds ==
  \A x \in 1..Exchanges : /\ child[x].state = "none" => holds[x] = {}
                          /\ \A end \in holds[x] : end[1][1] <= x

ServerHolds ==
  /\ pc \in {"loop", "fork", "write", "read"} => holds[Server] = KeptOpen
  /\ pc = "close" =>
       holds[Server] = KeptOpen \cup EndsOf(Input(Current)) \cup EndsOf(Output(Current))
  /\ pc = "thrown" => KeptOpen \subseteq holds[Server]
                      /\ Cardinality(KeptOpen) > MaxDescriptors - 4

Inductive == Types /\ Newest /\ OlderEnds /\ ServerHolds
-----------------------------------------------------------------------------
(* Sequences                                                               *)

\* What is taken from the front of a sequence and what remains make up its length.
LEMMA TakeAndRest ==
  ASSUME NEW s \in Seq(Data), NEW k \in 1..Len(s)
  PROVE  /\ SubSeq(s, 1, k) \in Seq(Data) /\ Len(SubSeq(s, 1, k)) = k
         /\ Rest(s, k) \in Seq(Data) /\ Len(Rest(s, k)) = Len(s) - k
BY SubSeqProperties DEF Rest

\* The length of a concatenation is the sum of the lengths.
LEMMA Joined ==
  ASSUME NEW s \in Seq(Data), NEW t \in Seq(Data)
  PROVE  s \o t \in Seq(Data) /\ Len(s \o t) = Len(s) + Len(t)
BY ConcatProperties

\* The body that is written has the length that Content-Length says.
LEMMA BodyType ==
  ASSUME NEW r \in Requests
  PROVE  Body(r) \in Seq(Data) /\ Len(Body(r)) <= MaxLength
<1>1. r.length \in Nat /\ r.length <= MaxLength
  BY ConstantsAssumption DEF Requests
<1>2. \A k \in 1..r.length : <<IF k <= r.arrived THEN "body" ELSE "stale", k>> \in Data
  BY <1>1 DEF Data
<1>3. Body(r) \in [1..r.length -> Data]
  BY <1>2 DEF Body
<1> QED
  BY <1>1, <1>3

\* The page is a sequence.
LEMMA PageType == Page \in Seq(Data)
<1>1. Page \in [1..PageLength -> Data]
  BY ConstantsAssumption DEF Page, Data
<1> QED
  BY <1>1, ConstantsAssumption

-----------------------------------------------------------------------------
(* What earlier exchanges have cost                                        *)

\* It stays the same as long as no request is added and no child is created.
LEMMA KeptOpenSame ==
  ASSUME UNCHANGED requests,
         \A x \in 1..Current : child'[x].state = "none" <=> child[x].state = "none"
  PROVE  KeptOpen' = KeptOpen
BY DEF KeptOpen, Kept, Current

\* Nothing changes hands as long as no request is added, no child is created, and
\* nobody opens or inherits an end.
LEMMA NothingChangesHands ==
  ASSUME Inductive,
         UNCHANGED requests,
         \A x \in 1..Exchanges : child'[x].state = "none" <=> child[x].state = "none",
         \A x \in 1..Exchanges : holds'[x] \subseteq holds[x],
         holds'[Server] = holds[Server],
         \/ pc' = pc
         \/ pc = "fork" /\ pc' = "loop"
         \/ pc \in {"write", "read"} /\ pc' \in {"write", "read", "loop"}
  PROVE  Newest' /\ OlderEnds' /\ ServerHolds'
<1>1. Current \in 0..Exchanges /\ Current' = Current
  BY DEF Inductive, Types, TypeOK, Current
<1>2. KeptOpen' = KeptOpen
  <2>1. \A x \in 1..Current : child'[x].state = "none" <=> child[x].state = "none"
    BY <1>1, ConstantsAssumption
  <2> QED
    BY <2>1, KeptOpenSame
<1>3. Newest'
  BY <1>1 DEF Inductive, Newest
<1>4. OlderEnds'
  BY DEF Inductive, OlderEnds
<1>5. ServerHolds'
  BY <1>1, <1>2 DEF Inductive, ServerHolds
<1> QED
  BY <1>3, <1>4, <1>5

\* What a child does to itself and to what it has: no more is needed of its steps.
LEMMA ChildChanges ==
  ASSUME Inductive, NEW x \in 1..Exchanges, NEW c \in Children,
         child' = [child EXCEPT ![x] = c],
         child[x].state # "none", c.state # "none",
         c.state \notin {"none", "forked", "exited"} => c.stdin \in Pipes /\ c.stdout \in Pipes,
         UNCHANGED <<pc, requests, left, buf, sent, shut>>,
         holds' \in [Processes -> SUBSET Ends],
         \A y \in 1..Exchanges : holds'[y] \subseteq holds[y],
         holds'[Server] = holds[Server],
         pipe' \in [Pipes -> Seq(Data)],
         \A p \in Pipes : Len(pipe'[p]) <= Capacity
  PROVE  Inductive'
<1>1. child \in [1..Exchanges -> Children] /\ child' \in [1..Exchanges -> Children]
  BY DEF Inductive, Types, Members
<1>2. Types'
  BY <1>1 DEF Inductive, Types, TypeOK, Members, Current, Children, States
<1>3. \A y \in 1..Exchanges : child'[y].state = "none" <=> child[y].state = "none"
  BY <1>1
<1>4. Newest' /\ OlderEnds' /\ ServerHolds'
  BY <1>3, NothingChangesHands
<1> QED
  BY <1>2, <1>4 DEF Inductive

\* What the server does in the middle of an exchange, short of the ends of pipes.
LEMMA ServerChanges ==
  ASSUME Inductive, UNCHANGED <<requests, holds, child>>,
         \/ pc' = pc
         \/ pc = "fork" /\ pc' = "loop"
         \/ pc \in {"write", "read"} /\ pc' \in {"write", "read", "loop"},
         left' \in Seq(Data) /\ Len(left') <= MaxLength,
         buf' \in Seq(Data) /\ Len(buf') < BufferSize,
         shut' \subseteq 1..Current,
         pipe' \in [Pipes -> Seq(Data)],
         \A p \in Pipes : Len(pipe'[p]) <= Capacity
  PROVE  Inductive'
<1>1. Types'
  BY DEF Inductive, Types, TypeOK, Members, Current
<1>2. Newest' /\ OlderEnds' /\ ServerHolds'
  BY NothingChangesHands
<1> QED
  BY <1>1, <1>2 DEF Inductive

\* A part of s that is put into a pipe leaves the pipe within its capacity.
LEMMA PutsType ==
  ASSUME Types, NEW p \in Pipes, NEW s \in Seq(Data), NEW k \in 1..Len(s), Puts(p, s, k)
  PROVE  /\ pipe' \in [Pipes -> Seq(Data)]
         /\ \A q \in Pipes : Len(pipe'[q]) <= Capacity
<1>1. pipe \in [Pipes -> Seq(Data)] /\ \A q \in Pipes : Len(pipe[q]) <= Capacity
  BY DEF Types, TypeOK, Members
<1>2. SubSeq(s, 1, k) \in Seq(Data) /\ Len(SubSeq(s, 1, k)) = k
  BY TakeAndRest
<1>3. /\ pipe[p] \o SubSeq(s, 1, k) \in Seq(Data)
      /\ Len(pipe[p] \o SubSeq(s, 1, k)) = Len(pipe[p]) + k
  BY <1>1, <1>2, Joined
<1>4. pipe' = [pipe EXCEPT ![p] = pipe[p] \o SubSeq(s, 1, k)] /\ k + Len(pipe[p]) <= Capacity
  BY DEF Puts
<1>5. Len(pipe[p] \o SubSeq(s, 1, k)) <= Capacity
  BY <1>1, <1>3, <1>4
<1> QED
  BY <1>1, <1>3, <1>4, <1>5

\* Taking a part out of a pipe leaves it within its capacity.
LEMMA TakesType ==
  ASSUME Types, NEW p \in Pipes, NEW k \in 1..Len(pipe[p]),
         pipe' = [pipe EXCEPT ![p] = Rest(@, k)]
  PROVE  /\ pipe' \in [Pipes -> Seq(Data)]
         /\ \A q \in Pipes : Len(pipe'[q]) <= Capacity
<1>1. pipe \in [Pipes -> Seq(Data)] /\ \A q \in Pipes : Len(pipe[q]) <= Capacity
  BY DEF Types, TypeOK, Members
<1>2. Rest(pipe[p], k) \in Seq(Data) /\ Len(Rest(pipe[p], k)) = Len(pipe[p]) - k
  BY <1>1, TakeAndRest
<1>3. Len(Rest(pipe[p], k)) <= Capacity
  BY <1>1, <1>2, ConstantsAssumption
<1> QED
  BY <1>1, <1>2, <1>3

\* What is known of a child, of the pipes and of the ends before any step.
LEMMA ChildBefore ==
  ASSUME Inductive, NEW x \in 1..Exchanges
  PROVE  /\ child \in [1..Exchanges -> Children] /\ child[x] \in Children
         /\ child[x].state \notin {"none", "forked", "exited"} =>
              child[x].stdin \in Pipes /\ child[x].stdout \in Pipes
         /\ holds \in [Processes -> SUBSET Ends] /\ x \in Processes /\ x # Server
         /\ pipe \in [Pipes -> Seq(Data)] /\ \A p \in Pipes : Len(pipe[p]) <= Capacity
         /\ Input(x) \in Pipes /\ Output(x) \in Pipes
         /\ child[x].state # "none" => requests[x] \in Requests
<1>1. /\ child \in [1..Exchanges -> Children]
      /\ holds \in [Processes -> SUBSET Ends]
      /\ pipe \in [Pipes -> Seq(Data)] /\ \A p \in Pipes : Len(pipe[p]) <= Capacity
      /\ child[x].state \notin {"none", "forked", "exited"} =>
              child[x].stdin \in Pipes /\ child[x].stdout \in Pipes
  BY DEF Inductive, Types, TypeOK, Members
<1>2. x \in Processes /\ x # Server /\ Input(x) \in Pipes /\ Output(x) \in Pipes
  BY ConstantsAssumption DEF Processes, Server, Input, Output, Pipes
<1>3. child[x].state # "none" => requests[x] \in Requests
  <2>1. requests \in Seq(Requests) /\ Current \in Nat
    BY DEF Inductive, Types, TypeOK, Current
  <2>2. child[x].state # "none" => x <= Current
    BY <2>1, ConstantsAssumption DEF Inductive, Newest
  <2> QED
    BY <2>1, <2>2 DEF Current
<1> QED
  BY <1>1, <1>2, <1>3

-----------------------------------------------------------------------------
(* The invariant is inductive: one lemma per action of a child             *)

\* Redirection gives the child a standard input and output.
LEMMA ChildRedirectsInductive ==
  ASSUME Inductive, NEW x \in 1..Exchanges, ChildRedirects(x)
  PROVE  Inductive'
<1> DEFINE c == [child[x] EXCEPT !.state = "redirected", !.stdin = Input(x),
                                 !.stdout = Output(x)]
<1>1. child' = [child EXCEPT ![x] = c]
  BY ChildBefore DEF ChildRedirects, Children
<1>2. c \in Children /\ c.state # "none" /\ c.stdin \in Pipes /\ c.stdout \in Pipes
  BY ChildBefore DEF Children, States
<1> QED
  BY <1>1, <1>2, ChildBefore, ChildChanges DEF ChildRedirects

\* A child that closes ends has fewer.
LEMMA ChildClosesInductive ==
  ASSUME Inductive, NEW x \in 1..Exchanges, ChildCloses(x)
  PROVE  Inductive'
<1> DEFINE c == [child[x] EXCEPT !.state = "closed"]
<1>1. child' = [child EXCEPT ![x] = c]
  BY ChildBefore DEF ChildCloses, Children
<1>2. c \in Children /\ c.state # "none" /\ c.stdin \in Pipes /\ c.stdout \in Pipes
  BY ChildBefore DEF ChildCloses, Children, States
<1>3. /\ holds' \in [Processes -> SUBSET Ends]
      /\ \A y \in 1..Exchanges : holds'[y] \subseteq holds[y]
      /\ holds'[Server] = holds[Server]
  BY ChildBefore DEF ChildCloses
<1> QED
  BY <1>1, <1>2, <1>3, ChildBefore, ChildChanges DEF ChildCloses

\* A child that exits has nothing open.
LEMMA ExitsInductive ==
  ASSUME Inductive, NEW x \in 1..Exchanges, child[x].state # "none", Exits(x),
         UNCHANGED <<pc, requests, left, buf, sent, shut, pipe>>
  PROVE  Inductive'
<1> DEFINE c == [child[x] EXCEPT !.state = "exited"]
<1>1. child' = [child EXCEPT ![x] = c]
  BY ChildBefore DEF Exits, Children
<1>2. c \in Children /\ c.state = "exited"
  BY ChildBefore DEF Children, States
<1>3. /\ holds' \in [Processes -> SUBSET Ends]
      /\ \A y \in 1..Exchanges : holds'[y] \subseteq holds[y]
      /\ holds'[Server] = holds[Server]
  BY ChildBefore DEF Exits, Processes, Server
<1> QED
  BY <1>1, <1>2, <1>3, ChildBefore, ChildChanges

\* A program that has read s has s and a page to write.
LEMMA WritesType ==
  ASSUME Inductive, NEW x \in 1..Exchanges, NEW s \in Seq(Data), Writes(x, s),
         child[x].state \notin {"none", "forked", "exited"}
  PROVE  \E c \in Children : /\ child' = [child EXCEPT ![x] = c] /\ c.state = "writing"
                             /\ c.stdin \in Pipes /\ c.stdout \in Pipes
<1> DEFINE c == [child[x] EXCEPT !.state = "writing", !.read = s, !.out = s \o Page]
<1>1. s \o Page \in Seq(Data)
  BY Joined, PageType
<1>2. child' = [child EXCEPT ![x] = c]
  BY ChildBefore DEF Writes, Children
<1>3. c \in Children /\ c.state = "writing" /\ c.stdin \in Pipes /\ c.stdout \in Pipes
  BY <1>1, ChildBefore DEF Children, States
<1> QED
  BY <1>2, <1>3

\* The program starts to read, or to write if there is no body.
LEMMA ExecSucceedsInductive ==
  ASSUME Inductive, NEW x \in 1..Exchanges, ExecSucceeds(x)
  PROVE  Inductive'
<1>1. child[x].state = "closed" /\ UNCHANGED <<pc, requests, left, buf, sent, shut, holds, pipe>>
  BY DEF ExecSucceeds
<1>2. PICK c \in Children : /\ child' = [child EXCEPT ![x] = c] /\ c.state # "none"
                            /\ c.stdin \in Pipes /\ c.stdout \in Pipes
  <2>1. CASE Writes(x, <<>>)
    <3>1. <<>> \in Seq(Data)
      OBVIOUS
    <3> QED
      BY <1>1, <2>1, <3>1, WritesType
  <2>2. CASE child' = [child EXCEPT ![x].state = "reading"]
    <3> DEFINE c == [child[x] EXCEPT !.state = "reading"]
    <3>1. child' = [child EXCEPT ![x] = c]
      BY <2>2, ChildBefore DEF Children
    <3>2. c \in Children /\ c.state # "none" /\ c.stdin \in Pipes /\ c.stdout \in Pipes
      BY <1>1, ChildBefore DEF Children, States
    <3> QED
      BY <3>1, <3>2
  <2> QED
    BY <2>1, <2>2 DEF ExecSucceeds
<1> QED
  BY <1>1, <1>2, ChildBefore, ChildChanges

\* A part moves from the pipe to the program.
LEMMA ProgramReadsInductive ==
  ASSUME Inductive, NEW x \in 1..Exchanges, ProgramReads(x)
  PROVE  Inductive'
<1>1. child[x].state = "reading" /\ UNCHANGED <<pc, requests, left, buf, sent, shut, holds>>
  BY DEF ProgramReads
<1> DEFINE p == child[x].stdin
<1>2. p \in Pipes /\ child[x].read \in Seq(Data) /\ pipe[p] \in Seq(Data)
  BY <1>1, ChildBefore DEF Children
<1>3. PICK k \in 1..Len(pipe[p]) :
        LET s == child[x].read \o SubSeq(pipe[p], 1, k)
        IN /\ pipe' = [pipe EXCEPT ![p] = Rest(@, k)]
           /\ Writes(x, s) \/ child' = [child EXCEPT ![x].read = s]
  BY DEF ProgramReads
<1> DEFINE s == child[x].read \o SubSeq(pipe[p], 1, k)
<1>4. s \in Seq(Data)
  BY <1>2, TakeAndRest, Joined
<1>5. PICK c \in Children : /\ child' = [child EXCEPT ![x] = c] /\ c.state # "none"
                            /\ c.stdin \in Pipes /\ c.stdout \in Pipes
  <2>1. CASE Writes(x, s)
    BY <1>1, <1>4, <2>1, WritesType
  <2>2. CASE child' = [child EXCEPT ![x].read = s]
    <3> DEFINE c == [child[x] EXCEPT !.read = s]
    <3>1. child' = [child EXCEPT ![x] = c]
      BY <2>2, ChildBefore DEF Children
    <3>2. c \in Children /\ c.state # "none" /\ c.stdin \in Pipes /\ c.stdout \in Pipes
      BY <1>1, <1>4, ChildBefore DEF Children, States
    <3> QED
      BY <3>1, <3>2
  <2> QED
    BY <1>3, <2>1, <2>2
<1>6. pipe' \in [Pipes -> Seq(Data)] /\ \A q \in Pipes : Len(pipe'[q]) <= Capacity
  BY <1>2, <1>3, TakesType DEF Inductive
<1> QED
  BY <1>1, <1>5, <1>6, ChildBefore, ChildChanges

\* A part moves from the program to the pipe, which has room for it.
LEMMA ProgramWritesInductive ==
  ASSUME Inductive, NEW x \in 1..Exchanges, ProgramWrites(x)
  PROVE  Inductive'
<1>1. child[x].state = "writing" /\ UNCHANGED <<pc, requests, left, buf, sent, shut, holds>>
  BY DEF ProgramWrites
<1>2. child[x].stdout \in Pipes /\ child[x].out \in Seq(Data)
  BY <1>1, ChildBefore DEF Children
<1>3. PICK k \in 1..Len(child[x].out) :
        /\ Puts(child[x].stdout, child[x].out, k)
        /\ child' = [child EXCEPT ![x].out = Rest(@, k)]
  BY DEF ProgramWrites
<1>4. Rest(child[x].out, k) \in Seq(Data)
  BY <1>2, TakeAndRest
<1> DEFINE c == [child[x] EXCEPT !.out = Rest(child[x].out, k)]
<1>5. child' = [child EXCEPT ![x] = c]
  BY <1>3, ChildBefore DEF Children
<1>6. c \in Children /\ c.state # "none" /\ c.stdin \in Pipes /\ c.stdout \in Pipes
  BY <1>1, <1>4, ChildBefore DEF Children, States
<1>7. pipe' \in [Pipes -> Seq(Data)] /\ \A q \in Pipes : Len(pipe'[q]) <= Capacity
  BY <1>2, <1>3, PutsType DEF Inductive
<1> QED
  BY <1>1, <1>5, <1>6, <1>7, ChildBefore, ChildChanges

\* Whatever a child does keeps the invariant.
LEMMA ChildStepInductive ==
  ASSUME Inductive, NEW x \in 1..Exchanges, ChildStep(x)
  PROVE  Inductive'
<1>1. CASE ExecFails(x) \/ ProgramExits(x)
  BY <1>1, ExitsInductive DEF ExecFails, ExitsAfterFailure, ProgramExits
<1> QED
  BY <1>1, ChildRedirectsInductive, ChildClosesInductive, ExecSucceedsInductive,
     ProgramReadsInductive, ProgramWritesInductive DEF ChildStep

-----------------------------------------------------------------------------
(* One lemma per action of the server                                      *)

\* What is known of the newest exchange, and of the server, before any step.
LEMMA ServerBefore ==
  ASSUME Inductive
  PROVE  /\ Current \in 0..Exchanges /\ requests \in Seq(Requests)
         /\ pc \in {"fork", "close", "write", "read"} =>
              /\ Current \in 1..Exchanges
              /\ Request \in Requests
              /\ Input(Current) \in Pipes /\ Output(Current) \in Pipes
         /\ left \in Seq(Data) /\ Len(left) <= MaxLength
         /\ buf \in Seq(Data) /\ Len(buf) < BufferSize
         /\ pipe \in [Pipes -> Seq(Data)] /\ \A p \in Pipes : Len(pipe[p]) <= Capacity
         /\ holds \in [Processes -> SUBSET Ends] /\ Server \in Processes
         /\ child \in [1..Exchanges -> Children]
         /\ shut \subseteq 1..Current
<1>1. Current \in 0..Exchanges /\ requests \in Seq(Requests)
  BY ConstantsAssumption DEF Inductive, Types, TypeOK, Current
<1>2. pc \in {"fork", "close", "write", "read"} =>
        /\ Current \in 1..Exchanges
        /\ Request \in Requests
        /\ Input(Current) \in Pipes /\ Output(Current) \in Pipes
  BY <1>1, ConstantsAssumption DEF Inductive, Newest, Request, Last, Current, Input, Output, Pipes
<1>3. Server \in Processes
  BY ConstantsAssumption DEF Server, Processes
<1> QED
  BY <1>1, <1>2, <1>3 DEF Inductive, Types, TypeOK, Members

\* The ends of a pipe are ends.
LEMMA EndsAreEnds ==
  ASSUME NEW x \in 1..Exchanges
  PROVE  /\ EndsOf(Input(x)) \cup EndsOf(Output(x)) \subseteq Ends
         /\ \A end \in EndsOf(Input(x)) \cup EndsOf(Output(x)) : end[1][1] = x
BY DEF EndsOf, Input, Output, Ends, Pipes

\* The four ends of a new exchange count as lost until there is a child.
LEMMA ExecuteCgiInductive ==
  ASSUME Inductive, ExecuteCgi
  PROVE  Inductive'
<1> DEFINE x == Current + 1
<1>1. /\ pc = "loop" /\ pc' = "fork" /\ x \in 1..Exchanges
      /\ holds' = [holds EXCEPT ![Server] = @ \cup EndsOf(Output(x)) \cup EndsOf(Input(x))]
      /\ UNCHANGED <<left, buf, shut, pipe, child>>
  BY ServerBefore, ConstantsAssumption DEF ExecuteCgi
<1>2. PICK r \in Requests : requests' = Append(requests, r)
  BY DEF ExecuteCgi
<1>3. requests' \in Seq(Requests) /\ Current' = x
  BY <1>2, ServerBefore DEF Current
<1>4. holds' \in [Processes -> SUBSET Ends]
  BY <1>1, ServerBefore, EndsAreEnds
<1>5. Types'
  BY <1>1, <1>3, <1>4, ServerBefore DEF Inductive, Types, TypeOK, Members, Current
<1>6. Newest'
  BY <1>1, <1>3, ServerBefore DEF Inductive, Newest
<1>7. OlderEnds'
  BY <1>1, ServerBefore DEF Inductive, OlderEnds, Server
<1>8. KeptOpen' = KeptOpen \cup EndsOf(Input(x)) \cup EndsOf(Output(x))
  <2>1. child[x].state = "none"
    BY <1>1, ServerBefore DEF Inductive, Newest
  <2>2. KeptOpen' = UNION {Kept(y) : y \in 1..x}
    BY <1>1, <1>3 DEF KeptOpen, Kept
  <2>3. 1..x = (1..Current) \cup {x}
    BY ServerBefore
  <2> QED
    BY <2>1, <2>2, <2>3 DEF KeptOpen, Kept
<1>9. ServerHolds'
  BY <1>1, <1>8, ServerBefore DEF Inductive, ServerHolds
<1> QED
  BY <1>5, <1>6, <1>7, <1>9 DEF Inductive

\* What earlier exchanges have cost is a finite set.
LEMMA KeptOpenFinite ==
  ASSUME Inductive
  PROVE  Cardinality(KeptOpen) \in Nat
<1>1. KeptOpen \in SUBSET Ends
  <2>1. ASSUME NEW x \in 1..Current PROVE Kept(x) \subseteq Ends
    <3>1. x \in 1..Exchanges
      BY ServerBefore, ConstantsAssumption
    <3>2. Kept(x) \subseteq EndsOf(Input(x)) \cup EndsOf(Output(x))
      BY DEF Kept, EndsOf
    <3> QED
      BY <3>1, <3>2, EndsAreEnds
  <2> QED
    BY <2>1 DEF KeptOpen
<1>2. IsFiniteSet(1..Exchanges)
  BY ConstantsAssumption, FS_Interval
<1>3. IsFiniteSet({"input", "output"}) /\ IsFiniteSet({"read", "write"})
  <2>1. IsFiniteSet({}) /\ IsFiniteSet({} \cup {"input"}) /\ IsFiniteSet({} \cup {"read"})
    BY FS_EmptySet, FS_AddElement
  <2>2. IsFiniteSet(({} \cup {"input"}) \cup {"output"}) /\ IsFiniteSet(({} \cup {"read"}) \cup {"write"})
    BY <2>1, FS_AddElement
  <2>3. /\ ({} \cup {"input"}) \cup {"output"} = {"input", "output"}
        /\ ({} \cup {"read"}) \cup {"write"} = {"read", "write"}
    OBVIOUS
  <2> QED
    BY <2>2, <2>3
<1>4. IsFiniteSet(Pipes)
  BY <1>2, <1>3, FS_Product DEF Pipes
<1>5. IsFiniteSet(Ends)
  BY <1>3, <1>4, FS_Product DEF Ends
<1>6. IsFiniteSet(KeptOpen)
  BY <1>1, <1>5, FS_Subset
<1> QED
  BY <1>6, FS_CardinalityType

\* When pipe() throws, what earlier exchanges have cost is too much.
LEMMA PipeThrowsInductive ==
  ASSUME Inductive, PipeThrows
  PROVE  Inductive'
<1>1. /\ pc = "loop" /\ pc' = "thrown" /\ Current + 1 \in 1..Exchanges
      /\ UNCHANGED <<requests, left, buf, shut, pipe, child>>
      /\ Cardinality(holds[Server]) + 4 > MaxDescriptors
  BY ServerBefore, ConstantsAssumption DEF PipeThrows
<1>2. /\ holds' \in [Processes -> SUBSET Ends]
      /\ \A y \in 1..Exchanges : holds'[y] = holds[y]
      /\ holds[Server] \subseteq holds'[Server]
  BY <1>1, ServerBefore, EndsAreEnds DEF PipeThrows, Server
<1>3. Types'
  BY <1>1, <1>2, ServerBefore DEF Inductive, Types, TypeOK, Members, Current
<1>4. Newest' /\ OlderEnds'
  BY <1>1, <1>2 DEF Inductive, Newest, OlderEnds, Current
<1>5. KeptOpen' = KeptOpen
  BY <1>1, KeptOpenSame
<1>6. Cardinality(KeptOpen) > MaxDescriptors - 4
  BY <1>1, KeptOpenFinite, ConstantsAssumption DEF Inductive, ServerHolds
<1>7. ServerHolds'
  BY <1>1, <1>2, <1>5, <1>6 DEF Inductive, ServerHolds
<1> QED
  BY <1>3, <1>4, <1>7 DEF Inductive

\* The child inherits no end of a later exchange, and the ends of its own that are
\* going to be closed no longer count as lost.
LEMMA ForkInductive ==
  ASSUME Inductive, Fork
  PROVE  Inductive'
<1> DEFINE x == Current
<1>1. /\ pc = "fork" /\ pc' = "close" /\ x \in 1..Exchanges /\ child[x] \in Children
      /\ holds' = [holds EXCEPT ![x] = holds[Server]]
      /\ UNCHANGED <<requests, left, buf, shut, pipe>>
      /\ Current' = x
  BY ServerBefore DEF Fork, Current
<1>2. PICK c \in Children : child' = [child EXCEPT ![x] = c] /\ c.state = "forked"
  <2> DEFINE c == [child[x] EXCEPT !.state = "forked"]
  <2>1. child' = [child EXCEPT ![x] = c]
    BY <1>1, ServerBefore DEF Fork, Children
  <2>2. c \in Children /\ c.state = "forked"
    BY <1>1 DEF Children, States
  <2> QED
    BY <2>1, <2>2
<1>3. holds' \in [Processes -> SUBSET Ends] /\ x \in Processes /\ x # Server
  <2>1. x \in Processes /\ x # Server
    BY <1>1, ConstantsAssumption DEF Processes, Server
  <2>2. holds[Server] \in SUBSET Ends
    BY ServerBefore
  <2> QED
    BY <1>1, <2>1, <2>2, ServerBefore
<1>4. \A y \in 1..Exchanges : /\ y # x => child'[y] = child[y] /\ holds'[y] = holds[y]
                              /\ y = x => child'[y] = c /\ holds'[y] = holds[Server]
  BY <1>1, <1>2, <1>3, ServerBefore DEF Processes
<1>5. holds'[Server] = holds[Server]
  BY <1>1, <1>3, ServerBefore
<1>6. Types'
  <2>1. TypeOK'
    BY <1>1, <1>2, <1>3, <1>4, ServerBefore DEF Inductive, Types, TypeOK, Children, States, Current
  <2>2. Members'
    BY <1>1, <1>2, <1>4, ServerBefore DEF Inductive, Types, Members
  <2> QED
    BY <2>1, <2>2 DEF Types
<1>7. Newest'
  <2>1. pc' = "close" /\ Current' >= 1 /\ child'[Current'].state # "none"
    BY <1>1, <1>2, <1>4
  <2>2. \A y \in 1..Exchanges : y > Current' => child'[y].state = "none"
    BY <1>1, <1>4 DEF Inductive, Newest
  <2> QED
    BY <2>1, <2>2 DEF Newest
<1>8. holds[Server] = KeptOpen
  BY <1>1 DEF Inductive, ServerHolds
<1>9. OlderEnds'
  <2>1. \A end \in holds[Server] : end[1][1] <= x
    <3> SUFFICES ASSUME NEW end \in KeptOpen PROVE end[1][1] <= x
      BY <1>8
    <3>1. PICK y \in 1..x : end \in EndsOf(Input(y)) \cup EndsOf(Output(y))
      BY DEF KeptOpen, Kept, EndsOf
    <3>2. y \in 1..Exchanges
      BY <1>1, ConstantsAssumption
    <3> QED
      BY <3>1, <3>2, EndsAreEnds
  <2> QED
    BY <1>2, <1>4, <2>1 DEF Inductive, OlderEnds
<1>10. KeptOpen = KeptOpen' \cup EndsOf(Input(x)) \cup EndsOf(Output(x))
  <2>1. child[x].state = "none"
    BY <1>1 DEF Inductive, Newest
  <2>2. Kept(x) = EndsOf(Input(x)) \cup EndsOf(Output(x)) /\ Kept(x)' \subseteq Kept(x)
    BY <1>1, <1>2, <1>4, <2>1 DEF Kept, EndsOf
  <2>3. \A y \in 1..x : y # x => Kept(y)' = Kept(y)
    BY <1>1, <1>4, ConstantsAssumption DEF Kept
  <2>4. \A end : end \in KeptOpen <=> \E y \in 1..x : end \in Kept(y)
    BY DEF KeptOpen
  <2>5. \A end : end \in KeptOpen' <=> \E y \in 1..x : end \in Kept(y)'
    BY <1>1 DEF KeptOpen
  <2>6. x \in 1..x
    BY <1>1
  <2>7. \A end : end \in KeptOpen => end \in KeptOpen' \/ end \in Kept(x)
    BY <2>3, <2>4, <2>5
  <2>8. \A end : end \in KeptOpen' \/ end \in Kept(x) => end \in KeptOpen
    <3>1. \A end : end \in Kept(x) => end \in KeptOpen
      BY <2>4, <2>6
    <3> SUFFICES ASSUME NEW end, end \in KeptOpen' PROVE end \in KeptOpen
      BY <3>1
    <3>2. PICK y \in 1..x : end \in Kept(y)'
      BY <2>5
    <3>3. CASE y = x
      <4>1. end \in Kept(x)'
        BY <1>1, <3>2, <3>3
      <4> QED
        BY <2>2, <3>1, <4>1
    <3>4. CASE y # x
      <4>1. end \in Kept(y)
        BY <2>3, <3>2, <3>4
      <4> QED
        BY <2>4, <4>1
    <3> QED
      BY <3>3, <3>4
  <2> QED
    BY <2>2, <2>7, <2>8
<1>11. ServerHolds'
  BY <1>1, <1>5, <1>8, <1>10 DEF Inductive, ServerHolds
<1> QED
  BY <1>6, <1>7, <1>9, <1>11 DEF Inductive

\* The server closes the two ends that it does not lose.
LEMMA ServerClosesInductive ==
  ASSUME Inductive, ServerCloses
  PROVE  Inductive'
<1> DEFINE x == Current
<1>1. /\ pc = "close" /\ pc' \in {"read", "write"} /\ x \in 1..Exchanges /\ Current' = x
      /\ holds' = [holds EXCEPT ![Server] = @ \ UnusedByServer(x)]
      /\ left' \in {<<>>, Body(Request)}
      /\ UNCHANGED <<requests, buf, shut, pipe, child>>
  BY ServerBefore DEF ServerCloses, Current
<1>2. left' \in Seq(Data) /\ Len(left') <= MaxLength
  <2>1. Body(Request) \in Seq(Data) /\ Len(Body(Request)) <= MaxLength
    BY <1>1, ServerBefore, BodyType
  <2>2. <<>> \in Seq(Data) /\ Len(<<>>) <= MaxLength
    BY ConstantsAssumption
  <2> QED
    BY <1>1, <2>1, <2>2
<1>3. /\ holds' \in [Processes -> SUBSET Ends]
      /\ \A y \in 1..Exchanges : holds'[y] = holds[y]
      /\ holds'[Server] = holds[Server] \ UnusedByServer(x)
  BY <1>1, ServerBefore DEF Server
<1>4. Types'
  BY <1>1, <1>2, <1>3, ServerBefore DEF Inductive, Types, TypeOK, Members, Current
<1>5. Newest' /\ OlderEnds'
  BY <1>1, <1>3 DEF Inductive, Newest, OlderEnds
<1>6. KeptOpen' = KeptOpen
  BY <1>1, KeptOpenSame
<1>7. KeptOpen = (KeptOpen \cup EndsOf(Input(x)) \cup EndsOf(Output(x))) \ UnusedByServer(x)
  <2>1. Kept(x) = {<<Input(x), "write">>, <<Output(x), "read">>}
    BY <1>1 DEF Inductive, Newest, Kept
  <2>2. \A end \in UnusedByServer(x) : end \notin KeptOpen
    <3> SUFFICES ASSUME NEW end \in UnusedByServer(x), end \in KeptOpen PROVE FALSE
      OBVIOUS
    <3>1. PICK y \in 1..x : end \in Kept(y)
      BY DEF KeptOpen
    <3>2. y = x
      BY <3>1 DEF Kept, EndsOf, Input, Output, UnusedByServer
    <3> QED
      BY <2>1, <3>1, <3>2 DEF Input, Output, UnusedByServer
  <2>3. Kept(x) \subseteq KeptOpen
    BY <1>1 DEF KeptOpen
  <2>4. \A end \in EndsOf(Input(x)) \cup EndsOf(Output(x)) :
          end \in UnusedByServer(x) \/ end \in Kept(x)
    BY <2>1 DEF EndsOf, UnusedByServer
  <2> QED
    BY <2>2, <2>3, <2>4
<1>8. ServerHolds'
  BY <1>1, <1>3, <1>6, <1>7 DEF Inductive, ServerHolds
<1> QED
  BY <1>4, <1>5, <1>8 DEF Inductive

\* A part moves from the server to the pipe, which has room for it.
LEMMA ServerWritesInductive ==
  ASSUME Inductive, ServerWrites
  PROVE  Inductive'
<1>1. /\ pc = "write" /\ pc' \in {"read", "write"}
      /\ UNCHANGED <<requests, buf, sent, shut, holds, child>>
  BY DEF ServerWrites
<1>2. PICK k \in 1..Len(left) : Puts(Input(Current), left, k) /\ left' = Rest(left, k)
  BY DEF ServerWrites, LeftAfter
<1>3. left' \in Seq(Data) /\ Len(left') <= MaxLength
  <2>1. Rest(left, k) \in Seq(Data) /\ Len(Rest(left, k)) = Len(left) - k
    BY ServerBefore, TakeAndRest
  <2> QED
    BY <1>2, <2>1, ServerBefore, ConstantsAssumption
<1>4. pipe' \in [Pipes -> Seq(Data)] /\ \A p \in Pipes : Len(pipe'[p]) <= Capacity
  BY <1>1, <1>2, ServerBefore, PutsType DEF Inductive
<1> QED
  BY <1>1, <1>3, <1>4, ServerBefore, ServerChanges

\* A part moves from the pipe to the buffer, which is never left full.
LEMMA ServerReadsInductive ==
  ASSUME Inductive, ServerReads
  PROVE  Inductive'
<1> DEFINE o == Output(Current)
<1>1. pc = "read" /\ UNCHANGED <<pc, requests, left, shut, holds, child>>
  BY DEF ServerReads
<1>2. o \in Pipes /\ pipe[o] \in Seq(Data)
  BY <1>1, ServerBefore
<1>3. PICK k \in 1..Len(pipe[o]) :
        LET got == buf \o SubSeq(pipe[o], 1, k)
        IN /\ Len(got) <= BufferSize
           /\ pipe' = [pipe EXCEPT ![o] = Rest(@, k)]
           /\ buf' = IF Full(got) THEN <<>> ELSE got
  BY DEF ServerReads
<1> DEFINE got == buf \o SubSeq(pipe[o], 1, k)
<1>4. got \in Seq(Data) /\ Len(got) \in Nat
  BY <1>2, ServerBefore, TakeAndRest, Joined
<1>5. buf' \in Seq(Data) /\ Len(buf') < BufferSize
  <2>1. <<>> \in Seq(Data) /\ Len(<<>>) < BufferSize
    BY ConstantsAssumption
  <2>2. CASE Len(got) = BufferSize
    BY <1>3, <2>1, <2>2 DEF Full
  <2>3. CASE Len(got) # BufferSize
    <3>1. buf' = got
      BY <1>3, <2>3 DEF Full
    <3>2. Len(got) <= BufferSize
      BY <1>3
    <3>3. ASSUME NEW n \in Nat, n <= BufferSize, n # BufferSize PROVE n < BufferSize
      BY <3>3, ConstantsAssumption
    <3>4. Len(got) < BufferSize
      BY <1>4, <2>3, <3>2, <3>3
    <3> QED
      BY <1>4, <3>1, <3>4
  <2> QED
    BY <2>2, <2>3
<1>6. pipe' \in [Pipes -> Seq(Data)] /\ \A p \in Pipes : Len(pipe'[p]) <= Capacity
  BY <1>2, <1>3, TakesType DEF Inductive
<1> QED
  BY <1>1, <1>5, <1>6, ServerBefore, ServerChanges

\* The other steps of the server hand nothing over.
LEMMA OtherServerStepsInductive ==
  ASSUME Inductive, ForkFails \/ WriteFails \/ ServerReadsEnd
  PROVE  Inductive'
<1>1. <<>> \in Seq(Data) /\ Len(<<>>) <= MaxLength /\ Len(<<>>) < BufferSize
  BY ConstantsAssumption
<1>2. CASE ForkFails
  BY <1>2, ServerBefore, ServerChanges DEF ForkFails
<1>3. CASE WriteFails
  BY <1>1, <1>3, ServerBefore, ServerChanges DEF WriteFails
<1>4. CASE ServerReadsEnd
  <2>1. pc = "read" /\ pc' = "loop" /\ UNCHANGED <<requests, left, holds, pipe, child>>
        /\ buf' = <<>>
    BY <1>4 DEF ServerReadsEnd
  <2>2. shut' \subseteq 1..Current
    BY <1>4, ServerBefore DEF ServerReadsEnd
  <2> QED
    BY <1>1, <2>1, <2>2, ServerBefore, ServerChanges
<1> QED
  BY <1>2, <1>3, <1>4

-----------------------------------------------------------------------------
(* Whom the loop waits for, and what it costs                              *)

\* There are no requests, no children and no pipes in the beginning.
LEMMA InitInductive == Init => Inductive
<1> SUFFICES ASSUME Init PROVE Inductive
  OBVIOUS
<1>1. Current = 0 /\ requests \in Seq(Requests)
  BY DEF Init, Current
<1>2. NoChild \in Children /\ NoChild.state = "none"
  BY DEF NoChild, Children, States
<1>3. \A x \in 1..Exchanges : child[x] = NoChild
  BY DEF Init
<1>4. child \in [1..Exchanges -> Children]
  BY <1>2 DEF Init
<1>5. Types
  <2>1. TypeOK
    BY <1>1, <1>2, <1>3, ConstantsAssumption DEF Init, TypeOK
  <2>2. Members
    BY <1>2, <1>3, <1>4 DEF Init, Members
  <2> QED
    BY <2>1, <2>2 DEF Types
<1>6. Newest
  BY <1>1, <1>2, <1>3 DEF Init, Newest
<1>7. \A q \in Processes : holds[q] = {}
  BY DEF Init
<1>8. OlderEnds
  BY <1>7, ConstantsAssumption DEF OlderEnds, Processes
<1>9. KeptOpen = {}
  <2>1. 1..Current = {}
    BY <1>1
  <2> QED
    BY <2>1 DEF KeptOpen
<1>10. ServerHolds
  BY <1>7, <1>9, ConstantsAssumption DEF Init, ServerHolds, Server, Processes
<1> QED
  BY <1>5, <1>6, <1>8, <1>10 DEF Inductive

\* The invariant holds in every reachable state.
THEOREM InductiveHolds == Spec => []Inductive
<1>1. Inductive /\ [Next]_vars => Inductive'
  <2> SUFFICES ASSUME Inductive, [Next]_vars PROVE Inductive'
    OBVIOUS
  <2>1. CASE UNCHANGED vars
    BY <2>1 DEF vars, Inductive, Types, TypeOK, Members, Newest, OlderEnds, ServerHolds,
       KeptOpen, Kept, Current
  <2>2. CASE ExecuteCgi \/ PipeThrows
    BY <2>2, ExecuteCgiInductive, PipeThrowsInductive
  <2>3. CASE ServerStep
    BY <2>3, ForkInductive, ServerClosesInductive, ServerWritesInductive,
       ServerReadsInductive, OtherServerStepsInductive DEF ServerStep
  <2>4. ASSUME NEW x \in 1..Exchanges, ChildStep(x) PROVE Inductive'
    BY <2>4, ChildStepInductive
  <2> QED
    BY <2>1, <2>2, <2>3, <2>4 DEF Next
<1> QED
  BY <1>1, InitInductive, PTL DEF Spec

\* Every variable keeps its type: no pipe and no buffer ever holds more than it can.
THEOREM TypeCorrect == Spec => []TypeOK
<1>1. Inductive => TypeOK
  BY DEF Inductive, Types
<1> QED
  BY <1>1, InductiveHolds, PTL

\* However many exchanges there have been, the loop waits for nobody but the child it
\* has just created.
THEOREM NobodyElseIsAwaited == Spec => []OnlyItsChildIsAwaited
<1>1. Inductive => OnlyItsChildIsAwaited
  <2> SUFFICES ASSUME Inductive, pc = "read", NEW q \in Processes \ {Current},
                      <<Output(Current), "write">> \in holds[q]
               PROVE  FALSE
    BY DEF OnlyItsChildIsAwaited
  <2> DEFINE end == <<Output(Current), "write">>
  <2>1. Current \in 1..Exchanges /\ end[1][1] = Current
    BY ServerBefore DEF Output
  <2>2. CASE q = Server
    <3>1. end \in KeptOpen
      BY <2>2 DEF Inductive, ServerHolds
    <3>2. PICK y \in 1..Current : end \in Kept(y)
      BY <3>1 DEF KeptOpen
    <3>3. y = Current
      BY <3>2 DEF Kept, EndsOf, Input, Output
    <3>4. child[Current].state # "none"
      BY DEF Inductive, Newest
    <3> QED
      BY <3>2, <3>3, <3>4 DEF Kept, Input, Output
  <2>3. CASE q # Server
    <3>1. q \in 1..Exchanges
      BY <2>3, ConstantsAssumption DEF Processes, Server
    <3>2. Current <= q
      BY <2>1, <3>1 DEF Inductive, OlderEnds
    <3>3. child[q].state = "none"
      BY <2>1, <3>1, <3>2 DEF Inductive, Newest
    <3> QED
      BY <3>1, <3>3 DEF Inductive, OlderEnds
  <2> QED
    BY <2>2, <2>3
<1> QED
  BY <1>1, InductiveHolds, PTL

\* What an exchange costs is two descriptors, or four without a child, and nothing else
\* uses descriptors up.
THEOREM CostIsAccounted == Spec => []DescriptorsAreAccounted
<1>1. Inductive => DescriptorsAreAccounted
  BY DEF Inductive, ServerHolds, DescriptorsAreAccounted
<1> QED
  BY <1>1, InductiveHolds, PTL

-----------------------------------------------------------------------------
(* The bytes of the newest exchange                                        *)

\* The loop is at work on an exchange.
Busy == pc \in {"fork", "close", "write", "read"}

\* An exchange that is over has been answered, and its child, if there was one, is gone.
\* Only then is its connection shut down.
Settled ==
  /\ \A x \in 1..Current :
       x < Current \/ ~Busy => /\ child[x].state \in {"none", "exited"}
                               /\ sent[x] = <<Status>> \o Answer(x)
  /\ \A x \in shut : x < Current \/ ~Busy

\* Nothing is left over from one exchange to the next.
Idle ==
  /\ pc # "write" => left = <<>>
  /\ pc # "read" => buf = <<>>
  /\ \A x \in 1..Exchanges :
       child[x].state = "none" => pipe[Input(x)] = <<>> /\ pipe[Output(x)] = <<>>

\* What a child in its state c has done, and which ends it still has open.
Sound(x, c, ends) ==
  /\ c.state \notin {"none", "exited"} =>
       <<Input(x), "read">> \in ends /\ <<Output(x), "write">> \in ends
  /\ c.state \in {"redirected", "closed", "reading", "writing"} =>
       c.stdin = Input(x) /\ c.stdout = Output(x)
  /\ c.state \in {"reading", "writing"} => requests[x].found
  /\ c.state \notin {"reading", "writing", "exited"} => c.read = <<>>
  /\ c.state # "writing" => c.out = <<>>
  /\ c.state \in {"writing", "exited"} /\ requests[x].found => c.read = Body(requests[x])

\* A program that is not found reads nothing: what is written to it is lost.
ToWrite == IF pc \in {"fork", "close"} THEN Body(Request) ELSE left
Upstream ==
  Busy /\ Request.found =>
    (child[Current].read \o pipe[Input(Current)]) \o ToWrite = Body(Request)

\* A program that has not read the body has nothing to write yet.
Said(x, c) == IF c.state \in {"writing", "exited"} THEN Answer(x) ELSE <<>>
Downstream ==
  Busy =>
    ((sent[Current] \o buf) \o pipe[Output(Current)]) \o child[Current].out
      = <<Status>> \o Said(Current, child[Current])

Flow == /\ sent \in [1..Exchanges -> Seq(Data)]
        /\ Settled /\ Idle
        /\ \A x \in 1..Exchanges : Sound(x, child[x], holds[x])
        /\ Upstream /\ Downstream

-----------------------------------------------------------------------------
(* Sequences, taken apart and put together                                 *)

\* Three parts that follow each other can be grouped from either side.
LEMMA Grouped ==
  ASSUME NEW a \in Seq(Data), NEW b \in Seq(Data), NEW c \in Seq(Data)
  PROVE  (a \o b) \o c = a \o (b \o c)
BY ConcatAssociative

\* What is taken from the front of s goes to the end of what precedes it.
LEMMA Moved ==
  ASSUME NEW a \in Seq(Data), NEW s \in Seq(Data), NEW k \in 1..Len(s)
  PROVE  (a \o SubSeq(s, 1, k)) \o Rest(s, k) = a \o s
<1>1. Len(s) \in Nat
  OBVIOUS
<1>2. 1 \in 1..(Len(s) + 1) /\ k \in (1 - 1)..Len(s) /\ Len(s) \in k..Len(s)
  BY <1>1
<1>3. SubSeq(s, 1, k) \o SubSeq(s, k + 1, Len(s)) = SubSeq(s, 1, Len(s))
  BY <1>2, ConcatAdjacentSubSeq
<1>4. SubSeq(s, 1, k) \o Rest(s, k) = s
  BY <1>3, SubSeqFull DEF Rest
<1>5. SubSeq(s, 1, k) \in Seq(Data) /\ Rest(s, k) \in Seq(Data)
  BY TakeAndRest
<1>6. (a \o SubSeq(s, 1, k)) \o Rest(s, k) = a \o (SubSeq(s, 1, k) \o Rest(s, k))
  BY <1>5, Grouped, Zenon
<1> QED
  BY <1>4, <1>6

\* The same where something is already there.
LEMMA MovedUp ==
  ASSUME NEW a \in Seq(Data), NEW b \in Seq(Data), NEW s \in Seq(Data), NEW k \in 1..Len(s)
  PROVE  (a \o (b \o SubSeq(s, 1, k))) \o Rest(s, k) = (a \o b) \o s
<1> DEFINE t == SubSeq(s, 1, k)
<1>1. t \in Seq(Data) /\ a \o b \in Seq(Data)
  BY TakeAndRest, Joined
<1>2. a \o (b \o t) = (a \o b) \o t
  <2> HIDE DEF t
  <2>1. (a \o b) \o t = a \o (b \o t)
    BY <1>1, Grouped, SMTT(30)
  <2> QED
    BY <2>1
<1>3. ((a \o b) \o t) \o Rest(s, k) = (a \o b) \o s
  <2> DEFINE c == a \o b
  <2>1. c \in Seq(Data)
    BY <1>1
  <2> HIDE DEF c
  <2>2. (c \o SubSeq(s, 1, k)) \o Rest(s, k) = c \o s
    BY <2>1, Moved
  <2> QED
    BY <2>2 DEF c
<1> QED
  BY <1>2, <1>3

\* What precedes the rest is a prefix.
LEMMA StartIsPrefix ==
  ASSUME NEW s \in Seq(Data), NEW t \in Seq(Data)
  PROVE  IsPrefix(s, s \o t)
<1> DEFINE w == s \o t
<1>1. /\ w \in Seq(Data) /\ Len(s) \in Nat /\ Len(s) <= Len(w)
      /\ \A i \in 1..Len(s) : w[i] = s[i]
  BY ConcatProperties
<1> HIDE DEF w
<1>2. /\ SubSeq(w, 1, Len(s)) \in Seq(Data) /\ Len(SubSeq(w, 1, Len(s))) = Len(s)
      /\ \A i \in 1..Len(s) : SubSeq(w, 1, Len(s))[i] = w[i]
  BY <1>1, SubSeqProperties
<1>3. SubSeq(w, 1, Len(s)) = s
  BY <1>1, <1>2, SeqEqual
<1>4. SubSeq(s, 1, Len(s)) = s
  BY SubSeqFull
<1> QED
  BY <1>1, <1>3, <1>4 DEF IsPrefix, w

\* Four parts that follow each other can be grouped from either side.
LEMMA FourParts ==
  ASSUME NEW a \in Seq(Data), NEW b \in Seq(Data), NEW c \in Seq(Data), NEW d \in Seq(Data)
  PROVE  ((a \o b) \o c) \o d = a \o (b \o (c \o d))
<1>1. ((a \o b) \o c) \o d = (a \o b) \o (c \o d)
  <2> DEFINE e == a \o b
  <2>1. e \in Seq(Data)
    BY Joined
  <2> HIDE DEF e
  <2>2. (e \o c) \o d = e \o (c \o d)
    BY <2>1, Grouped
  <2> QED
    BY <2>2 DEF e
<1>2. (a \o b) \o (c \o d) = a \o (b \o (c \o d))
  <2> DEFINE e == c \o d
  <2>1. e \in Seq(Data)
    BY Joined
  <2> HIDE DEF e
  <2>2. (a \o b) \o e = a \o (b \o e)
    BY <2>1, Grouped, SMTT(30)
  <2> QED
    BY <2>2 DEF e
<1> QED
  BY <1>1, <1>2, Zenon

\* A prefix stays one when more follows.
LEMMA PrefixOfLonger ==
  ASSUME NEW s \in Seq(Data), NEW h \in Seq(Data), NEW a \in Seq(Data), IsPrefix(s, h)
  PROVE  IsPrefix(s, h \o a)
<1> DEFINE w == h \o a
<1>1. /\ w \in Seq(Data) /\ Len(s) \in Nat /\ Len(s) <= Len(h) /\ Len(h) <= Len(w)
      /\ \A i \in 1..Len(h) : w[i] = h[i]
  BY ConcatProperties DEF IsPrefix
<1> HIDE DEF w
<1>2. /\ SubSeq(w, 1, Len(s)) \in Seq(Data) /\ Len(SubSeq(w, 1, Len(s))) = Len(s)
      /\ \A i \in 1..Len(s) : SubSeq(w, 1, Len(s))[i] = w[i]
  BY <1>1, SubSeqProperties
<1>3. /\ SubSeq(h, 1, Len(s)) \in Seq(Data) /\ Len(SubSeq(h, 1, Len(s))) = Len(s)
      /\ \A i \in 1..Len(s) : SubSeq(h, 1, Len(s))[i] = h[i]
  BY <1>1, SubSeqProperties
<1>4. SubSeq(w, 1, Len(s)) = SubSeq(h, 1, Len(s))
  BY <1>1, <1>2, <1>3, SeqEqual
<1> QED
  BY <1>1, <1>4 DEF IsPrefix, w

\* A part as long as the whole is the whole, and nothing follows it.
LEMMA PartIsWhole ==
  ASSUME NEW s \in Seq(Data), NEW t \in Seq(Data), NEW u \in Seq(Data), NEW w \in Seq(Data),
         (s \o t) \o u = w, Len(s) = Len(w)
  PROVE  s = w /\ t = <<>> /\ u = <<>>
<1>1. Len(w) = Len(s) + Len(t) + Len(u) /\ Len(s) \in Nat /\ Len(t) \in Nat /\ Len(u) \in Nat
  BY Joined
<1>2. Len(t) = 0 /\ Len(u) = 0
  BY <1>1
<1>3. t = <<>> /\ u = <<>>
  BY <1>2
<1>4. s \o <<>> = s
  BY ConcatEmptySeq
<1> QED
  BY <1>3, <1>4

\* The status line and every answer are sequences of data.
LEMMA AnswerType ==
  ASSUME Inductive, NEW x \in 1..Current
  PROVE  /\ requests[x] \in Requests /\ Body(requests[x]) \in Seq(Data)
         /\ Answer(x) \in Seq(Data) /\ <<Status>> \in Seq(Data)
<1>1. requests[x] \in Requests
  BY ServerBefore DEF Current
<1>2. Body(requests[x]) \in Seq(Data) /\ Page \in Seq(Data)
  BY <1>1, BodyType, PageType
<1>3. Answer(x) \in Seq(Data)
  BY <1>2, Joined, EmptySeq DEF Answer
<1>4. Status \in Data
  BY DEF Status, Data
<1> QED
  BY <1>1, <1>2, <1>3, <1>4

\* An empty body has no bytes, and every body as many as Content-Length says.
LEMMA BodyLength ==
  ASSUME NEW r \in Requests
  PROVE  /\ Len(Body(r)) = r.length
         /\ r.length = 0 => Body(r) = <<>>
         /\ r.method = "GET" => r.length = 0
<1>1. r.length \in Nat
  BY ConstantsAssumption DEF Requests
<1>2. Len(Body(r)) = r.length /\ Body(r) \in Seq(Data)
  BY <1>1, BodyType DEF Body
<1>3. r.method = "GET" => r.length = 0
  BY DEF Requests
<1> QED
  BY <1>2, <1>3

-----------------------------------------------------------------------------
(* What does not change                                                    *)

\* A pipe is changed by itself.
LEMMA OnlyInput ==
  ASSUME Inductive, NEW x \in 1..Exchanges, NEW s, pipe' = [pipe EXCEPT ![Input(x)] = s]
  PROVE  /\ pipe'[Input(x)] = s
         /\ \A y \in 1..Exchanges : /\ pipe'[Output(y)] = pipe[Output(y)]
                                    /\ y # x => pipe'[Input(y)] = pipe[Input(y)]
<1>1. \A y \in 1..Exchanges : Input(y) \in Pipes /\ Output(y) \in Pipes
  BY DEF Input, Output, Pipes
<1>2. \A y \in 1..Exchanges : Output(y) # Input(x) /\ (y # x => Input(y) # Input(x))
  BY DEF Input, Output
<1>3. pipe \in [Pipes -> Seq(Data)]
  BY DEF Inductive, Types, Members
<1> QED
  BY <1>1, <1>2, <1>3

\* The output pipe of an exchange is no input pipe: a step on one leaves the other alone.
LEMMA OnlyOutput ==
  ASSUME Inductive, NEW x \in 1..Exchanges, NEW s, pipe' = [pipe EXCEPT ![Output(x)] = s]
  PROVE  /\ pipe'[Output(x)] = s
         /\ \A y \in 1..Exchanges : /\ pipe'[Input(y)] = pipe[Input(y)]
                                    /\ y # x => pipe'[Output(y)] = pipe[Output(y)]
<1>1. \A y \in 1..Exchanges : Input(y) \in Pipes /\ Output(y) \in Pipes
  BY DEF Input, Output, Pipes
<1>2. \A y \in 1..Exchanges : Input(y) # Output(x) /\ (y # x => Output(y) # Output(x))
  BY DEF Input, Output
<1>3. pipe \in [Pipes -> Seq(Data)]
  BY DEF Inductive, Types, Members
<1> QED
  BY <1>1, <1>2, <1>3

\* What is known of the newest exchange.
LEMMA FlowBefore ==
  ASSUME Inductive, Flow, Busy
  PROVE  /\ Current \in 1..Exchanges /\ Current \in 1..Current
         /\ sent[Current] \in Seq(Data) /\ sent[Current] \o buf \in Seq(Data)
         /\ buf \in Seq(Data) /\ left \in Seq(Data)
         /\ pipe[Input(Current)] \in Seq(Data) /\ pipe[Output(Current)] \in Seq(Data)
         /\ child[Current] \in Children
         /\ Request = requests[Current]
         /\ Sound(Current, child[Current], holds[Current])
<1>1. Current \in 1..Exchanges /\ Input(Current) \in Pipes /\ Output(Current) \in Pipes
  BY ServerBefore DEF Busy
<1>2. sent[Current] \in Seq(Data) /\ Sound(Current, child[Current], holds[Current])
  BY <1>1 DEF Flow
<1>3. sent[Current] \o buf \in Seq(Data)
  BY <1>2, ServerBefore, Joined
<1>4. Request = requests[Current]
  BY DEF Request, Last, Current
<1>5. /\ pipe[Input(Current)] \in Seq(Data) /\ pipe[Output(Current)] \in Seq(Data)
      /\ child[Current] \in Children
  BY <1>1, ServerBefore
<1>6. buf \in Seq(Data) /\ left \in Seq(Data) /\ Current \in 1..Current
  BY <1>1, ServerBefore
<1> QED
  BY <1>1, <1>2, <1>3, <1>4, <1>5, <1>6

\* Only the newest child runs.
LEMMA OnlyNewestRuns ==
  ASSUME Inductive, Flow, NEW x \in 1..Exchanges, child[x].state \notin {"none", "exited"}
  PROVE  x = Current /\ Busy /\ pc \in {"close", "write", "read"}
<1>1. Current \in 0..Exchanges
  BY ServerBefore
<1>2. x \in 1..Current
  BY <1>1 DEF Inductive, Newest
<1>3. x = Current /\ Busy
  BY <1>1, <1>2 DEF Flow, Settled
<1> QED
  BY <1>3 DEF Inductive, Newest, Busy

\* A step of the newest child within its own pipes.
LEMMA ChildFlow ==
  ASSUME Inductive, Flow, NEW x \in 1..Exchanges, NEW c \in Children,
         child[x].state \notin {"none", "exited"}, c.state # "none",
         child' = [child EXCEPT ![x] = c],
         UNCHANGED <<pc, requests, left, buf, sent, shut>>,
         \A y \in 1..Exchanges : y # x => holds'[y] = holds[y],
         \A y \in 1..Exchanges : y # x => /\ pipe'[Input(y)] = pipe[Input(y)]
                                          /\ pipe'[Output(y)] = pipe[Output(y)],
         Sound(x, c, holds'[x]),
         requests[x].found =>
           (c.read \o pipe'[Input(x)]) \o ToWrite = (child[x].read \o pipe[Input(x)]) \o ToWrite,
         ((sent[x] \o buf) \o pipe'[Output(x)]) \o c.out = <<Status>> \o Said(x, c)
  PROVE  Flow'
<1>1. /\ x = Current /\ Busy /\ pc \in {"close", "write", "read"} /\ Current' = Current
      /\ x \in 1..x /\ Request = requests[x] /\ Request' = Request
  BY OnlyNewestRuns, FlowBefore DEF Current, Request
<1>2. child'[x] = c /\ \A y \in 1..Exchanges : y # x => child'[y] = child[y]
  BY ServerBefore
<1>3. \A y \in 1..Current : y \in 1..Exchanges
  BY <1>1, ConstantsAssumption
<1>4. \A y \in 1..Current : Answer(y)' = Answer(y)
  BY <1>2, <1>3 DEF Answer
<1>5. Busy' /\ ToWrite' = ToWrite
  BY <1>1 DEF Busy, ToWrite
<1>6. Settled'
  BY <1>1, <1>2, <1>3, <1>4, <1>5 DEF Flow, Settled
<1>7. Idle'
  BY <1>2 DEF Flow, Idle
<1>8. ASSUME NEW y \in 1..Exchanges PROVE Sound(y, child[y], holds[y])'
  <2>1. CASE y = x
    BY <1>2, <2>1 DEF Sound
  <2>2. CASE y # x
    <3>1. Sound(y, child[y], holds[y])
      BY DEF Flow
    <3> QED
      BY <1>2, <2>2, <3>1 DEF Sound
  <2> QED
    BY <2>1, <2>2
<1>9. Upstream'
  BY <1>1, <1>2, <1>5 DEF Flow, Upstream
<1>10. Downstream'
  BY <1>1, <1>2, <1>4, <1>5 DEF Downstream, Said
<1>11. (sent \in [1..Exchanges -> Seq(Data)])'
  BY DEF Flow
<1> QED
  BY <1>6, <1>7, <1>8, <1>9, <1>10, <1>11 DEF Flow

\* A step of the server within the newest exchange, after fork().
LEMMA ServerFlow ==
  ASSUME Inductive, Flow, UNCHANGED <<requests, shut, child>>,
         pc \in {"close", "write", "read"}, pc' \in {"write", "read"},
         \A y \in 1..Exchanges : holds'[y] = holds[y],
         \A y \in 1..Exchanges : y # Current => /\ pipe'[Input(y)] = pipe[Input(y)]
                                                /\ pipe'[Output(y)] = pipe[Output(y)],
         NEW s \in Seq(Data), sent' = [sent EXCEPT ![Current] = s],
         pc' # "write" => left' = <<>>,
         pc' # "read" => buf' = <<>>,
         Upstream', Downstream'
  PROVE  Flow'
<1>1. /\ Current \in 1..Exchanges /\ Current' = Current /\ Busy /\ Busy'
      /\ child[Current].state # "none"
  BY ServerBefore DEF Busy, Current, Inductive, Newest
<1>2. \A y \in 1..Current : y \in 1..Exchanges
  BY <1>1, ConstantsAssumption
<1>3. /\ sent' \in [1..Exchanges -> Seq(Data)]
      /\ \A y \in 1..Exchanges : y # Current => sent'[y] = sent[y]
  BY DEF Flow
<1>4. \A y \in 1..Current : Answer(y)' = Answer(y)
  BY DEF Answer
<1>5. Settled'
  <2>1. ASSUME NEW y \in 1..Current, y < Current
        PROVE  (child[y].state \in {"none", "exited"} /\ sent[y] = <<Status>> \o Answer(y))'
    <3>1. child[y].state \in {"none", "exited"} /\ sent[y] = <<Status>> \o Answer(y)
      BY <2>1 DEF Flow, Settled
    <3>2. sent'[y] = sent[y] /\ Answer(y)' = Answer(y)
      BY <1>1, <1>2, <1>3, <1>4, <2>1
    <3> QED
      BY <3>1, <3>2
  <2>2. \A y \in shut : y < Current
    BY <1>1 DEF Flow, Settled
  <2> QED
    BY <1>1, <2>1, <2>2 DEF Settled
<1>6. Idle'
  BY <1>1 DEF Flow, Idle
<1>7. \A y \in 1..Exchanges : Sound(y, child[y], holds[y])'
  BY DEF Flow, Sound
<1> QED
  BY <1>3, <1>5, <1>6, <1>7 DEF Flow

-----------------------------------------------------------------------------
(* Every step of a child moves a part up                                   *)

\* Redirecting and closing move nothing.
LEMMA ChildRedirectsFlow ==
  ASSUME Inductive, Flow, NEW x \in 1..Exchanges, ChildRedirects(x)
  PROVE  Flow'
<1> DEFINE c == [child[x] EXCEPT !.state = "redirected", !.stdin = Input(x),
                                 !.stdout = Output(x)]
<1>1. /\ child[x].state = "forked"
      /\ UNCHANGED <<pc, requests, left, buf, sent, shut, holds, pipe>>
  BY DEF ChildRedirects
<1>2. child' = [child EXCEPT ![x] = c]
  BY ChildBefore DEF ChildRedirects, Children
<1>3. /\ c \in Children /\ c.state = "redirected" /\ c.stdin = Input(x) /\ c.stdout = Output(x)
      /\ c.read = child[x].read /\ c.out = child[x].out
  BY ChildBefore DEF Children, States
<1> HIDE DEF c
<1>4. x = Current /\ Busy
  BY <1>1, OnlyNewestRuns
<1>5. Sound(x, child[x], holds[x])
  BY DEF Flow
<1>6. Sound(x, c, holds'[x])
  BY <1>1, <1>3, <1>5 DEF Sound
<1>7. ((sent[x] \o buf) \o pipe'[Output(x)]) \o c.out = <<Status>> \o Said(x, c)
  BY <1>1, <1>3, <1>4 DEF Flow, Downstream, Said
<1> QED
  BY <1>1, <1>2, <1>3, <1>6, <1>7, ChildFlow

\* A child that closes the ends it does not use moves no byte.
LEMMA ChildClosesFlow ==
  ASSUME Inductive, Flow, NEW x \in 1..Exchanges, ChildCloses(x)
  PROVE  Flow'
<1> DEFINE c == [child[x] EXCEPT !.state = "closed"]
<1>1. /\ child[x].state = "redirected"
      /\ UNCHANGED <<pc, requests, left, buf, sent, shut, pipe>>
      /\ holds' = [holds EXCEPT ![x] = @ \ {<<Input(x), "write">>, <<Output(x), "read">>}]
  BY DEF ChildCloses
<1>2. child' = [child EXCEPT ![x] = c]
  BY ChildBefore DEF ChildCloses, Children
<1>3. /\ c \in Children /\ c.state = "closed"
      /\ c.stdin = child[x].stdin /\ c.stdout = child[x].stdout
      /\ c.read = child[x].read /\ c.out = child[x].out
  BY ChildBefore DEF Children, States
<1> HIDE DEF c
<1>4. x = Current /\ Busy
  BY <1>1, OnlyNewestRuns
<1>5. Sound(x, child[x], holds[x])
  BY DEF Flow
<1>6. /\ holds'[x] = holds[x] \ {<<Input(x), "write">>, <<Output(x), "read">>}
      /\ \A y \in 1..Exchanges : y # x => holds'[y] = holds[y]
  BY <1>1, ChildBefore DEF Processes
<1>7. Sound(x, c, holds'[x])
  BY <1>1, <1>3, <1>5, <1>6 DEF Sound, Input, Output
<1>8. ((sent[x] \o buf) \o pipe'[Output(x)]) \o c.out = <<Status>> \o Said(x, c)
  BY <1>1, <1>3, <1>4 DEF Flow, Downstream, Said
<1> QED
  BY <1>1, <1>2, <1>3, <1>6, <1>7, <1>8, ChildFlow

\* A program with no body to read has its page to write.
LEMMA ExecSucceedsFlow ==
  ASSUME Inductive, Flow, NEW x \in 1..Exchanges, ExecSucceeds(x)
  PROVE  Flow'
<1>1. /\ child[x].state = "closed" /\ requests[x].found
      /\ UNCHANGED <<pc, requests, left, buf, sent, shut, holds, pipe>>
      /\ child[x] \in Children /\ child \in [1..Exchanges -> Children]
  BY ChildBefore DEF ExecSucceeds
<1>2. /\ x = Current /\ Busy /\ x \in 1..Current
      /\ sent[x] \o buf \in Seq(Data) /\ pipe[Output(x)] \in Seq(Data)
      /\ requests[x] \in Requests
  BY <1>1, OnlyNewestRuns, FlowBefore, AnswerType
<1>3. Sound(x, child[x], holds[x])
  BY DEF Flow
<1>4. child[x].read = <<>> /\ child[x].out = <<>>
  BY <1>1, <1>3 DEF Sound
<1> DEFINE d == (sent[x] \o buf) \o pipe[Output(x)]
<1>5. d \in Seq(Data) /\ d \o <<>> = <<Status>> \o <<>>
  BY <1>1, <1>2, <1>4, Joined DEF Flow, Downstream, Said
<1>6. CASE requests[x].length # 0
  <2> DEFINE c == [child[x] EXCEPT !.state = "reading"]
  <2>1. child' = [child EXCEPT ![x] = c]
    BY <1>1, <1>6 DEF ExecSucceeds, Children
  <2>2. /\ c \in Children /\ c.state = "reading"
        /\ c.stdin = child[x].stdin /\ c.stdout = child[x].stdout
        /\ c.read = child[x].read /\ c.out = child[x].out
    BY <1>1 DEF Children, States
  <2> HIDE DEF c
  <2>3. Sound(x, c, holds'[x])
    BY <1>1, <1>3, <2>2 DEF Sound
  <2>4. ((sent[x] \o buf) \o pipe'[Output(x)]) \o c.out = <<Status>> \o Said(x, c)
    BY <1>1, <1>4, <1>5, <2>2 DEF Said
  <2> QED
    BY <1>1, <2>1, <2>2, <2>3, <2>4, ChildFlow
<1>7. CASE requests[x].length = 0
  <2> DEFINE c == [child[x] EXCEPT !.state = "writing", !.read = <<>>, !.out = <<>> \o Page]
  <2>1. child' = [child EXCEPT ![x] = c]
    BY <1>1, <1>7 DEF ExecSucceeds, Writes, Children
  <2>2. <<>> \o Page \in Seq(Data) /\ <<>> \in Seq(Data)
    BY PageType, Joined, EmptySeq
  <2>3. /\ c \in Children /\ c.state = "writing"
        /\ c.stdin = child[x].stdin /\ c.stdout = child[x].stdout
        /\ c.read = <<>> /\ c.out = <<>> \o Page
    BY <1>1, <2>2 DEF Children, States
  <2> HIDE DEF c
  <2>4. Body(requests[x]) = <<>>
    BY <1>2, <1>7, BodyLength
  <2>5. Sound(x, c, holds'[x])
    BY <1>1, <1>3, <2>3, <2>4 DEF Sound
  <2>6. Said(x, c) = c.out
    BY <1>1, <2>3, <2>4 DEF Said, Answer
  <2>7. d = <<Status>>
    <3>1. <<Status>> \in Seq(Data)
      BY <1>2, AnswerType
    <3> QED
      BY <1>5, <3>1, ConcatEmptySeq
  <2>8. ((sent[x] \o buf) \o pipe'[Output(x)]) \o c.out = <<Status>> \o Said(x, c)
    BY <1>1, <2>6, <2>7
  <2>9. c.read = child[x].read
    BY <1>4, <2>3
  <2> QED
    BY <1>1, <2>1, <2>3, <2>5, <2>8, <2>9, ChildFlow
<1> QED
  BY <1>6, <1>7

\* A child exits when it has written everything, or has no program to run.
LEMMA ExitsFlow ==
  ASSUME Inductive, Flow, NEW x \in 1..Exchanges, ExecFails(x) \/ ProgramExits(x)
  PROVE  Flow'
<1> DEFINE c == [child[x] EXCEPT !.state = "exited"]
<1>1. /\ child[x].state \notin {"none", "exited"} /\ child[x].out = <<>>
      /\ child[x].state = "writing" \/ ~requests[x].found
      /\ UNCHANGED <<pc, requests, left, buf, sent, shut, pipe>>
      /\ Exits(x)
  BY DEF ExecFails, ExitsAfterFailure, ProgramExits, Flow, Sound
<1>2. child' = [child EXCEPT ![x] = c]
  BY <1>1, ChildBefore DEF Exits, Children
<1>3. /\ c \in Children /\ c.state = "exited"
      /\ c.read = child[x].read /\ c.out = child[x].out
  BY ChildBefore DEF Children, States
<1> HIDE DEF c
<1>4. x = Current /\ Busy
  BY <1>1, OnlyNewestRuns
<1>5. Sound(x, child[x], holds[x])
  BY DEF Flow
<1>6. \A y \in 1..Exchanges : y # x => holds'[y] = holds[y]
  BY <1>1, ChildBefore DEF Exits, Processes
<1>7. Sound(x, c, holds'[x])
  BY <1>1, <1>3, <1>5 DEF Sound
<1>8. Said(x, c) = Said(x, child[x])
  <2>1. ~requests[x].found => Answer(x) = <<>>
    BY DEF Answer
  <2> QED
    BY <1>1, <1>3, <2>1 DEF Said
<1>9. ((sent[x] \o buf) \o pipe'[Output(x)]) \o c.out = <<Status>> \o Said(x, c)
  BY <1>1, <1>3, <1>4, <1>8 DEF Flow, Downstream
<1> QED
  BY <1>1, <1>2, <1>3, <1>6, <1>7, <1>9, ChildFlow

\* A part goes from the output of the program to the end of the pipe.
LEMMA ProgramWritesFlow ==
  ASSUME Inductive, Flow, NEW x \in 1..Exchanges, ProgramWrites(x)
  PROVE  Flow'
<1>1. /\ child[x].state = "writing"
      /\ UNCHANGED <<pc, requests, left, buf, sent, shut, holds>>
      /\ child[x] \in Children /\ child \in [1..Exchanges -> Children]
  BY ChildBefore DEF ProgramWrites
<1>2. /\ x = Current /\ Busy /\ sent[x] \o buf \in Seq(Data) /\ pipe[Output(x)] \in Seq(Data)
  BY <1>1, OnlyNewestRuns, FlowBefore
<1>3. Sound(x, child[x], holds[x])
  BY DEF Flow
<1>4. child[x].stdout = Output(x) /\ child[x].out \in Seq(Data)
  BY <1>1, <1>3 DEF Sound, Children
<1>5. PICK k \in 1..Len(child[x].out) :
        /\ pipe' = [pipe EXCEPT ![Output(x)] = @ \o SubSeq(child[x].out, 1, k)]
        /\ child' = [child EXCEPT ![x].out = Rest(@, k)]
  BY <1>4 DEF ProgramWrites, Puts
<1> DEFINE c == [child[x] EXCEPT !.out = Rest(child[x].out, k)]
<1>6. child' = [child EXCEPT ![x] = c]
  BY <1>1, <1>5 DEF Children
<1>7. Rest(child[x].out, k) \in Seq(Data)
  BY <1>4, TakeAndRest
<1>8. /\ c \in Children /\ c.state = "writing"
      /\ c.stdin = child[x].stdin /\ c.stdout = child[x].stdout
      /\ c.read = child[x].read /\ c.out = Rest(child[x].out, k)
  BY <1>1, <1>7 DEF Children, States
<1> HIDE DEF c
<1>9. Sound(x, c, holds'[x])
  BY <1>1, <1>3, <1>8 DEF Sound
<1>10. /\ pipe'[Output(x)] = pipe[Output(x)] \o SubSeq(child[x].out, 1, k)
       /\ \A y \in 1..Exchanges : /\ pipe'[Input(y)] = pipe[Input(y)]
                                  /\ y # x => pipe'[Output(y)] = pipe[Output(y)]
  BY <1>5, OnlyOutput
<1>11. ((sent[x] \o buf) \o pipe'[Output(x)]) \o c.out
         = ((sent[x] \o buf) \o pipe[Output(x)]) \o child[x].out
  <2> DEFINE a == sent[x] \o buf
             b == pipe[Output(x)]
             s == child[x].out
  <2>1. a \in Seq(Data) /\ b \in Seq(Data) /\ s \in Seq(Data) /\ k \in 1..Len(s)
    BY <1>2, <1>4
  <2>2. (a \o (b \o SubSeq(s, 1, k))) \o Rest(s, k) = (a \o b) \o s
    <3> HIDE DEF a, b, s
    <3> QED
      BY <2>1, MovedUp, SMTT(60)
  <2> QED
    BY <1>8, <1>10, <2>2
<1>12. ((sent[x] \o buf) \o pipe'[Output(x)]) \o c.out = <<Status>> \o Said(x, c)
  BY <1>1, <1>2, <1>8, <1>11 DEF Flow, Downstream, Said
<1> QED
  BY <1>1, <1>6, <1>8, <1>9, <1>10, <1>12, ChildFlow

\* A part goes from the pipe to what the program has read; when that is as long as the
\* body it is the body, and the program answers.
LEMMA ProgramReadsFlow ==
  ASSUME Inductive, Flow, NEW x \in 1..Exchanges, ProgramReads(x)
  PROVE  Flow'
<1>1. /\ child[x].state = "reading"
      /\ UNCHANGED <<pc, requests, left, buf, sent, shut, holds>>
      /\ child[x] \in Children /\ child \in [1..Exchanges -> Children]
  BY ChildBefore DEF ProgramReads
<1>2. /\ x = Current /\ x \in 1..Current /\ Busy /\ pc \in {"close", "write", "read"}
      /\ sent[x] \o buf \in Seq(Data) /\ left \in Seq(Data)
      /\ pipe[Input(x)] \in Seq(Data) /\ pipe[Output(x)] \in Seq(Data)
      /\ Request = requests[x]
  BY <1>1, OnlyNewestRuns, FlowBefore
<1>3. Sound(x, child[x], holds[x])
  BY DEF Flow
<1>4. /\ child[x].stdin = Input(x) /\ child[x].read \in Seq(Data) /\ child[x].out = <<>>
      /\ requests[x].found
  BY <1>1, <1>3 DEF Sound, Children
<1>5. /\ requests[x] \in Requests /\ Body(requests[x]) \in Seq(Data)
      /\ Len(Body(requests[x])) = requests[x].length
      /\ ToWrite \in Seq(Data)
  BY <1>2, AnswerType, BodyLength DEF ToWrite
<1>6. PICK k \in 1..Len(pipe[Input(x)]) :
        LET s == child[x].read \o SubSeq(pipe[Input(x)], 1, k)
        IN /\ pipe' = [pipe EXCEPT ![Input(x)] = Rest(@, k)]
           /\ IF Len(s) = requests[x].length THEN Writes(x, s)
              ELSE child' = [child EXCEPT ![x].read = s]
  BY <1>4 DEF ProgramReads
<1> DEFINE s == child[x].read \o SubSeq(pipe[Input(x)], 1, k)
<1> DEFINE r == Rest(pipe[Input(x)], k)
<1>7. s \in Seq(Data) /\ r \in Seq(Data) /\ s \o r = child[x].read \o pipe[Input(x)]
  BY <1>2, <1>4, TakeAndRest, Joined, Moved, ZenonT(60)
<1>8. /\ pipe' = [pipe EXCEPT ![Input(x)] = r]
      /\ IF Len(s) = requests[x].length THEN Writes(x, s)
         ELSE child' = [child EXCEPT ![x].read = s]
  BY <1>6
<1> HIDE DEF s, r
<1>9. /\ pipe'[Input(x)] = r
      /\ \A y \in 1..Exchanges : /\ pipe'[Output(y)] = pipe[Output(y)]
                                 /\ y # x => pipe'[Input(y)] = pipe[Input(y)]
  BY <1>8, OnlyInput
<1>10. (s \o r) \o ToWrite = Body(requests[x])
  BY <1>2, <1>4, <1>7 DEF Flow, Upstream
<1> DEFINE d == (sent[x] \o buf) \o pipe[Output(x)]
<1>11. d \in Seq(Data) /\ d \o <<>> = <<Status>> \o <<>>
  BY <1>1, <1>2, <1>4, Joined DEF Flow, Downstream, Said
<1>12. CASE Len(s) # requests[x].length
  <2> DEFINE c == [child[x] EXCEPT !.read = s]
  <2>1. child' = [child EXCEPT ![x] = c]
    BY <1>1, <1>8, <1>12 DEF Children
  <2>2. /\ c \in Children /\ c.state = "reading"
        /\ c.stdin = child[x].stdin /\ c.stdout = child[x].stdout
        /\ c.read = s /\ c.out = child[x].out
    BY <1>1, <1>7 DEF Children, States
  <2> HIDE DEF c
  <2>3. Sound(x, c, holds'[x])
    BY <1>1, <1>3, <2>2 DEF Sound
  <2>4. ((sent[x] \o buf) \o pipe'[Output(x)]) \o c.out = <<Status>> \o Said(x, c)
    BY <1>4, <1>9, <1>11, <2>2 DEF Said
  <2>5. (c.read \o pipe'[Input(x)]) \o ToWrite = (child[x].read \o pipe[Input(x)]) \o ToWrite
    BY <1>7, <1>9, <2>2
  <2> QED
    BY <1>1, <1>9, <2>1, <2>2, <2>3, <2>4, <2>5, ChildFlow
<1>13. CASE Len(s) = requests[x].length
  <2> DEFINE c == [child[x] EXCEPT !.state = "writing", !.read = s, !.out = s \o Page]
  <2>1. child' = [child EXCEPT ![x] = c]
    BY <1>1, <1>8, <1>13 DEF Writes, Children
  <2>2. s \o Page \in Seq(Data)
    BY <1>7, PageType, Joined
  <2>3. /\ c \in Children /\ c.state = "writing"
        /\ c.stdin = child[x].stdin /\ c.stdout = child[x].stdout
        /\ c.read = s /\ c.out = s \o Page
    BY <1>1, <1>7, <2>2 DEF Children, States
  <2> HIDE DEF c
  <2>4. s = Body(requests[x])
    <3> DEFINE u == ToWrite
               w == Body(requests[x])
    <3>1. /\ s \in Seq(Data) /\ r \in Seq(Data) /\ u \in Seq(Data) /\ w \in Seq(Data)
          /\ (s \o r) \o u = w /\ Len(s) = Len(w)
      BY <1>5, <1>7, <1>10, <1>13
    <3>2. s = w
      <4> HIDE DEF u, w
      <4> QED
        BY <3>1, PartIsWhole, SMTT(30)
    <3> QED
      BY <3>2
  <2>5. Sound(x, c, holds'[x])
    BY <1>1, <1>3, <1>4, <2>3, <2>4 DEF Sound
  <2>6. Said(x, c) = c.out
    BY <1>1, <1>4, <2>3, <2>4 DEF Said, Answer
  <2>7. d = <<Status>>
    <3>1. <<Status>> \in Seq(Data)
      BY <1>2, AnswerType
    <3> QED
      BY <1>11, <3>1, ConcatEmptySeq
  <2>8. ((sent[x] \o buf) \o pipe'[Output(x)]) \o c.out = <<Status>> \o Said(x, c)
    BY <1>9, <2>6, <2>7
  <2>9. (c.read \o pipe'[Input(x)]) \o ToWrite = (child[x].read \o pipe[Input(x)]) \o ToWrite
    BY <1>7, <1>9, <2>3
  <2> QED
    BY <1>1, <1>9, <2>1, <2>3, <2>5, <2>8, <2>9, ChildFlow
<1> QED
  BY <1>12, <1>13

\* Whatever a child does keeps the bytes in order.
LEMMA ChildStepFlow ==
  ASSUME Inductive, Flow, NEW x \in 1..Exchanges, ChildStep(x)
  PROVE  Flow'
BY ChildRedirectsFlow, ChildClosesFlow, ExecSucceedsFlow, ExitsFlow, ProgramReadsFlow,
   ProgramWritesFlow DEF ChildStep

-----------------------------------------------------------------------------
(* Every step of the server moves a part up                                *)

\* A new exchange starts with all pipes empty.
LEMMA ExecuteCgiFlow ==
  ASSUME Inductive, Flow, ExecuteCgi
  PROVE  Flow'
<1> DEFINE x == Current + 1
<1>1. /\ pc = "loop" /\ pc' = "fork" /\ x \in 1..Exchanges /\ ~Busy /\ Busy'
      /\ holds' = [holds EXCEPT ![Server] = @ \cup EndsOf(Output(x)) \cup EndsOf(Input(x))]
      /\ sent' = [sent EXCEPT ![x] = <<Status>>]
      /\ UNCHANGED <<left, buf, shut, pipe, child>>
  BY ServerBefore, ConstantsAssumption DEF ExecuteCgi, Busy
<1>2. PICK r \in Requests : requests' = Append(requests, r)
  BY DEF ExecuteCgi
<1>3. /\ Current' = x /\ requests'[x] = r
      /\ \A y \in 1..Current : requests'[y] = requests[y]
      /\ Current \in Nat
  BY <1>2, ServerBefore DEF Current
<1>4. <<Status>> \in Seq(Data) /\ Body(r) \in Seq(Data)
  <2>1. Status \in Data
    BY DEF Status, Data
  <2> QED
    BY <2>1, BodyType
<1>5. /\ sent' \in [1..Exchanges -> Seq(Data)] /\ sent'[x] = <<Status>>
      /\ \A y \in 1..Exchanges : y # x => sent'[y] = sent[y]
  BY <1>1, <1>4 DEF Flow
<1>6. \A y \in 1..Exchanges : holds'[y] = holds[y]
  BY <1>1, ServerBefore DEF Server
<1>7. \A y \in 1..Exchanges : y > Current => child[y].state = "none"
  BY <1>1 DEF Inductive, Newest
<1>8. Settled'
  <2>1. ASSUME NEW y \in 1..Current
        PROVE  (child[y].state \in {"none", "exited"} /\ sent[y] = <<Status>> \o Answer(y))'
    <3>1. child[y].state \in {"none", "exited"} /\ sent[y] = <<Status>> \o Answer(y)
      BY <1>1 DEF Flow, Settled
    <3>2. Answer(y)' = Answer(y)
      BY <1>1, <1>3 DEF Answer
    <3>3. y \in 1..Exchanges /\ y # x
      BY <1>1, <1>3, ConstantsAssumption
    <3> QED
      BY <1>1, <1>5, <3>1, <3>2, <3>3
  <2>2. \A y \in 1..Current' : y < Current' => y \in 1..Current
    BY <1>3
  <2>3. \A y \in shut : y < x
    BY <1>3, ServerBefore
  <2> QED
    BY <1>1, <1>3, <2>1, <2>2, <2>3 DEF Settled
<1>9. left = <<>> /\ buf = <<>> /\ Idle'
  BY <1>1 DEF Flow, Idle
<1>10. ASSUME NEW y \in 1..Exchanges PROVE Sound(y, child[y], holds[y])'
  <2>1. Sound(y, child[y], holds[y])
    BY DEF Flow
  <2>2. CASE y <= Current
    <3>1. requests'[y] = requests[y]
      BY <1>3, <2>2
    <3> QED
      BY <1>1, <1>6, <2>1, <3>1 DEF Sound
  <2>3. CASE y > Current
    BY <1>1, <1>6, <1>7, <2>1, <2>3 DEF Sound
  <2> QED
    BY <1>3, <2>2, <2>3
<1>11. /\ child[x].state = "none" /\ child[x].read = <<>> /\ child[x].out = <<>>
       /\ pipe[Input(x)] = <<>> /\ pipe[Output(x)] = <<>>
  <2>1. child[x].state = "none"
    BY <1>1, <1>3, <1>7
  <2>2. Sound(x, child[x], holds[x]) /\ Idle
    BY <1>1 DEF Flow
  <2>3. child[x].read = <<>> /\ child[x].out = <<>>
    BY <2>1, <2>2 DEF Sound
  <2>4. pipe[Input(x)] = <<>> /\ pipe[Output(x)] = <<>>
    BY <1>1, <2>1, <2>2 DEF Idle
  <2> QED
    BY <2>1, <2>3, <2>4
<1>12. Upstream'
  <2>1. ToWrite' = Body(r) /\ Request' = r
    BY <1>1, <1>3 DEF ToWrite, Request, Last, Current
  <2>2. (<<>> \o <<>>) \o Body(r) = Body(r)
    BY <1>4, EmptySeq, ConcatEmptySeq
  <2> QED
    BY <1>1, <1>3, <1>11, <2>1, <2>2 DEF Upstream
<1>13. Downstream'
  <2>1. ((<<Status>> \o <<>>) \o <<>>) \o <<>> = <<Status>> \o <<>>
    BY <1>4, ConcatEmptySeq
  <2> QED
    BY <1>1, <1>3, <1>5, <1>9, <1>11, <2>1 DEF Downstream, Said
<1> QED
  BY <1>5, <1>8, <1>9, <1>10, <1>12, <1>13 DEF Flow

\* Neither pipe() nor fork() moves anything.
LEMMA PipeThrowsFlow ==
  ASSUME Inductive, Flow, PipeThrows
  PROVE  Flow'
<1>1. /\ pc = "loop" /\ pc' = "thrown" /\ ~Busy /\ ~Busy' /\ Current' = Current
      /\ UNCHANGED <<requests, left, buf, sent, shut, pipe, child>>
  BY DEF PipeThrows, Busy, Current
<1>2. \A y \in 1..Exchanges : holds'[y] = holds[y]
  BY <1>1, ServerBefore DEF PipeThrows, Server
<1>3. Settled' /\ Idle' /\ Upstream' /\ Downstream'
  BY <1>1 DEF Flow, Settled, Answer, Idle, Upstream, Downstream
<1>4. \A y \in 1..Exchanges : Sound(y, child[y], holds[y])'
  BY <1>1, <1>2 DEF Flow, Sound
<1> QED
  BY <1>1, <1>3, <1>4 DEF Flow

\* The child inherits all the ends of its exchange.
LEMMA ForkFlow ==
  ASSUME Inductive, Flow, Fork
  PROVE  Flow'
<1> DEFINE x == Current
<1> DEFINE c == [child[x] EXCEPT !.state = "forked"]
<1>1. /\ pc = "fork" /\ pc' = "close" /\ Busy /\ Busy' /\ Current' = x
      /\ x \in 1..Exchanges /\ child[x] \in Children /\ x \in Processes
      /\ holds' = [holds EXCEPT ![x] = holds[Server]]
      /\ UNCHANGED <<requests, left, buf, sent, shut, pipe>>
      /\ child' = [child EXCEPT ![x] = c]
  BY ServerBefore, ChildBefore DEF Fork, Busy, Current, Children
<1>2. /\ child'[x].state = "forked" /\ child[x].state = "none"
      /\ child'[x].read = child[x].read /\ child'[x].out = child[x].out
      /\ \A y \in 1..Exchanges : y # x => child'[y] = child[y] /\ holds'[y] = holds[y]
  <2>1. child'[x] = c /\ \A y \in 1..Exchanges : y # x => child'[y] = child[y]
    BY <1>1, ServerBefore
  <2>2. c.state = "forked" /\ c.read = child[x].read /\ c.out = child[x].out
    BY <1>1 DEF Children
  <2>3. \A y \in 1..Exchanges : y # x => holds'[y] = holds[y]
    BY <1>1, ServerBefore DEF Processes
  <2>4. child[x].state = "none"
    BY <1>1 DEF Inductive, Newest
  <2> QED
    BY <2>1, <2>2, <2>3, <2>4
<1>3. <<Input(x), "read">> \in holds'[x] /\ <<Output(x), "write">> \in holds'[x]
  <2>1. holds'[x] = KeptOpen
    BY <1>1, ServerBefore DEF Inductive, ServerHolds
  <2>2. Kept(x) \subseteq KeptOpen
    BY <1>1 DEF KeptOpen
  <2> QED
    BY <1>2, <2>1, <2>2 DEF Kept, EndsOf
<1>4. \A y \in 1..Current : y \in 1..Exchanges
  BY <1>1, ConstantsAssumption
<1>5. Settled'
  <2>1. ASSUME NEW y \in 1..Current, y < Current
        PROVE  (child[y].state \in {"none", "exited"} /\ sent[y] = <<Status>> \o Answer(y))'
    <3>1. child[y].state \in {"none", "exited"} /\ sent[y] = <<Status>> \o Answer(y)
      BY <2>1 DEF Flow, Settled
    <3>2. child'[y] = child[y]
      BY <1>1, <1>2, <1>4, <2>1
    <3>3. Answer(y)' = Answer(y)
      BY <1>1, <3>2 DEF Answer
    <3> QED
      BY <1>1, <3>1, <3>2, <3>3
  <2>2. \A y \in shut : y < Current
    BY <1>1 DEF Flow, Settled
  <2> QED
    BY <1>1, <2>1, <2>2 DEF Settled
<1>6. Idle'
  BY <1>1, <1>2 DEF Flow, Idle
<1>7. ASSUME NEW y \in 1..Exchanges PROVE Sound(y, child[y], holds[y])'
  <2>1. Sound(y, child[y], holds[y])
    BY DEF Flow
  <2>2. CASE y = x
    BY <1>2, <1>3, <2>1, <2>2 DEF Sound
  <2>3. CASE y # x
    BY <1>1, <1>2, <2>1, <2>3 DEF Sound
  <2> QED
    BY <2>2, <2>3
<1>8. Upstream'
  <2>1. ToWrite' = ToWrite /\ Request' = Request
    BY <1>1 DEF ToWrite, Request
  <2> QED
    BY <1>1, <1>2, <2>1 DEF Flow, Upstream
<1>9. Downstream'
  BY <1>1, <1>2 DEF Flow, Downstream, Said
<1> QED
  BY <1>1, <1>5, <1>6, <1>7, <1>8, <1>9 DEF Flow

\* Without a child the client has been sent the status line and nothing more is due.
LEMMA ForkFailsFlow ==
  ASSUME Inductive, Flow, ForkFails
  PROVE  Flow'
<1> DEFINE x == Current
<1>1. /\ pc = "fork" /\ pc' = "loop" /\ Busy /\ ~Busy' /\ Current' = x
      /\ x \in 1..Exchanges
      /\ UNCHANGED <<requests, left, buf, sent, shut, holds, pipe, child>>
  BY ServerBefore DEF ForkFails, Busy, Current
<1>2. /\ child[x].state = "none" /\ buf = <<>> /\ pipe[Output(x)] = <<>>
      /\ child[x].out = <<>>
  <2>1. child[x].state = "none"
    BY <1>1 DEF Inductive, Newest
  <2>2. Sound(x, child[x], holds[x]) /\ Idle
    BY <1>1 DEF Flow
  <2> QED
    BY <1>1, <2>1, <2>2 DEF Sound, Idle
<1>3. sent[x] = <<Status>> \o <<>>
  <2>1. ((sent[x] \o <<>>) \o <<>>) \o <<>> = <<Status>> \o <<>>
    BY <1>1, <1>2 DEF Flow, Downstream, Said
  <2>2. sent[x] \in Seq(Data)
    BY <1>1, FlowBefore
  <2> QED
    BY <2>1, <2>2, ConcatEmptySeq
<1>4. Answer(x) = <<>>
  BY <1>2 DEF Answer
<1>5. Settled'
  <2>1. ASSUME NEW y \in 1..Current
        PROVE  child[y].state \in {"none", "exited"} /\ sent[y] = <<Status>> \o Answer(y)
    <3>1. CASE y = x
      BY <1>2, <1>3, <1>4, <3>1
    <3>2. CASE y # x
      BY <1>1, <3>2 DEF Flow, Settled
    <3> QED
      BY <3>1, <3>2
  <2> QED
    BY <1>1, <2>1 DEF Settled, Answer
<1>6. Idle' /\ Upstream' /\ Downstream'
  BY <1>1 DEF Flow, Idle, Upstream, Downstream
<1>7. \A y \in 1..Exchanges : Sound(y, child[y], holds[y])'
  BY <1>1 DEF Flow, Sound
<1> QED
  BY <1>1, <1>5, <1>6, <1>7 DEF Flow

\* The body of a POST is what the server has to write; a GET has none.
LEMMA ServerClosesFlow ==
  ASSUME Inductive, Flow, ServerCloses
  PROVE  Flow'
<1>1. /\ pc = "close" /\ pc' \in {"read", "write"} /\ Busy /\ Busy' /\ Current' = Current
      /\ pc' # "write" => left' = <<>>
      /\ UNCHANGED <<requests, buf, sent, shut, pipe, child>>
      /\ Request' = Request
  BY DEF ServerCloses, Busy, Current, Request
<1>2. /\ Current \in 1..Exchanges /\ Current \in 1..Current /\ sent[Current] \in Seq(Data)
      /\ Request = requests[Current] /\ Request \in Requests
  BY <1>1, FlowBefore, ServerBefore
<1>3. \A y \in 1..Exchanges : holds'[y] = holds[y]
  BY ServerBefore DEF ServerCloses, Server
<1>4. left' = Body(Request)
  <2>1. Request.method \in {"GET", "POST"}
    BY <1>2 DEF Requests
  <2>2. Request.method = "GET" => Body(Request) = <<>>
    BY <1>2, BodyLength
  <2> QED
    BY <2>1, <2>2 DEF ServerCloses
<1>5. ToWrite' = ToWrite
  BY <1>1, <1>4 DEF ToWrite
<1>6. Upstream'
  BY <1>1, <1>5 DEF Flow, Upstream
<1>7. Downstream'
  BY <1>1 DEF Flow, Downstream, Said, Answer
<1>8. sent' = [sent EXCEPT ![Current] = sent[Current]]
  BY <1>1 DEF Flow
<1>9. buf = <<>>
  BY <1>1 DEF Flow, Idle
<1> QED
  BY <1>1, <1>2, <1>3, <1>6, <1>7, <1>8, <1>9, ServerFlow

\* A part goes from what the server has to write to the end of the pipe.
LEMMA ServerWritesFlow ==
  ASSUME Inductive, Flow, ServerWrites
  PROVE  Flow'
<1> DEFINE x == Current
<1>1. /\ pc = "write" /\ pc' \in {"read", "write"} /\ Busy /\ Busy' /\ Current' = x
      /\ pc' # "write" => left' = <<>>
      /\ UNCHANGED <<requests, buf, sent, shut, holds, child>>
      /\ Request' = Request
  BY DEF ServerWrites, Busy, Current, Request
<1>2. /\ x \in 1..Exchanges /\ sent[x] \in Seq(Data) /\ left \in Seq(Data)
      /\ child[x] \in Children /\ pipe[Input(x)] \in Seq(Data)
  BY <1>1, FlowBefore
<1>3. PICK k \in 1..Len(left) :
        /\ pipe' = [pipe EXCEPT ![Input(x)] = @ \o SubSeq(left, 1, k)]
        /\ left' = Rest(left, k)
  BY DEF ServerWrites, Puts, LeftAfter
<1>4. /\ pipe'[Input(x)] = pipe[Input(x)] \o SubSeq(left, 1, k)
      /\ \A y \in 1..Exchanges : /\ pipe'[Output(y)] = pipe[Output(y)]
                                 /\ y # x => pipe'[Input(y)] = pipe[Input(y)]
  BY <1>2, <1>3, OnlyInput
<1>5. Upstream'
  <2> DEFINE a == child[x].read
             b == pipe[Input(x)]
             s == left
  <2>1. a \in Seq(Data) /\ b \in Seq(Data) /\ s \in Seq(Data) /\ k \in 1..Len(s)
    BY <1>2 DEF Children
  <2>2. (a \o (b \o SubSeq(s, 1, k))) \o Rest(s, k) = (a \o b) \o s
    <3> HIDE DEF a, b, s
    <3> QED
      BY <2>1, MovedUp, SMTT(60)
  <2>3. ToWrite = left /\ ToWrite' = left'
    BY <1>1 DEF ToWrite
  <2> QED
    BY <1>1, <1>3, <1>4, <2>2, <2>3 DEF Flow, Upstream
<1>6. Downstream'
  BY <1>1, <1>2, <1>4 DEF Flow, Downstream, Said, Answer
<1>7. sent' = [sent EXCEPT ![x] = sent[x]]
  BY <1>1 DEF Flow
<1>8. pc' # "read" => buf' = <<>>
  BY <1>1 DEF Flow, Idle
<1> QED
  BY <1>1, <1>2, <1>4, <1>5, <1>6, <1>7, <1>8, ServerFlow

\* What is written to a child that is gone was not wanted: a child that has read all of
\* the body leaves nothing to write.
LEMMA WriteFailsFlow ==
  ASSUME Inductive, Flow, WriteFails
  PROVE  Flow'
<1> DEFINE x == Current
<1>1. /\ pc = "write" /\ pc' = "read" /\ Busy /\ Busy' /\ Current' = x /\ left' = <<>>
      /\ UNCHANGED <<requests, buf, sent, shut, holds, pipe, child>>
      /\ Request' = Request
  BY DEF WriteFails, Busy, Current, Request
<1>2. /\ x \in 1..Exchanges /\ x \in 1..Current /\ x \in Processes
      /\ sent[x] \in Seq(Data) /\ left \in Seq(Data)
      /\ child[x] \in Children /\ pipe[Input(x)] \in Seq(Data) /\ Request = requests[x]
  BY <1>1, FlowBefore, ConstantsAssumption DEF Processes
<1>3. child[x].state = "exited"
  <2>1. <<Input(x), "read">> \notin holds[x]
    BY <1>2 DEF WriteFails, IsOpen
  <2>2. Sound(x, child[x], holds[x]) /\ child[x].state # "none"
    BY <1>1, <1>2 DEF Flow, Inductive, Newest
  <2> QED
    BY <2>1, <2>2 DEF Sound
<1>4. Request.found => left = <<>>
  <2> SUFFICES ASSUME Request.found PROVE left = <<>>
    OBVIOUS
  <2> DEFINE s == child[x].read
             t == pipe[Input(x)]
             w == Body(requests[x])
  <2>1. s = w
    <3>1. Sound(x, child[x], holds[x])
      BY <1>2 DEF Flow
    <3> QED
      BY <1>2, <1>3, <3>1 DEF Sound
  <2>2. (s \o t) \o left = w
    BY <1>1, <1>2 DEF Flow, Upstream, ToWrite
  <2>3. s \in Seq(Data) /\ t \in Seq(Data) /\ w \in Seq(Data)
    BY <1>2, AnswerType DEF Children
  <2> HIDE DEF s, t, w
  <2> QED
    BY <1>2, <2>1, <2>2, <2>3, PartIsWhole
<1>5. Upstream'
  <2>1. ToWrite = left /\ ToWrite' = left'
    BY <1>1 DEF ToWrite
  <2> QED
    BY <1>1, <1>4, <2>1 DEF Flow, Upstream
<1>6. Downstream'
  BY <1>1 DEF Flow, Downstream, Said, Answer
<1>7. sent' = [sent EXCEPT ![x] = sent[x]]
  BY <1>1 DEF Flow
<1> QED
  BY <1>1, <1>2, <1>5, <1>6, <1>7, ServerFlow

\* A part goes from the pipe to the end of the buffer, and from there, if the buffer is
\* full, to the client.
LEMMA ServerReadsFlow ==
  ASSUME Inductive, Flow, ServerReads
  PROVE  Flow'
<1> DEFINE x == Current
           p == pipe[Output(x)]
<1>1. /\ pc = "read" /\ pc' = "read" /\ Busy /\ Busy' /\ Current' = x
      /\ UNCHANGED <<requests, left, shut, holds, child>>
      /\ Request' = Request
  BY DEF ServerReads, Busy, Current, Request
<1>2. /\ x \in 1..Exchanges /\ sent[x] \in Seq(Data) /\ buf \in Seq(Data)
      /\ sent[x] \o buf \in Seq(Data) /\ p \in Seq(Data)
  BY <1>1, FlowBefore
<1>3. PICK k \in 1..Len(p) :
        LET got == buf \o SubSeq(p, 1, k)
        IN /\ pipe' = [pipe EXCEPT ![Output(x)] = Rest(@, k)]
           /\ buf' = IF Full(got) THEN <<>> ELSE got
           /\ sent' = IF Full(got) THEN [sent EXCEPT ![x] = @ \o got] ELSE sent
  BY DEF ServerReads
<1> DEFINE take == SubSeq(p, 1, k)
           rest == Rest(p, k)
<1>4. take \in Seq(Data) /\ rest \in Seq(Data) /\ buf \o take \in Seq(Data)
  BY <1>2, TakeAndRest, Joined
<1>5. /\ pipe'[Output(x)] = rest
      /\ \A y \in 1..Exchanges : /\ pipe'[Input(y)] = pipe[Input(y)]
                                 /\ y # x => pipe'[Output(y)] = pipe[Output(y)]
  BY <1>2, <1>3, OnlyOutput
<1>6. (sent[x] \o (buf \o take)) \o rest = (sent[x] \o buf) \o p
  <2> DEFINE a == sent[x]
             b == buf
             t == p
  <2>1. a \in Seq(Data) /\ b \in Seq(Data) /\ t \in Seq(Data) /\ k \in 1..Len(t)
    BY <1>2
  <2>2. (a \o (b \o SubSeq(t, 1, k))) \o Rest(t, k) = (a \o b) \o t
    <3> HIDE DEF a, b, t
    <3> QED
      BY <2>1, MovedUp, SMTT(60)
  <2> QED
    BY <2>2
<1>7. PICK s \in Seq(Data) : /\ sent' = [sent EXCEPT ![x] = s]
                             /\ s \o buf' = sent[x] \o (buf \o take)
  <2>1. CASE Full(buf \o take)
    <3> DEFINE s == sent[x] \o (buf \o take)
    <3>1. s \in Seq(Data)
      BY <1>2, <1>4, Joined
    <3>2. sent' = [sent EXCEPT ![x] = s] /\ buf' = <<>>
      BY <1>3, <2>1
    <3>3. s \o <<>> = s
      BY <3>1, ConcatEmptySeq
    <3> QED
      BY <3>1, <3>2, <3>3
  <2>2. CASE ~Full(buf \o take)
    <3>1. sent' = sent /\ buf' = buf \o take
      BY <1>3, <2>2
    <3>2. sent' = [sent EXCEPT ![x] = sent[x]]
      BY <3>1 DEF Flow
    <3> QED
      BY <1>2, <3>1, <3>2
  <2> QED
    BY <2>1, <2>2
<1>8. sent'[x] = s
  BY <1>2, <1>7 DEF Flow
<1>9. (sent'[x] \o buf') \o pipe'[Output(x)] = (sent[x] \o buf) \o pipe[Output(x)]
  BY <1>5, <1>7, <1>8, <1>6
<1>10. Downstream'
  BY <1>1, <1>9 DEF Flow, Downstream, Said, Answer
<1>11. Upstream'
  <2>1. ToWrite' = ToWrite
    BY <1>1 DEF ToWrite
  <2> QED
    BY <1>1, <1>2, <1>5, <2>1 DEF Flow, Upstream
<1>12. left = <<>>
  BY <1>1 DEF Flow, Idle
<1> QED
  BY <1>1, <1>5, <1>7, <1>10, <1>11, <1>12, ServerFlow

\* Nobody can write any more only if the child is gone, so that the answer is complete.
LEMMA ServerReadsEndFlow ==
  ASSUME Inductive, Flow, ServerReadsEnd
  PROVE  Flow'
<1> DEFINE x == Current
<1>1. /\ pc = "read" /\ pc' = "loop" /\ Busy /\ ~Busy' /\ Current' = x
      /\ pipe[Output(x)] = <<>> /\ ~IsOpen(<<Output(x), "write">>)
      /\ sent' = [sent EXCEPT ![x] = @ \o buf] /\ buf' = <<>>
      /\ shut' \subseteq shut \cup {x}
      /\ UNCHANGED <<requests, left, holds, pipe, child>>
  BY DEF ServerReadsEnd, Busy, Current
<1>2. /\ x \in 1..Exchanges /\ x \in 1..Current /\ x \in Processes
      /\ sent[x] \o buf \in Seq(Data)
  BY <1>1, FlowBefore, ConstantsAssumption DEF Processes
<1>3. child[x].state = "exited" /\ child[x].out = <<>>
  <2>1. <<Output(x), "write">> \notin holds[x]
    BY <1>1, <1>2 DEF IsOpen
  <2>2. Sound(x, child[x], holds[x]) /\ child[x].state # "none"
    BY <1>1, <1>2 DEF Flow, Inductive, Newest
  <2> QED
    BY <2>1, <2>2 DEF Sound
<1>4. sent[x] \o buf = <<Status>> \o Answer(x)
  <2>1. ((sent[x] \o buf) \o <<>>) \o <<>> = <<Status>> \o Answer(x)
    BY <1>1, <1>3 DEF Flow, Downstream, Said
  <2> QED
    BY <1>2, <2>1, ConcatEmptySeq
<1>5. /\ sent' \in [1..Exchanges -> Seq(Data)]
      /\ sent'[x] = sent[x] \o buf
      /\ \A y \in 1..Exchanges : y # x => sent'[y] = sent[y]
  BY <1>1, <1>2 DEF Flow
<1>6. Settled'
  <2>1. ASSUME NEW y \in 1..Current
        PROVE  child[y].state \in {"none", "exited"} /\ sent'[y] = <<Status>> \o Answer(y)
    <3>1. CASE y = x
      BY <1>3, <1>4, <1>5, <3>1
    <3>2. CASE y # x
      <4>1. y < Current /\ y \in 1..Exchanges
        BY <1>2, <3>2, ConstantsAssumption
      <4> QED
        BY <1>5, <3>2, <4>1 DEF Flow, Settled
    <3> QED
      BY <3>1, <3>2
  <2> QED
    BY <1>1, <2>1 DEF Settled, Answer
<1>7. Idle'
  BY <1>1 DEF Flow, Idle
<1>8. Upstream' /\ Downstream'
  BY <1>1 DEF Upstream, Downstream
<1>9. \A y \in 1..Exchanges : Sound(y, child[y], holds[y])'
  BY <1>1 DEF Flow, Sound
<1> QED
  BY <1>5, <1>6, <1>7, <1>8, <1>9 DEF Flow

-----------------------------------------------------------------------------
(* The theorems                                                            *)

\* Nothing has been sent in the beginning.
LEMMA InitFlow == Init => Flow
<1> SUFFICES ASSUME Init PROVE Flow
  OBVIOUS
<1>1. Current = 0 /\ ~Busy /\ shut = {} /\ left = <<>> /\ buf = <<>>
  BY DEF Init, Current, Busy
<1>2. \A x \in 1..Exchanges : child[x] = NoChild
  BY DEF Init
<1>3. sent \in [1..Exchanges -> Seq(Data)]
  BY EmptySeq DEF Init
<1>4. \A x \in 1..Exchanges : pipe[Input(x)] = <<>> /\ pipe[Output(x)] = <<>>
  BY DEF Init, Input, Output, Pipes
<1>5. \A x \in 1..Exchanges : Sound(x, child[x], holds[x])
  BY <1>2 DEF Sound, NoChild
<1>6. Settled
  <2>1. 1..Current = {}
    BY <1>1
  <2> QED
    BY <1>1, <2>1 DEF Settled
<1>7. Idle
  BY <1>1, <1>4 DEF Idle
<1>8. Upstream /\ Downstream
  BY <1>1 DEF Upstream, Downstream
<1> QED
  BY <1>3, <1>5, <1>6, <1>7, <1>8 DEF Flow

\* The bytes are in order in every reachable state.
THEOREM FlowHolds == Spec => []Flow
<1>1. Inductive /\ Flow /\ [Next]_vars => Flow'
  <2> SUFFICES ASSUME Inductive, Flow, [Next]_vars PROVE Flow'
    OBVIOUS
  <2>1. CASE UNCHANGED vars
    <3>1. Settled' /\ Idle'
      BY <2>1 DEF vars, Flow, Settled, Idle, Busy, Answer, Current
    <3>2. Upstream' /\ Downstream'
      BY <2>1 DEF vars, Flow, Upstream, Downstream, Busy, ToWrite, Said, Answer, Current, Request
    <3>3. \A y \in 1..Exchanges : Sound(y, child[y], holds[y])'
      BY <2>1 DEF vars, Flow, Sound
    <3> QED
      BY <2>1, <3>1, <3>2, <3>3 DEF vars, Flow
  <2>2. CASE ExecuteCgi \/ PipeThrows
    BY <2>2, ExecuteCgiFlow, PipeThrowsFlow
  <2>3. CASE ServerStep
    BY <2>3, ForkFlow, ForkFailsFlow, ServerClosesFlow, ServerWritesFlow, WriteFailsFlow,
       ServerReadsFlow, ServerReadsEndFlow DEF ServerStep
  <2>4. ASSUME NEW x \in 1..Exchanges, ChildStep(x) PROVE Flow'
    BY <2>4, ChildStepFlow
  <2> QED
    BY <2>1, <2>2, <2>3, <2>4 DEF Next
<1> QED
  BY <1>1, InitFlow, InductiveHolds, PTL DEF Spec

\* A client is sent the status line and then, in order and without a gap, what the
\* program of its own request writes, all of it by the time the loop is back: for any
\* capacity of the pipes, any buffer, body and page.
THEOREM AnswersAreExact == Spec => []AnswerIsExact
<1>1. Inductive /\ Flow => AnswerIsExact
  <2> SUFFICES ASSUME Inductive, Flow, NEW x \in 1..Current
               PROVE  /\ IsPrefix(sent[x], <<Status>> \o Answer(x))
                      /\ x < Current \/ pc \in {"loop", "thrown"} =>
                           sent[x] = <<Status>> \o Answer(x)
                      /\ x \in shut => sent[x] = <<Status>> \o Answer(x)
    BY DEF AnswerIsExact
  <2>1. /\ x \in 1..Exchanges /\ sent[x] \in Seq(Data)
        /\ Answer(x) \in Seq(Data) /\ <<Status>> \in Seq(Data)
        /\ <<Status>> \o Answer(x) \in Seq(Data)
    BY ServerBefore, AnswerType, Joined, ConstantsAssumption DEF Flow
  <2>2. CASE x < Current \/ ~Busy
    <3>1. sent[x] = <<Status>> \o Answer(x)
      BY <2>2 DEF Flow, Settled
    <3>2. IsPrefix(sent[x], sent[x] \o <<>>) /\ sent[x] \o <<>> = sent[x]
      BY <2>1, StartIsPrefix, EmptySeq, ConcatEmptySeq
    <3> QED
      BY <3>1, <3>2
  <2>3. CASE x = Current /\ Busy
    <3> DEFINE p == pipe[Output(x)]
               o == child[x].out
    <3>1. buf \in Seq(Data) /\ p \in Seq(Data) /\ o \in Seq(Data) /\ sent[x] \o buf \in Seq(Data)
      BY <2>3, FlowBefore DEF Children
    <3>2. /\ p \o o \in Seq(Data) /\ buf \o (p \o o) \in Seq(Data)
      BY <3>1, Joined
    <3>3. ((sent[x] \o buf) \o p) \o o = sent[x] \o (buf \o (p \o o))
      <4> DEFINE a == sent[x]
                 b == buf
      <4>1. a \in Seq(Data) /\ b \in Seq(Data) /\ p \in Seq(Data) /\ o \in Seq(Data)
        BY <2>1, <3>1
      <4>2. ((a \o b) \o p) \o o = a \o (b \o (p \o o))
        <5> HIDE DEF a, b, p, o
        <5> QED
          BY <4>1, FourParts, SMTT(60)
      <4> QED
        BY <4>2
    <3>4. IsPrefix(sent[x], <<Status>> \o Said(x, child[x]))
      <4>1. sent[x] \o (buf \o (p \o o)) = <<Status>> \o Said(x, child[x])
        BY <2>3, <3>3 DEF Flow, Downstream
      <4> QED
        BY <2>1, <3>2, <4>1, StartIsPrefix
    <3>5. IsPrefix(sent[x], <<Status>> \o Answer(x))
      <4>1. CASE Said(x, child[x]) = Answer(x)
        BY <3>4, <4>1
      <4>2. CASE Said(x, child[x]) = <<>>
        <5> DEFINE s == sent[x]
                   a == Answer(x)
                   h == <<Status>>
        <5>1. s \in Seq(Data) /\ a \in Seq(Data) /\ h \in Seq(Data) /\ IsPrefix(s, h)
          BY <2>1, <3>4, <4>2, ConcatEmptySeq
        <5>2. IsPrefix(s, h \o a)
          <6> HIDE DEF s, a, h
          <6> QED
            BY <5>1, PrefixOfLonger
        <5> QED
          BY <5>2
      <4> QED
        BY <4>1, <4>2 DEF Said
    <3>6. x \notin shut /\ pc \notin {"loop", "thrown"}
      BY <2>3 DEF Flow, Settled, Busy
    <3> QED
      BY <2>3, <3>5, <3>6
  <2>4. Current \in Nat
    BY ServerBefore
  <2> QED
    BY <2>2, <2>3, <2>4
<1> QED
  BY <1>1, InductiveHolds, FlowHolds, PTL
=============================================================================
