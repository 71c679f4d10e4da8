----------------------------- MODULE HttpParser -----------------------------
(***************************************************************************)
(* HttpParser::Parse() as HttpSession uses it: the bytes of a client       *)
(* arrive in pieces, each piece is appended to the connection's buffer,    *)
(* and OnMessage() parses the buffer once, with a parser and a request of  *)
(* its own.  One step is one turn of the loop of Parse().                  *)
(*                                                                         *)
(* The client's bytes are a sequence of units: the text of a line, the     *)
(* "\r\n" that ends a line, or one byte of a body.  A text is a request    *)
(* line or a header field, a record of what the parser takes from it.  It  *)
(* stands for all the characters up to its line end.                       *)
(***************************************************************************)
EXTENDS Integers, SequencesExt

CONSTANT Streams  \* what a client may send on one connection

CRLF == [unit |-> "crlf"]
Byte == [unit |-> "byte"]
RequestLine(method, url, version) ==
  [unit |-> "line", method |-> method, url |-> url, version |-> version]
Field(name, value) == [unit |-> "field", name |-> name, value |-> value]
NoColon == [unit |-> "text"]

NoLength == -1  \* the uint64_t -1, also what strtoull() makes of "-1"

\* A text that is not the last thing a client sends is followed by its line end, and
\* what strtoull() makes of a Content-Length is a number or NoLength.
TextsAreLines(s) == \A i \in 1..(Len(s) - 1) :
                      s[i].unit \in {"line", "field", "text"} => s[i + 1] = CRLF

ASSUME StreamsAssumption ==
  \A s \in Streams :
    /\ s \in Seq(ToSet(s)) /\ TextsAreLines(s)
    /\ \A u \in ToSet(s) : u.unit = "field" /\ u.name = "Content-Length" =>
                            u.value \in Nat \cup {NoLength}

\* content_length_ of a new parser.  (The first form: no initializer.)
InitialLengthUnset == -7
InitialLength == NoLength

VARIABLES wire,            \* what the client has not sent yet
          buffer,          \* the input buffer of the connection
          parsing,         \* OnMessage() is in Parse()
          parse_phase_, content_length_,
          request, ret,
          taken            \* history: the units this Parse() has consumed

vars == <<wire, buffer, parsing, parse_phase_, content_length_, request, ret, taken>>

\* A HttpRequest before it is parsed; of its headers the two that matter, each
\* the set of its value, or empty.
NoRequest == [method |-> "none", is_static |-> TRUE, version |-> "none",
              Connection |-> {}, ContentLength |-> {},
              body |-> <<>>, is_keep_alive |-> FALSE]

Init == /\ wire \in Streams
        /\ buffer = <<>> /\ parsing = FALSE
        /\ parse_phase_ = "kHeaderLine" /\ content_length_ = InitialLength
        /\ request = NoRequest /\ ret = "kShort"
        /\ taken = <<>>

\* A piece arrives; OnMessage() constructs the parser and the request.
OnMessage ==
  /\ ~parsing
  /\ \E n \in 1..Len(wire) : /\ buffer' = buffer \o SubSeq(wire, 1, n)
                             /\ wire' = SubSeq(wire, n + 1, Len(wire))
  /\ parsing' = TRUE
  /\ parse_phase_' = "kHeaderLine" /\ content_length_' = InitialLength
  /\ request' = NoRequest /\ ret' = "kShort"
  /\ taken' = <<>>

-----------------------------------------------------------------------------
\* FindCrLf(): the units before the first "\r\n".  (The first form of Line takes
\* those before the last.)
HasLine == Contains(buffer, CRLF)
LineLast == SubSeq(buffer, 1, SelectLastInSeq(buffer, LAMBDA u : u = CRLF) - 1)
Line == SubSeq(buffer, 1, SelectInSeq(buffer, LAMBDA u : u = CRLF) - 1)

\* AdvanceRead(): n units are consumed.
Consume(n) == /\ buffer' = SubSeq(buffer, n + 1, Len(buffer))
              /\ taken' = taken \o SubSeq(buffer, 1, n)

\* Parse() goes on, or returns r.
Continue == UNCHANGED parsing
Return(r) == parsing' = FALSE /\ ret' = r

ReadyFor(phase) == parsing /\ parse_phase_ = phase

\* No whole line: the loop ends.  (In the first form it does not.)
NeedsLineSpins ==
  /\ parsing /\ parse_phase_ \in {"kHeaderLine", "kHeaderFields"}
  /\ ~HasLine
  /\ UNCHANGED vars

NeedsLine ==
  /\ parsing /\ parse_phase_ \in {"kHeaderLine", "kHeaderFields"}
  /\ ~HasLine
  /\ Return("kShort")
  /\ UNCHANGED <<wire, buffer, parse_phase_, content_length_, request, taken>>

\* The methods and versions that are supported, and the URLs that are taken.
IsHeaderLine(line) ==
  /\ Len(line) = 1 /\ line[1].unit = "line"
  /\ line[1].method \in {"GET", "POST", "PUT", "HEAD"}
  /\ line[1].url \in {"page", "query"}
  /\ line[1].version \in {"1.0", "1.1"}

\* A good header line is consumed, a bad one is not.
ParseHeaderLine ==
  /\ ReadyFor("kHeaderLine") /\ HasLine
  /\ \/ /\ IsHeaderLine(Line)
        /\ request' = [request EXCEPT
                         !.method = Line[1].method,
                         !.version = Line[1].version,
                         !.is_static = Line[1].method # "POST" /\ Line[1].url = "page"]
        /\ Consume(Len(Line) + 1)
        /\ parse_phase_' = "kHeaderFields" /\ ret' = "kGood" /\ Continue
     \/ /\ ~IsHeaderLine(Line)
        /\ Return("kError")
        /\ UNCHANGED <<buffer, taken, request, parse_phase_>>
  /\ UNCHANGED <<wire, content_length_>>

\* headers.emplace() keeps the first field of a name.  (The first form keeps
\* the last.)
EmplaceLast(old, value) == {value}
Emplace(old, value) == IF old = {} THEN {value} ELSE old

\* A blank line ends the fields; a field without a colon is not consumed.
ParseHeaderField ==
  /\ ReadyFor("kHeaderFields") /\ HasLine
  /\ \/ /\ Line = <<>>
        /\ parse_phase_' = "kBody" /\ ret' = "kGood"
        /\ Consume(1) /\ Continue
        /\ UNCHANGED request
     \/ /\ Line # <<>> /\ Line[1].unit = "field"
        /\ request' = CASE Line[1].name = "Connection" ->
                             [request EXCEPT !.Connection = Emplace(@, Line[1].value)]
                        [] Line[1].name = "Content-Length" ->
                             [request EXCEPT !.ContentLength = Emplace(@, Line[1].value)]
                        [] OTHER -> request
        /\ ret' = "kShort"
        /\ Consume(Len(Line) + 1) /\ Continue
        /\ UNCHANGED parse_phase_
     \/ /\ Line # <<>> /\ Line[1].unit # "field"
        /\ Return("kError")
        /\ UNCHANGED <<request, parse_phase_, buffer, taken>>
  /\ UNCHANGED <<wire, content_length_>>

\* SetHeaderMetadata(): strncasecmp() over the length of the value, so an empty
\* value matches any word.
Says(values, word) == values \cap {word, ""} # {}
KeepAlive(req) == IF req.version = "1.0" THEN Says(req.Connection, "keep-alive")
                                         ELSE ~Says(req.Connection, "close")
Length(req) == IF req.ContentLength = {} THEN content_length_
                                         ELSE CHOOSE n \in req.ContentLength : TRUE

\* What ExtractBody() retrieves.  (The first form retrieves everything.)
BodyEnds(n) == Len(buffer)
BodyEnd(n) == n

\* The body is all there, or there is none to wait for.
ParseBody ==
  LET n == IF Length(request) = NoLength THEN 0 ELSE Length(request)
  IN /\ ReadyFor("kBody")
     /\ Len(buffer) >= n
     /\ content_length_' = Length(request)
     /\ request' = [request EXCEPT !.is_keep_alive = KeepAlive(request),
                                   !.body = IF n = 0 THEN <<>>
                                            ELSE SubSeq(buffer, 1, BodyEnd(n))]
     /\ IF n = 0 THEN UNCHANGED <<buffer, taken>> ELSE Consume(BodyEnd(n))
     /\ parse_phase_' = "kFinished" /\ Return("kGood")
     /\ UNCHANGED wire

\* The body is short: ExtractBody() returns kShort and the loop goes round.
ShortBody ==
  /\ ReadyFor("kBody")
  /\ Length(request) # NoLength /\ Len(buffer) < Length(request)
  /\ content_length_' = Length(request)
  /\ request' = [request EXCEPT !.is_keep_alive = KeepAlive(request)]
  /\ ret' = "kShort" /\ Continue
  /\ UNCHANGED <<wire, buffer, parse_phase_, taken>>

Parse == \/ NeedsLine \/ ParseHeaderLine \/ ParseHeaderField
         \/ ParseBody \/ ShortBody

Next == OnMessage \/ Parse

Spec == Init /\ [][Next]_vars

\* The thread in Parse() runs; nothing makes the client send.
FairSpec == Spec /\ WF_vars(Parse)

-----------------------------------------------------------------------------
(* What a request is, read off a whole message                             *)

\* The value of the first field of a name; empty if there is none.
IsNamed(x, name) == x.unit = "field" /\ x.name = name
IsFirst(u, i, name) == /\ IsNamed(u[i], name)
                       /\ \A j \in 1..(i - 1) : ~IsNamed(u[j], name)
FirstValue(u, name) == {u[i].value : i \in {i \in 1..Len(u) : IsFirst(u, i, name)}}
BodyLength(u) ==
  LET length == FirstValue(u, "Content-Length")
  IN IF length \subseteq {NoLength} THEN 0 ELSE CHOOSE n \in length : TRUE

\* The head is lines: texts at the odd places, each ended by a "\r\n", the
\* first a header line, the others fields; then a blank line; then the body.
IsHead(u) ==
  /\ Len(u) >= 3 /\ Len(u) % 2 = 1
  /\ IsHeaderLine(<<u[1]>>)
  /\ \A i \in 2..Len(u) : IF i % 2 = 0 \/ i = Len(u) THEN u[i] = CRLF
                                                     ELSE u[i].unit = "field"
IsRequest(u) == \E k \in 1..Len(u) : LET head == SubSeq(u, 1, k)
                                     IN IsHead(head) /\ Len(u) = k + BodyLength(head)
HeadOf(u) == SubSeq(u, 1, Len(u) - BodyLength(SubSeq(u, 1,
               CHOOSE k \in 1..Len(u) : IsHead(SubSeq(u, 1, k)))))

\* Whether a message asks for a long connection, in so many words or by the
\* default of its version (the comments in SetHeaderMetadata()).
AsksKeepAlive(u) == \/ FirstValue(u, "Connection") = {"keep-alive"}
                    \/ u[1].version = "1.1" /\ FirstValue(u, "Connection") = {}
AsksClose(u) == \/ FirstValue(u, "Connection") = {"close"}
                \/ u[1].version = "1.0" /\ FirstValue(u, "Connection") = {}

-----------------------------------------------------------------------------
(* Properties                                                              *)

Units == UNION {ToSet(s) : s \in Streams}

\* Every variable has its type.
TypeOK ==
  /\ wire \in Seq(Units) /\ buffer \in Seq(Units) /\ taken \in Seq(Units)
  /\ parsing \in BOOLEAN /\ ret \in {"kGood", "kShort", "kError"}
  /\ parse_phase_ \in {"kHeaderLine", "kHeaderFields", "kBody", "kFinished"}
  /\ content_length_ \in Nat \cup {NoLength}
  /\ request.body \in Seq(Units)

\* When Parse() returns kGood it has consumed one whole request and nothing
\* after it (a pipelined request stays in the buffer, a line end or a field
\* within the body is not taken for a header), and the request says what the
\* message says: which content, which body, long or short connection.
GoodIsWholeRequest ==
  ~parsing /\ ret = "kGood" =>
    /\ IsRequest(taken)
    /\ LET head == HeadOf(taken)
       IN /\ request.body = SubSeq(taken, Len(head) + 1, Len(taken))
          /\ request.is_static <=> head[1].method # "POST" /\ head[1].url = "page"
          /\ AsksKeepAlive(head) => request.is_keep_alive
          /\ AsksClose(head) => ~request.is_keep_alive

\* A request that is in the buffer as a whole when OnMessage() is called is
\* accepted, whatever follows it.
WholeRequestIsAccepted ==
  ~parsing /\ (\E n \in 1..Len(taken \o buffer) : IsRequest(SubSeq(taken \o buffer, 1, n)))
    => ret = "kGood"

\* Parse() returns, unless it is in a body that has not arrived in full.
BodyIsShort == parse_phase_ = "kBody" /\ content_length_ > Len(buffer)
OnlyBodiesBlock == parsing ~> (~parsing \/ BodyIsShort)

\* Parse() returns.  "Due to short read, we should cache content length"
\* (http_parser.h:134): a short read of the body is to end the call with
\* kShort.  Does not hold: the loop of Parse() never leaves kBody.
ParseReturns == parsing ~> ~parsing

\* A client that sends requests only is never told that they are malformed,
\* however its bytes are split: the parser is a state machine that returns
\* kShort to be called again.  Does not hold: OnMessage() gives the rest to a
\* new parser.
RequestIsNoError == parsing \/ ret # "kError"
=============================================================================
