---------------------------- MODULE MCHttpParser ----------------------------
(***************************************************************************)
(* What clients send, for checking HttpParser: requests of both versions,  *)
(* with and without a body, with the fields SetHeaderMetadata() looks for  *)
(* present, absent, empty, given twice or out of range; bodies that hold a *)
(* line end or what looks like a header; lines that are no request.        *)
(***************************************************************************)
EXTENDS HttpParser

\* A message of a header line, fields and a body.
Lines(texts) == FlattenSeq([i \in 1..Len(texts) |-> <<texts[i], CRLF>>])
Message(line, fields, body) == Lines(<<line>> \o fields) \o <<CRLF>> \o body

Get == RequestLine("GET", "page", "1.1")
Ask == RequestLine("GET", "query", "1.0")
Post == RequestLine("POST", "page", "1.1")
Connection(v) == Field("Connection", v)
Length1 == Field("Content-Length", 1)
Length2 == Field("Content-Length", 2)
Host == Field("Host", "any")

Plain == {Message(Get, <<>>, <<>>),
          Message(Get, <<Host, Connection("close")>>, <<>>),
          Message(Get, <<Connection(""), Connection("keep-alive")>>, <<>>),
          Message(Ask, <<Connection("keep-alive"), Connection("close")>>, <<>>),
          Message(Get, <<Field("Content-Length", NoLength)>>, <<>>),
          Message(Ask, <<Field("Content-Length", 0)>>, <<>>)}
WithBody == {Message(Post, <<Length2>>, <<Byte, CRLF>>),
             Message(Post, <<Length1, Length2>>, <<CRLF>>),
             Message(Post, <<Connection("close"), Length2>>, <<Host, CRLF>>)}
Requests == Plain \cup WithBody

Malformed == {Lines(<<RequestLine("BREW", "page", "1.1")>>),
              Lines(<<RequestLine("GET", "empty", "1.1"), Host>>),
              Lines(<<RequestLine("GET", "page", "2.0")>>),
              Message(Get, <<Host, NoColon>>, <<>>),
              Message(Get, <<Ask>>, <<>>),
              Message(Host, <<>>, <<>>),
              <<CRLF>>, <<Get>>}

Clients == {a \o b : a \in Requests, b \in Requests \cup Malformed}
PlainClients == {a \o b : a \in Plain, b \in Plain}
=============================================================================
