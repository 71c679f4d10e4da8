----------------------------- MODULE HeaderLine -----------------------------
(***************************************************************************)
(* The first line of a request, as HttpParser (version 2) takes it apart:  *)
(* ParseHeaderLine() with ParseComplexUrl(), and ParseArgs() for the query *)
(* that comes out of it.  They are functions of the line, which is what    *)
(* precedes the CR LF that Parse() has found.                              *)
(***************************************************************************)
EXTENDS ComplexUrl

\* Where c first occurs in s, or 0.
Find(s, c) == LET at == {i \in DOMAIN s : s[i] = c} IN IF at = {} THEN 0 ELSE Min(at)

Before(s, i) == SubSeq(s, 1, i - 1)
After(s, i) == SubSeq(s, i + 1, Len(s))

\* The names of the methods that ParseMethod() knows, as codes.
GET == <<71, 69, 84>>
POST == <<80, 79, 83, 84>>
PUT == <<80, 85, 84>>
HEAD == <<72, 69, 65, 68>>
Methods == {GET, POST, PUT, HEAD}

\* What a HttpRequest says after its header line: an error or not, and whether
\* the KANON_ASSERT of ParseComplexUrl() has held.
NoLine == [good |-> FALSE, method |-> <<>>, static |-> TRUE, complex |-> FALSE,
           url |-> <<>>, query |-> <<>>, asserted |-> TRUE]

\* A URL is complex if a directory in it is empty, "." or ".." or has an escape,
\* or if its last segment has a query.
HasQuery(url) == Question \in Range(Last(Segments(url)))

IsComplex(url) ==
  \/ \E d \in Range(Front(Segments(url))) : \/ d = <<>> \/ IsDotSegment(d)
                                             \/ Percent \in Range(d)
  \/ HasQuery(url)

\* The number that the loop makes of characters it takes for digits.
Number(s) == FoldLeft(LAMBDA n, c : n * 10 + c - 48, 0, s)

HTTPSlash == <<72, 84, 84, 80, 47>>

\* The version after "HTTP/", as major * 100 + minor; 0 without a dot.
VersionCode(s) ==
  LET dot == Find(s, Dot)
  IN IF dot = 0 THEN 0 ELSE Number(Before(s, dot)) * 100 + Number(After(s, dot))

IsVersion(s) == /\ IsPrefix(HTTPSlash, s)
                /\ VersionCode(After(s, Len(HTTPSlash))) \in {100, 101}

\* The end of ParseComplexUrl(): outside a static request the result is cut at its
\* first ?.
StoreUrl(r, url) ==
  LET at == Find(url, Question)
  IN IF r.static THEN [r EXCEPT !.url = url]
     ELSE IF at = 0 THEN [r EXCEPT !.asserted = FALSE]
     ELSE [r EXCEPT !.url = Before(url, at), !.query = After(url, at)]

\* The result is stored only when the loop has come to the end: after an error in an
\* escape the URL stays as it was sent, and ParseHeaderLine() drops the error.  (The
\* first form stores what it has when it meets the error.)
ParseComplexUrlAtOnce(r) == StoreUrl(r, Run(r.url).url)
ParseComplexUrl(r) == LET u == Run(r.url) IN IF u.ok THEN StoreUrl(r, u.url) ELSE r

\* Method, URL and version lie between the first two spaces of the line.
ParseHeaderLine(line) ==
  LET sp == Find(line, Space)
      method == Before(line, sp)
      rest == After(line, sp)
      sp2 == Find(rest, Space)
      url == Before(rest, sp2)
      request == [NoLine EXCEPT !.good = TRUE, !.method = method, !.url = url,
                    !.complex = IsComplex(url),
                    !.static = method # POST /\ ~HasQuery(url)]
  IN IF \/ sp = 0 \/ method \notin Methods
        \/ sp2 = 0 \/ url = <<>> \/ url[1] # Slash
        \/ ~IsVersion(After(rest, sp2))
     THEN NoLine
     ELSE IF request.complex THEN ParseComplexUrl(request) ELSE request

-----------------------------------------------------------------------------
(* ParseArgs()                                                             *)

Equal == 61
Ampersand == 38

\* A position that find() has not found reaches to the end of the string.
Position(s, c) == IF Find(s, c) = 0 THEN Len(s) + 1 ELSE Find(s, c)

\* The pair at the front of a query.  The first = and the first & are looked for in
\* all of it; npos + 1 is 0, so without a = the value starts at the front.  (The
\* first form takes the value up to the end.  Of StringView::substr_range() it is
\* assumed that a range which ends before it starts is empty.)
PairToEnd(query) == <<Before(query, Position(query, Equal)), After(query, Find(query, Equal))>>
Pair(query) == <<Before(query, Position(query, Equal)),
                 SubSeq(query, Find(query, Equal) + 1, Position(query, Ampersand) - 1)>>

\* Where the turns of the loop start: at the beginning and after each ampersand.
Starts(query) == {0} \cup {i \in DOMAIN query : query[i] = Ampersand}

\* emplace() keeps the first pair of every key.
ParseArgs(query) ==
  LET pairs == [i \in Starts(query) |-> Pair(After(query, i))]
      keys == {pairs[i][1] : i \in DOMAIN pairs}
  IN [key \in keys |-> pairs[Min({i \in DOMAIN pairs : pairs[i][1] = key})][2]]
=============================================================================
