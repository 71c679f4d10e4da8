--------------------------- MODULE MCRequestLines ---------------------------
(***************************************************************************)
(* The lines that RequestLines is checked on.  Each set varies one part of *)
(* a line over all short strings of the characters that matter there; a    *)
(* few lines and all short headers come in every possible way of pieces.   *)
(***************************************************************************)
EXTENDS RequestLines

CONSTANTS MaxUrl, MaxPath, MaxQuery, MaxVersion, MaxFields  \* bounds on the lengths

CRLF == <<13, 10>>
Version11 == HTTPSlash \o <<49, 46, 49>>
MCLine(m, u, v, end) == m \o <<32>> \o u \o <<32>> \o v \o end

Whole(l) == [line |-> l, fields |-> <<>>, cuts |-> {}]

\* Characters of a URL: / . % ? a 4 and of a query: a b = &
UrlLines ==
  {Whole(MCLine(GET, <<47>> \o u, Version11, CRLF)) :
     u \in UNION {[1..n -> {47, 46, 37, 63, 97, 52}] : n \in 0..MaxUrl}}
\* / % 4 and the letters a and F, which are hexadecimal digits too.
HexLines ==
  {Whole(MCLine(GET, <<47>> \o u, Version11, CRLF)) :
     u \in UNION {[1..n -> {47, 37, 52, 97, 70}] : n \in 0..MaxUrl}}
\* / % 5 and the control character that the machine takes for a digit: %5 with it is
\* the code of a slash.
ControlLines ==
  {Whole(MCLine(GET, <<47>> \o u, Version11, CRLF)) :
     u \in UNION {[1..n -> {47, 37, 53, 22}] : n \in 0..MaxUrl}}
PathLines ==
  {Whole(MCLine(GET, <<47>> \o u, Version11, CRLF)) :
     u \in UNION {[1..n -> {47, 46, 97}] : n \in (MaxUrl + 1)..MaxPath}}
PostLines ==
  {Whole(MCLine(POST, <<47>> \o u, Version11, CRLF)) :
     u \in UNION {[1..n -> {47, 46, 63, 97}] : n \in 0..2}}
QueryLines ==
  {Whole(MCLine(GET, <<47, 63>> \o q, Version11, CRLF)) :
     q \in UNION {[1..n -> {97, 98, 61, 38}] : n \in 0..MaxQuery}}

\* HTTP/, and one shorter: HTTP HTT/ HTTPP/ HTP/, with numbers of 0 1 . x and a
\* space, and ends of line.
Numbers(n) == UNION {[1..k -> {48, 49, 46, 120, 32}] : k \in 0..n}
VersionLines ==
  {Whole(MCLine(GET, <<47, 97>>, v, e)) :
     v \in {HTTPSlash \o n : n \in Numbers(MaxVersion)}
          \cup {p \o n : p \in {<<72, 84, 84, 80>>, <<72, 84, 84, 47>>,
                                <<72, 84, 84, 80, 80, 47>>, <<72, 84, 80, 47>>},
                         n \in Numbers(MaxVersion - 1)},
     e \in {CRLF, <<10>>, <<13, 97>>}}

\* Methods GET GE get GETT PUT HEAD; URLs a/ h:/a/ h://a h://a/b h://a:8/b h://a:x/b
\* h://a:/b 1://a/ and one that holds a line end; one to three spaces.
WordLines ==
  {Whole(s \o m \o sp \o u \o sp \o Version11 \o e) :
     s \in {<<>>, <<32>>},
     m \in {GET, <<71, 69>>, <<103, 101, 116>>, GET \o <<84>>, PUT, HEAD},
     sp \in {<<>>, <<32>>, <<32, 32>>},
     u \in {<<97, 47>>, <<104, 58, 47, 97, 47>>, <<104, 58, 47, 47, 97>>,
            <<104, 58, 47, 47, 97, 47, 98>>, <<104, 58, 47, 47, 97, 58, 56, 47, 98>>,
            <<104, 58, 47, 47, 97, 58, 120, 47, 98>>, <<104, 58, 47, 47, 97, 58, 47, 98>>,
            <<49, 58, 47, 47, 97, 47>>, <<47, 97, 13, 10>>},
     e \in {CRLF, <<10>>}}

\* GET /a HTTP/1.1 and POST /GET /a HTTP/1.1 in pieces.
PieceLines ==
  UNION {{[line |-> l, fields |-> <<>>, cuts |-> {i, j}] : i, j \in 1..(Len(l) - 1)} :
           l \in {MCLine(GET, <<47, 97>>, Version11, CRLF),
                  MCLine(POST \o <<32, 47>> \o GET, <<47, 97>>, Version11, CRLF)}}

Unit(k, n, v) == [kind |-> k, name |-> n, value |-> v]
FieldInputs ==
  LET l == MCLine(GET, <<47>>, Version11, CRLF)
      units == {Unit("field", "Host", 1), Unit("field", "Host", 2),
                Unit("field", "Content-Length", 3), Unit("text", "", 0), Unit("blank", "", 0)}
  IN UNION {{[line |-> l, fields |-> f, cuts |-> {Len(l) + i : i \in ends}] :
               f \in [1..n -> units], ends \in SUBSET (0..(n - 1))} : n \in 1..MaxFields}

AllInputs == UrlLines \cup ControlLines \cup PathLines \cup PostLines \cup QueryLines \cup VersionLines \cup WordLines
               \cup PieceLines \cup FieldInputs
=============================================================================
