---------------------------- MODULE RequestLines ----------------------------
(***************************************************************************)
(* What both parsers make of the same request line, against a definition   *)
(* of request lines that knows neither of them: three words and a line     *)
(* end.  HttpRequestParser (version 1) runs here; ParseHeaderLine()        *)
(* (version 2) is a function of the line it has read.                      *)
(***************************************************************************)
EXTENDS HttpRequestParser

\* A line without its LF or CR LF.
Chop(l) == IF Len(l) >= 2 /\ l[Len(l) - 1] = CR THEN SubSeq(l, 1, Len(l) - 2) ELSE Front(l)

\* What spaces separate, however many there are.
WordsOf(l) == FoldLeft(LAMBDA words, w : IF w = <<>> THEN words ELSE Append(words, w),
                       <<>>, Split(l, Space))

AreDigits(s, most) == Len(s) \in 1..most /\ \A c \in Range(s) : IsDigit(c)

\* HTTP/<major>.<minor>, at most two digits each; and what version 1 takes for it:
\* the P missing or repeated, any character for a second minor digit.
IsVersionWord(v) ==
  LET dot == Find(v, Dot)
  IN /\ IsPrefix(HTTPSlash, v) /\ dot > 0
     /\ AreDigits(SubSeq(v, 6, dot - 1), 2) /\ AreDigits(After(v, dot), 2)

IsNearlyVersion(v) ==
  LET slash == Find(v, Slash)
      rest == After(v, slash)
      dot == Find(rest, Dot)
  IN /\ slash > 3 /\ dot > 0
     /\ IsPrefix(<<72, 84, 84>>, v) /\ Range(SubSeq(v, 4, slash - 1)) \subseteq {80}
     /\ AreDigits(Before(rest, dot), 2)
     /\ Len(rest) - dot \in 1..2 /\ IsDigit(rest[dot + 1])

\* Where the path of a URL starts: at its first character, or after scheme://host
\* or scheme://host:port; 0 if it is no URL.
PathStart(u) ==
  LET colon == Find(u, Colon)
      rest == After(u, colon + 2)
      slash == Find(rest, Slash)
      authority == Split(Before(rest, slash), Colon)
  IN CASE u[1] = Slash -> 1
       [] /\ colon > 1 /\ \A i \in 1..(colon - 1) : IsLetter(u[i])
          /\ IsPrefix(<<Slash, Slash>>, After(u, colon)) /\ slash > 0
          /\ \A c \in Range(authority[1]) : IsLetter(c) \/ IsDigit(c) \/ c \in {Dot, Hyphen}
          /\ Len(authority) <= 2
          /\ Len(authority) = 2 => \A c \in Range(authority[2]) : IsDigit(c) -> colon + 2 + slash
       [] OTHER -> 0

\* A line of three words; version says what the third one may be.
IsLineOf(b, version(_)) ==
  LET w == WordsOf(b)
  IN /\ Len(w) = 3 /\ b[1] # Space /\ Last(b) # Space
     /\ w[1] \in Methods /\ PathStart(w[2]) > 0 /\ version(w[3])

IsRequestLine(l) == Last(l) = LF /\ IsLineOf(Chop(l), IsVersionWord)

\* The character for a second minor digit may be a space, which is no word: put a
\* digit in its place first.
IsNearlyRequestLine(l) ==
  LET b == Chop(l) IN /\ Last(l) = LF
                      /\ \E d \in {Last(b), 49} : IsLineOf(Append(Front(b), d), IsNearlyVersion)

\* The path in a line's second word.
PathText(l) == LET u == WordsOf(Chop(l))[2] IN SubSeq(u, PathStart(u), Len(u))

\* What Parse() has taken for the request line when it is accepted: parsed_pos_ is
\* where that ends.
Taken == SubSeq(input.line, 1, line.pos)

InOnePiece == input.cuts = {}
Accepted == phase # "kRequestLine"
Heard == ~parsing /\ arrived > 0

-----------------------------------------------------------------------------
(* Properties of version 1                                                 *)

\* Every member has its type; positions lie within what has arrived.
TypeOK ==
  /\ input.cuts \subseteq 1..Total
  /\ arrived \in 0..Total
  /\ parsing \in BOOLEAN
  /\ phase \in {"kRequestLine", "kHeader", "kBody", "kComplete"}
  /\ line.pos \in 0..Len(Text) /\ line.start \in 0..Len(Text) /\ line.end \in 0..Len(Text)
  /\ line.method \in Methods \cup {<<>>}
  /\ line.static \in BOOLEAN /\ line.complex \in BOOLEAN
  /\ line.major \in 0..99 /\ line.minor \in Int
  /\ \A c \in Range(url) : c \in 0..255
  /\ length \in Int /\ at \in 0..Len(input.fields)
  /\ result \in {"none", "kShort", "kBad", "kComplete"}

\* A request line that arrives whole is accepted, and method, URL and version are
\* those of the line: spaces, scheme, host and port, one digit or two, CR LF or LF
\* make no difference.
RequestLineIsAccepted ==
  Heard /\ InOnePiece /\ IsRequestLine(input.line)
    => LET w == WordsOf(Chop(input.line))
           dot == Find(w[3], Dot)
       IN /\ Accepted
          /\ line.method = w[1]
          /\ line.complex \/ url = PathText(input.line)
          /\ line.major = Number(SubSeq(w[3], 6, dot - 1))
          /\ line.minor = Number(After(w[3], dot))

\* What is accepted is a request line but for three liberties the code takes (P in
\* HTTP, second minor digit, any character in a path), in however many pieces it
\* came: that every call starts with a method again may refuse a line, but does not
\* make one of something else.
AcceptedIsRequestLine ==
  Accepted => IsNearlyRequestLine(Taken) /\ line.method = WordsOf(Taken)[1]

\* The header fields are those of the message, the first of each name, however the
\* header lines were cut into pieces: parsed_pos_ goes on where it was.
HeaderPiecesAgree ==
  phase = "kComplete" /\ (\A u \in Range(input.fields) : u.kind # "text")
    => LET blank == Min({i \in DOMAIN input.fields : input.fields[i].kind = "blank"})
           mine == SubSeq(input.fields, 1, blank - 1)
       IN /\ DOMAIN headers = {mine[i].name : i \in DOMAIN mine}
          /\ \A n \in DOMAIN headers :
               headers[n] = mine[Min({i \in DOMAIN mine : mine[i].name = n})].value

\* What is stored for a URL of plain names: empty and "." segments gone, ".."
\* resolved, never above the root.  And of any URL that has no error: it starts
\* with a slash, and has no two in a row if only digits are digits in it (% 5 and
\* the character 22 are decoded to a slash).
UrlIsNormal ==
  Accepted /\ Run(PathText(Taken)).ok
    => /\ url[1] = Slash
       /\ OnlyDigits(PathText(Taken)) => NoTwoSlashes(url)
       /\ IsPlain(PathText(Taken)) => url = Resolved(PathText(Taken))

-----------------------------------------------------------------------------
(* Properties of version 2                                                 *)

Line2 == ParseHeaderLine(Chop(input.line))

\* Both versions agree on a line of single spaces and digits: on whether the
\* version is one of theirs, on the method, and that a URL which version 2 finds
\* complex is complex; then they store the same URL, which version 2 may have cut
\* at its query.
VersionsAgree ==
  (/\ Heard /\ InOnePiece /\ IsRequestLine(input.line)
   /\ Split(Chop(input.line), Space) = WordsOf(Chop(input.line))
   /\ WordsOf(Chop(input.line))[2][1] = Slash
   /\ Run(PathText(input.line)).ok)
    => /\ Line2.good <=> line.major = 1 /\ line.minor \in {0, 1}
       /\ Line2.good => /\ Line2.method = line.method
                        /\ Line2.complex => line.complex
                        /\ Line2.complex /\ Line2.asserted =>
                             url \in {Line2.url, Line2.url \o <<Question>> \o Line2.query}
                        /\ ~line.complex => url = Line2.url

\* The characters that follow each % in a text, as far as they are digits of an escape.
EscapeDigits(text) == LET parts == Split(text, Percent)
                      IN UNION {{parts[i][k] : k \in 1..2 \cap DOMAIN parts[i]} : i \in 2..Len(parts)}

IsHexLetter(c) == c \in 65..70 \cup 97..102

\* Of URLs whose escapes have no letters, and in which only digits are digits: an
\* escape is two digits; any other is an error, except that one which the end of the
\* URL cuts short is dropped.  A URL of escapes that do not follow a slash, and of
\* no empty or dot segment, is decoded to what it stands for.
EscapesAreDecoded ==
  (/\ Heard /\ InOnePiece /\ IsRequestLine(input.line) /\ OnlyDigits(PathText(input.line))
   /\ \A c \in EscapeDigits(PathText(input.line)) : ~IsHexLetter(c)) =>
    LET text == PathText(input.line)
        parts == Split(text, Percent)
        valid == \A i \in 2..Len(parts) :
                   /\ Len(parts[i]) >= 2 \/ i = Len(parts)
                   /\ \A k \in 1..2 \cap DOMAIN parts[i] : IsDigit(parts[i][k])
        simple == \A i \in 1..(Len(text) - 1) :
                    text[i] = Slash => text[i + 1] \notin {Slash, Dot, Percent}
        decode(p) == IF Len(p) < 2 THEN <<>>
                     ELSE <<(p[1] - 48) * 16 + p[2] - 48>> \o SubSeq(p, 3, Len(p))
    IN /\ Run(text).ok <=> valid
       /\ valid /\ simple =>
            Run(text).url = FoldLeft(LAMBDA s, p : s \o decode(p), parts[1], Tail(parts))

\* A % and two hexadecimal digits, letters included, are no error ("% Hex Hex").
HexEscapesAreDecoded ==
  Heard /\ InOnePiece /\ IsRequestLine(input.line) =>
    LET text == PathText(input.line)
        parts == Split(text, Percent)
    IN (/\ \A i \in 2..Len(parts) : Len(parts[i]) >= 2
        /\ \A c \in EscapeDigits(text) : IsDigit(c) \/ IsHexLetter(c)) => Run(text).ok

\* What version 2 stores of a request that is no POST, whose URL is text.  A URL with
\* an error in an escape stays whole as it was sent (the error itself is dropped).  A
\* query in the last segment is cut off at the first ? of the result, which is there
\* ("The ? must be in the URL"); without any ? there is no query, and the URL is the
\* result if it is complex.  Nothing is said of a ? in a directory alone: the code
\* looks for a query in the last segment only.
QueryIsSplit ==
  Heard /\ Line2.good /\ Line2.method # POST
    => LET text == Before(After(input.line, Find(input.line, Space)),
                          Find(After(input.line, Find(input.line, Space)), Space))
           done == Run(text)
       IN /\ Line2.asserted
          /\ ~done.ok => Line2.url = text
          /\ done.ok /\ Question \in Range(Last(Segments(text))) =>
               /\ Question \notin Range(Line2.url)
               /\ Line2.url \o <<Question>> \o Line2.query = done.url
          /\ done.ok /\ Question \notin Range(text) =>
               /\ Line2.query = <<>>
               /\ Line2.url = IF IsComplex(text) THEN done.url ELSE text

\* The ? must be in the URL: also of a POST.
QuestionIsThere == Heard => Line2.asserted

\* Of a query in which every pair has a =, ParseArgs() makes a map: the name is
\* what precedes the first =, the value the rest, and the first of equal names
\* counts.
ArgsAreSplit ==
  (Heard /\ Line2.good /\ \A p \in Range(Split(Line2.query, Ampersand)) : Equal \in Range(p))
    => LET parts == Split(Line2.query, Ampersand)
           name(p) == Before(p, Find(p, Equal))
           args == ParseArgs(Line2.query)
       IN /\ DOMAIN args = {name(parts[i]) : i \in DOMAIN parts}
          /\ \A i \in DOMAIN parts :
               (\A k \in 1..(i - 1) : name(parts[k]) # name(parts[i]))
                 => args[name(parts[i])] = After(parts[i], Find(parts[i], Equal))
=============================================================================
