------------------------- MODULE HttpRequestParser -------------------------
(***************************************************************************)
(* HttpRequestParser, the parser of the deprecated version 1 of the        *)
(* server.  There is one per connection and it is asked to go on with      *)
(* every message.  The request line is parsed character by character, by a *)
(* state machine whose state is a local variable: it starts anew, at the   *)
(* character it has come to, whenever Parse() is called.  Header lines are *)
(* units: a field, a text without a colon, or the blank line at the end.   *)
(*                                                                         *)
(* The parser keeps pointers into the connection's buffer between calls.   *)
(* They are positions here: the model assumes that the buffer does not     *)
(* move while a request is incomplete.                                     *)
(***************************************************************************)
EXTENDS HeaderLine

CONSTANTS Inputs  \* what a client sends: [line, fields, cuts]

CR == 13
LF == 10

\* A header line is a field with its value, a text without a colon, or blank.
IsUnit(u) == u.kind \in {"field", "text", "blank"} /\ u.value \in Int

\* A message ends at a cut or at the end of the input.  A line that header lines
\* follow is not cut itself: those are no characters.
ASSUME InputsAssumption ==
  \A i \in Inputs : /\ i.line \in Seq(0..255) /\ i.line # <<>>
                    /\ i.fields \in Seq(Range(i.fields))
                    /\ \A u \in Range(i.fields) : IsUnit(u)
                    /\ i.cuts \subseteq 1..(Len(i.line) + Len(i.fields))
                    /\ i.fields # <<>> => \A c \in i.cuts : c >= Len(i.line)

VARIABLES input,   \* what this client sends
          arrived, \* how much of it is in the buffer, or has been
          parsing, \* Parse() is running
          phase,   \* phase_
          line,    \* the members that ParseRequestLine() sets
          url,     \* url_
          headers, \* headers_
          length,  \* cache_content_length_
          at,      \* how many header lines have been parsed
          result   \* what Parse() has returned last

vars == <<input, arrived, parsing, phase, line, url, headers, length, at, result>>

\* What the constructor gives the members of the request line.
Line0 == [state |-> "kStart", pos |-> 0, method |-> <<>>, static |-> TRUE, complex |-> FALSE,
          start |-> 0, end |-> 0, major |-> 0, minor |-> 0]

Init == /\ input \in Inputs
        /\ arrived = 0 /\ parsing = FALSE
        /\ phase = "kRequestLine"
        /\ line = Line0
        /\ url = <<>>
        /\ headers = <<>>
        /\ length = 0
        /\ at = 0
        /\ result = "none"

-----------------------------------------------------------------------------
(* ParseRequestLine(), one turn of its loop: the next state, or the error. *)

IsUpperLetter(c) == c \in 65..90
IsLetter(c) == IsUpperLetter(c) \/ c \in 97..122

Colon == 58
Hyphen == 45

\* A method is known by what precedes the first space that follows it, taken from
\* the beginning of the buffer.  (The first form takes any word for one.)
NextInMethodAny(s, c, before) ==
  CASE s = "kStart" /\ c \in {CR, LF} -> "kInvalidHttpRequest"
    [] s = "kMethod" /\ c = Space -> "kSpacesBeforeUrl"
    [] IsUpperLetter(c) -> "kMethod"
    [] OTHER -> "kInvalidMethod"

NextInMethod(s, c, before) ==
  CASE s = "kStart" /\ c \in {CR, LF} -> "kInvalidHttpRequest"
    [] s = "kMethod" /\ c = Space /\ before \in Methods -> "kSpacesBeforeUrl"
    [] IsUpperLetter(c) -> "kMethod"
    [] OTHER -> "kInvalidMethod"

NextInAuthority(s, c) ==
  CASE s = "kSpacesBeforeUrl" /\ c = Space -> s
    [] s = "kSpacesBeforeUrl" /\ c = Slash -> "kAfterSlashInUrl"
    [] s \in {"kSpacesBeforeUrl", "kScheme"} /\ IsLetter(c) -> "kScheme"
    [] s = "kScheme" /\ c = Colon -> "kSchemeSlash"
    [] s = "kSchemeSlash" /\ c = Slash -> "kSchemeDoubleSlash"
    [] s = "kSchemeDoubleSlash" /\ c = Slash -> "kHost"
    [] s \in {"kHost", "kPort"} /\ c = Slash -> "kAfterSlashInUrl"
    [] s = "kHost" /\ c = Colon -> "kPort"
    [] s = "kHost" /\ (IsLetter(c) \/ IsDigit(c) \/ c \in {Dot, Hyphen}) -> s
    [] s = "kPort" /\ IsDigit(c) -> s
    [] OTHER -> "kInvalidUrl"

\* The characters that make a URL complex where they are met.  (The first form
\* does not know of an empty directory.)
ComplexAtNoSlash(s) == CASE s = "kAfterSlashInUrl" -> {Question, Dot, Percent}
                         [] s = "kCheckUrl" -> {Question, Percent}
                         [] OTHER -> {}
ComplexAt(s) == CASE s = "kAfterSlashInUrl" -> {Question, Dot, Percent, Slash}
                  [] s = "kCheckUrl" -> {Question, Percent}
                  [] OTHER -> {}

\* In kUrl nothing but the end of the URL is looked for.
NextInUrl(s, c) ==
  IF c = Space THEN "kH"
  ELSE IF c = Slash /\ s # "kUrl" THEN "kAfterSlashInUrl"
  ELSE IF s = "kUrl" \/ c \in ComplexAt(s) THEN "kUrl"
  ELSE "kCheckUrl"

\* The states in which the version may be over.  (The first form wants two minor
\* digits.)
LineEndStatesTwo == {"kCRLFAfterMinor"}
LineEndStates == {"kMinorDigit", "kCRLFAfterMinor"}

\* The P of HTTP may be missing or repeated, and the second minor digit need not
\* be one: the code notes an error and goes on.
NextInVersion(s, c) ==
  CASE s = "kH" /\ c = Space -> s
    [] s = "kH" /\ c = 72 -> "kHT"
    [] s = "kHT" /\ c = 84 -> "kHTT"
    [] s = "kHTT" /\ c = 84 -> "kHTTP"
    [] s = "kHTTP" /\ c = Slash -> "kFirstMajorDigit"
    [] s = "kHTTP" /\ c = 80 -> s
    [] s = "kFirstMajorDigit" /\ IsDigit(c) -> "kMajorDigit"
    [] s = "kMajorDigit" /\ IsDigit(c) -> "kVersionDot"
    [] s \in {"kMajorDigit", "kVersionDot"} /\ c = Dot -> "kFirstMinorDigit"
    [] s = "kFirstMinorDigit" /\ IsDigit(c) -> "kMinorDigit"
    [] s \in LineEndStates /\ c = CR -> "kAlmostDone"
    [] (s \in LineEndStates \/ s = "kAlmostDone") /\ c = LF -> "kDone"
    [] s = "kMinorDigit" /\ c \notin {CR, LF} -> "kCRLFAfterMinor"
    [] s = "kCRLFAfterMinor" /\ c \notin {CR, LF} -> "kInvalidHttpRequest"
    [] s = "kAlmostDone" /\ c # LF -> "kInvalidHttpRequest"
    [] OTHER -> "kInvalidHttpVersion"

Errors == {"kInvalidMethod", "kInvalidUrl", "kInvalidHttpVersion", "kInvalidHttpRequest"}

Next1(s, c, before) ==
  CASE s \in {"kStart", "kMethod"} -> NextInMethod(s, c, before)
    [] s \in {"kSpacesBeforeUrl", "kScheme", "kSchemeSlash", "kSchemeDoubleSlash",
              "kHost", "kPort"} -> NextInAuthority(s, c)
    [] s \in {"kAfterSlashInUrl", "kCheckUrl", "kUrl"} -> NextInUrl(s, c)
    [] OTHER -> NextInVersion(s, c)

\* A turn of the loop over text: the state changes and members are set with it.  After
\* an error or at kDone the loop has been left.
Turn(r, c, before) ==
  IF r.state \in Errors \cup {"kDone"} THEN r
  ELSE LET s == r.state
           n == Next1(s, c, before)
       IN IF n \in Errors THEN [r EXCEPT !.state = n] ELSE
          [r EXCEPT
             !.state = n,
             !.pos = @ + 1,
             !.method = IF n = "kSpacesBeforeUrl" /\ s = "kMethod" THEN before ELSE @,
             !.static = @ /\ ~(n = "kSpacesBeforeUrl" /\ s = "kMethod" /\ before = POST)
                          /\ ~(c = Question /\ c \in ComplexAt(s)),
             !.complex = @ \/ c \in ComplexAt(s),
             !.start = IF n = "kAfterSlashInUrl" /\ s \in {"kSpacesBeforeUrl", "kHost", "kPort"}
                       THEN r.pos + 1 ELSE @,
             !.end = IF n = "kH" /\ s # "kH" THEN r.pos ELSE @,
             !.major = CASE s = "kFirstMajorDigit" -> c - 48
                         [] n = "kVersionDot" -> @ * 10 + c - 48
                         [] OTHER -> @,
             !.minor = CASE s = "kFirstMinorDigit" -> c - 48
                         [] s = "kMinorDigit" /\ n = "kCRLFAfterMinor" -> @ * 10 + c - 48
                         [] OTHER -> @]

\* The loop over the characters from parsed_pos_ to the end of what has arrived,
\* from state s.  (The first form reads all of it each time.)
ParseRequestLineAgain(r, s, text) ==
  FoldLeft(LAMBDA q, i : Turn(q, text[i], SubSeq(text, 1, i - 1)),
           [r EXCEPT !.state = s],
           [k \in 1..Len(text) |-> k])
ParseRequestLine(r, s, text) ==
  FoldLeft(LAMBDA q, i : Turn(q, text[i], SubSeq(text, 1, i - 1)),
           [r EXCEPT !.state = s],
           [k \in 1..(Len(text) - r.pos) |-> r.pos + k])

-----------------------------------------------------------------------------
(* Parse()                                                                 *)

Text == SubSeq(input.line, 1, IF arrived < Len(input.line) THEN arrived ELSE Len(input.line))
Total == Len(input.line) + Len(input.fields)

\* A message: the buffer grows, and Parse() is called.
OnMessage ==
  /\ ~parsing /\ arrived < Total
  /\ arrived' = Min({n \in input.cuts \cup {Total} : n > arrived})
  /\ parsing' = TRUE
  /\ UNCHANGED <<input, phase, line, url, headers, length, at, result>>

Return(r) == parsing' = FALSE /\ result' = r

\* state_ is 0 whenever Parse() is called: the state that was reached before is not
\* stored.
StartState == "kStart"

Parsed == ParseRequestLine(line, StartState, Text)

\* The line is complete.  If the URL is complex it is written to url_ as it is
\* decoded; an error in it sets the status code but the request goes on.
RequestLineOk ==
  /\ parsing /\ phase = "kRequestLine"
  /\ LET r == Parsed
         text == SubSeq(Text, r.start, r.end)
         u == Run(text)
     IN /\ r.state = "kDone"
        /\ line' = IF r.complex THEN [r EXCEPT !.static = @ /\ ~u.question] ELSE r
        /\ url' = IF r.complex THEN u.url ELSE text
  /\ phase' = "kHeader"
  /\ UNCHANGED <<input, arrived, parsing, headers, length, at, result>>

RequestLineShort == /\ parsing /\ phase = "kRequestLine"
                    /\ line' = Parsed
                    /\ line'.state \notin Errors \cup {"kDone"}
                    /\ Return("kShort")
                    /\ UNCHANGED <<input, arrived, phase, url, headers, length, at>>

RequestLineBad == /\ parsing /\ phase = "kRequestLine"
                  /\ line' = Parsed
                  /\ line'.state \in Errors
                  /\ Return("kBad")
                  /\ UNCHANGED <<input, arrived, phase, url, headers, length, at>>

\* The header lines that have arrived and are not parsed yet.
Waiting == IF arrived <= Len(input.line) THEN <<>>
           ELSE SubSeq(input.fields, at + 1, arrived - Len(input.line))

\* headers_.emplace() keeps the first value of a field.  (The first form is
\* headers_[name] = value.)
EmplaceLast(h, name, value) ==
  [n \in DOMAIN h \cup {name} |-> IF n = name THEN value ELSE h[n]]
Emplace(h, name, value) ==
  IF name \in DOMAIN h THEN h ELSE [n \in DOMAIN h \cup {name} |-> IF n = name THEN value ELSE h[n]]

\* The colon is looked for in all that has arrived: a text without one is taken
\* together with what follows, up to the next colon.
HeaderField ==
  LET unit == Head(Waiting)
      joined == [kind |-> "field", name |-> "joined", value |-> 0]
      field == IF unit.kind = "field" THEN unit ELSE joined
  IN /\ parsing /\ phase = "kHeader"
     /\ Waiting # <<>> /\ unit.kind # "blank"
     /\ \E u \in Range(Waiting) : u.kind = "field"
     /\ headers' = Emplace(headers, field.name, field.value)
     /\ length' = IF field.name = "Content-Length" THEN field.value ELSE length
     /\ at' = at + 1
     /\ UNCHANGED <<input, arrived, parsing, phase, line, url, result>>

HeaderBad == /\ parsing /\ phase = "kHeader"
             /\ Waiting # <<>> /\ Head(Waiting).kind # "blank"
             /\ \A u \in Range(Waiting) : u.kind # "field"
             /\ Return("kBad")
             /\ UNCHANGED <<input, arrived, phase, line, url, headers, length, at>>

HeaderShort == /\ parsing /\ phase = "kHeader"
               /\ Waiting = <<>>
               /\ Return("kShort")
               /\ UNCHANGED <<input, arrived, phase, line, url, headers, length, at>>

HeaderEnd == /\ parsing /\ phase = "kHeader"
             /\ Waiting # <<>> /\ Head(Waiting).kind = "blank"
             /\ at' = at + 1
             /\ phase' = "kBody"
             /\ UNCHANGED <<input, arrived, parsing, line, url, headers, length, result>>

\* The body is not waited for.
Body == /\ parsing /\ phase = "kBody"
        /\ phase' = "kComplete"
        /\ UNCHANGED <<input, arrived, parsing, line, url, headers, length, at, result>>

\* Parse() says kComplete, now and whenever it is called again: nothing follows the
\* comment `Reset` in this place.
Complete == /\ parsing /\ phase = "kComplete"
            /\ Return("kComplete")
            /\ UNCHANGED <<input, arrived, phase, line, url, headers, length, at>>

Next == \/ OnMessage
        \/ RequestLineOk \/ RequestLineShort \/ RequestLineBad
        \/ HeaderField \/ HeaderBad \/ HeaderShort \/ HeaderEnd
        \/ Body \/ Complete

Spec == Init /\ [][Next]_vars
=============================================================================
