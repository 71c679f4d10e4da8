----------------------------- MODULE ComplexUrl -----------------------------
(***************************************************************************)
(* The state machine that both parsers use for complex URLs: the switch of *)
(* HttpParser::ParseComplexUrl(), which ParseURLFormat() of version 1      *)
(* repeats.  It makes one pass over the URL, drops empty and "." segments, *)
(* takes back a segment at "..", and decodes % and two digits.             *)
(*                                                                         *)
(* A character is its code, a string a sequence of codes.                  *)
(***************************************************************************)
EXTENDS Integers, SequencesExt

Space == 32
Percent == 37
Dot == 46
Slash == 47
Question == 63

IsDigit(c) == c \in 48..57

\* c | 0x20, for a character.
LowerCase(c) == IF (c \div 32) % 2 = 1 THEN c ELSE c + 32

\* What the loop keeps between two characters: its state, the state persent_trap
\* to go back to, decode_persent, the URL so far, whether a ? was met in kUsual
\* (version 1 asks), and whether the loop has returned an error.
Machine0 == [state |-> "kUsual", trap |-> "kUsual", digit |-> 0, url |-> <<>>,
             question |-> FALSE, ok |-> TRUE]

\* url.erase(url.rfind('/', url.size() - 2) + 1): what is left ends with the last
\* slash that is not the last character.  The subtraction is unsigned, so in a URL
\* of one character or none rfind() looks everywhere.  (The first form looks at
\* the last character too.)
EraseSegmentNot(url) ==
  LET slashes == {i \in DOMAIN url : url[i] = Slash}
  IN SubSeq(url, 1, IF slashes = {} THEN 0 ELSE Max(slashes))

EraseSegment(url) ==
  LET last == IF Len(url) >= 2 THEN Len(url) - 1 ELSE Len(url)
      slashes == {i \in 1..last : url[i] = Slash}
  IN SubSeq(url, 1, IF slashes = {} THEN 0 ELSE Max(slashes))

\* The state after a character other than %.
Target(state, c) ==
  CASE c = Slash -> "kSlash"
    [] c = Dot /\ state = "kSlash" -> "kDot"
    [] c = Dot /\ state = "kDot" -> "kDoubleDot"
    [] OTHER -> "kUsual"

\* A character is copied if it leads to kUsual, and so is the slash that ends a
\* segment.  (The first form copies every slash.)
CopiesSlashes(state, c) == c = Slash \/ Target(state, c) = "kUsual"
Copies(state, c) == state = "kUsual" \/ Target(state, c) = "kUsual"

\* A character in kUsual, kSlash, kDot or kDoubleDot.
FeedPlain(u, c) ==
  [u EXCEPT !.state = Target(u.state, c),
            !.question = @ \/ (u.state = "kUsual" /\ c = Question),
            !.url = IF u.state = "kDoubleDot" /\ c = Slash THEN EraseSegment(@)
                    ELSE IF Copies(u.state, c) THEN Append(@, c) ELSE @]

\* The value of a digit.  Its lower case form is tested with isdigit() again, so
\* letters are no digits, while some control characters are.
DigitValue(c) == IF IsDigit(c) THEN c - 48 ELSE LowerCase(c) - 97 + 10
IsPercentDigit(c) == IsDigit(c) \/ IsDigit(LowerCase(c))

\* decode_persent is an unsigned char.  (The first form shifts by four plus the
\* second digit: + binds tighter than <<.)
FeedPercentShift(u, c) ==
  IF ~IsPercentDigit(c) THEN [u EXCEPT !.ok = FALSE]
  ELSE IF u.state = "kPersentFirst"
  THEN [u EXCEPT !.state = "kPersentSecond", !.digit = DigitValue(c) % 256]
  ELSE LET code == (u.digit * 2^((4 + DigitValue(c)) % 32)) % 256
       IN [u EXCEPT !.state = u.trap, !.digit = code, !.url = Append(@, code)]

FeedPercent(u, c) ==
  IF ~IsPercentDigit(c) THEN [u EXCEPT !.ok = FALSE]
  ELSE IF u.state = "kPersentFirst"
  THEN [u EXCEPT !.state = "kPersentSecond", !.digit = DigitValue(c) % 256]
  ELSE LET code == (u.digit * 16 + DigitValue(c)) % 256
       IN [u EXCEPT !.state = u.trap, !.digit = code, !.url = Append(@, code)]

\* One turn of the loop.
Feed(u, c) ==
  IF ~u.ok THEN u
  ELSE IF u.state \in {"kPersentFirst", "kPersentSecond"} THEN FeedPercent(u, c)
  ELSE IF c = Percent THEN [u EXCEPT !.state = "kPersentFirst", !.trap = u.state]
  ELSE FeedPlain(u, c)

Run(url) == FoldLeft(Feed, Machine0, url)

-----------------------------------------------------------------------------
(* What the loop is there for, said without it.                            *)

\* The maximal parts of s without the character c, in order; k parts for k - 1
\* occurrences of c.
Split(s, c) ==
  FoldLeft(LAMBDA parts, x : IF x = c THEN Append(parts, <<>>)
                             ELSE Append(Front(parts), Append(Last(parts), x)),
           <<<<>>>>, s)

\* The segments of a URL: what lies between its slashes.
Segments(url) == Tail(Split(url, Slash))

IsDotSegment(s) == s = <<Dot>> \/ s = <<Dot, Dot>>

\* A URL made of plain names, empty and dot segments: no name that starts with a
\* dot and no escape.
IsPlain(url) == /\ url # <<>> /\ url[1] = Slash
                /\ Percent \notin Range(url)
                /\ \A i \in DOMAIN Segments(url) :
                     LET s == Segments(url)[i] IN IsDotSegment(s) \/ s = <<>> \/ s[1] # Dot

\* No character of the text but a digit is one for the machine.
OnlyDigits(text) == \A c \in Range(text) : IsPercentDigit(c) => IsDigit(c)

\* No empty segment is in a URL.
NoTwoSlashes(url) == \A i \in 1..(Len(url) - 1) : ~(url[i] = Slash /\ url[i + 1] = Slash)

\* The directory that a sequence of segments leads to, starting at the root.
Walk(names) ==
  FoldLeft(LAMBDA path, s : IF s \in {<<>>, <<Dot>>} THEN path
                            ELSE IF s # <<Dot, Dot>> THEN Append(path, s)
                            ELSE IF path = <<>> THEN path ELSE Front(path),
           <<>>, names)

\* The URL of a file in a directory.
Join(path, name) ==
  FoldLeft(LAMBDA s, part : s \o part \o <<Slash>>, <<Slash>>, path) \o name

\* What a plain URL means.  A dot segment that is the last one, with no slash
\* after it, is dropped.
Resolved(url) == LET s == Segments(url)
                 IN Join(Walk(Front(s)), IF IsDotSegment(Last(s)) THEN <<>> ELSE Last(s))
=============================================================================
