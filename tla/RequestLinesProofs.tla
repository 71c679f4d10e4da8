------------------------- MODULE RequestLinesProofs -------------------------
(***************************************************************************)
(* Proofs about both parsers over all inputs and all ways to cut them.     *)
(* Version 1: its types, that the header fields do not depend on the cuts, *)
(* and that a request which is complete stays as it is.  Version 2: that   *)
(* the query is cut off a URL where it should be and split as it should.   *)
(* Both: that the escapes in a path are decoded.                           *)
(***************************************************************************)
EXTENDS RequestLines, HeaderLineProofs

\* The header lines that are fields: all that have been parsed, but for the blank one.
Parsed1 == IF phase \in {"kBody", "kComplete"} THEN at - 1 ELSE at

\* What has been parsed so far, if no line is without a colon.
Fields ==
  /\ input \in Inputs /\ arrived \in 0..Total /\ at \in 0..Len(input.fields)
  /\ phase \in {"kRequestLine", "kHeader", "kBody", "kComplete"}
  /\ phase = "kRequestLine" => at = 0 /\ headers = <<>>
  /\ phase \in {"kBody", "kComplete"} => at >= 1 /\ input.fields[at].kind = "blank"
  /\ (\A u \in Range(input.fields) : u.kind # "text") =>
       /\ \A i \in 1..Parsed1 : input.fields[i].kind = "field"
       /\ DOMAIN headers = {input.fields[i].name : i \in 1..Parsed1}
       /\ \A i \in 1..Parsed1 :
            (\A j \in 1..(i - 1) : input.fields[j].name # input.fields[i].name) =>
              headers[input.fields[i].name] = input.fields[i].value

-----------------------------------------------------------------------------
(* What the steps do                                                       *)

\* What the model assumes of an input.
LEMMA InputIs ==
  ASSUME Fields
  PROVE  /\ Len(input.line) \in Nat /\ Len(input.fields) \in Nat
         /\ input.fields \in Seq(Range(input.fields))
         /\ DOMAIN input.fields = 1..Len(input.fields)
         /\ \A i \in 1..Len(input.fields) : /\ input.fields[i] \in Range(input.fields)
                                            /\ input.fields[i].kind \in {"field", "text", "blank"}
         /\ input.cuts \subseteq 1..Total
<1>1. /\ input.line \in Seq(0..255) /\ input.fields \in Seq(Range(input.fields))
      /\ \A u \in Range(input.fields) : IsUnit(u)
      /\ input.cuts \subseteq 1..Total
  BY InputsAssumption DEF Fields, Total
<1>2. \A i \in 1..Len(input.fields) : input.fields[i] \in Range(input.fields)
  BY <1>1
<1> QED
  BY <1>1, <1>2 DEF IsUnit

\* A message goes on from what has arrived, and not beyond what the client sends.
LEMMA Arrives ==
  ASSUME Fields, OnMessage
  PROVE  arrived \in Nat /\ arrived' \in 0..Total /\ arrived' \in Nat /\ arrived' > arrived
<1> DEFINE S == {n \in input.cuts \cup {Total} : n > arrived}
<1> DEFINE t == Total
<1>1. t \in Nat /\ input.cuts \subseteq 1..t /\ arrived < t
  <2>1. t = Len(input.line) + Len(input.fields)
    BY DEF Total
  <2>2. arrived < t
    BY DEF OnMessage
  <2>3. input.cuts \subseteq 1..t
    BY InputIs
  <2>4. Len(input.line) \in Nat /\ Len(input.fields) \in Nat
    BY InputIs
  <2> HIDE DEF t
  <2>5. \A l, k \in Nat : l + k \in Nat
    OBVIOUS
  <2>6. t \in Nat
    BY <2>1, <2>4, <2>5, Zenon
  <2> QED
    BY <2>2, <2>3, <2>6
<1>2. arrived \in Nat
  BY <1>1 DEF Fields, t
<1> HIDE DEF t
<1>3. S \in SUBSET Nat /\ S # {} /\ S \subseteq 0..t /\ \A n \in S : n > arrived
  BY <1>1 DEF t
<1>4. arrived' = Min(S)
  BY DEF OnMessage
<1> HIDE DEF S
<1> QED
  BY <1>2, <1>3, <1>4, LeastNumber DEF t

\* A message is never longer than what the client sends.
LEMMA OnMessageFields ==
  ASSUME Fields, OnMessage
  PROVE  Fields'
<1>1. arrived' \in 0..Total
  BY Arrives
<1>2. UNCHANGED <<input, phase, at, headers>>
  BY DEF OnMessage
<1> QED
  BY <1>1, <1>2 DEF Fields, Parsed1, Total

\* The next header line to parse is the first that waits.
LEMMA FirstWaiting ==
  ASSUME Fields, Waiting # <<>>
  PROVE  at + 1 \in 1..Len(input.fields) /\ Head(Waiting) = input.fields[at + 1]
<1>1. /\ Waiting = SubSeq(input.fields, at + 1, arrived - Len(input.line))
      /\ arrived - Len(input.line) \in 0..Len(input.fields)
  <2>1. /\ ~(arrived <= Len(input.line))
        /\ Waiting = SubSeq(input.fields, at + 1, arrived - Len(input.line))
    BY DEF Waiting
  <2>2. arrived \in 0..(Len(input.line) + Len(input.fields))
    BY DEF Fields, Total
  <2> DEFINE l == Len(input.line)
             k == Len(input.fields)
  <2>3. l \in Nat /\ k \in Nat
    BY InputIs
  <2> HIDE DEF l, k
  <2>4. arrived \in 0..(l + k) /\ ~(arrived <= l)
    BY <2>1, <2>2 DEF l, k
  <2>5. arrived - l \in 0..k
    BY <2>3, <2>4
  <2> QED
    BY <2>1, <2>5 DEF l, k
<1>2. at + 1 <= arrived - Len(input.line)
  <2>1. ~(at + 1 > arrived - Len(input.line))
    BY <1>1, InputIs, SubSeqEmpty DEF Fields
  <2>2. at + 1 \in Int /\ arrived - Len(input.line) \in Int
    BY <1>1 DEF Fields
  <2>3. \A a, b \in Int : a > b \/ a <= b
    OBVIOUS
  <2> QED
    BY <2>1, <2>2, <2>3, Zenon
<1>3. /\ at + 1 \in 1..Len(input.fields)
      /\ arrived - Len(input.line) \in (at + 1)..Len(input.fields)
  BY <1>1, <1>2, InputIs DEF Fields
<1> QED
  BY <1>1, <1>3, InputIs, HeadTailOfSubSeq

\* The next field counts if it is the first of its name.
LEMMA HeaderFieldFields ==
  ASSUME Fields, HeaderField
  PROVE  Fields'
<1> DEFINE f == input.fields
           m == at + 1
<1>1. /\ phase = "kHeader" /\ at' = m /\ UNCHANGED <<input, arrived, phase>>
      /\ m \in 1..Len(f) /\ Head(Waiting) = f[m] /\ f[m].kind # "blank"
  BY FirstWaiting DEF HeaderField
<1>2. SUFFICES ASSUME \A u \in Range(f) : u.kind # "text"
               PROVE  /\ \A i \in 1..m : f[i].kind = "field"
                      /\ DOMAIN headers' = {f[i].name : i \in 1..m}
                      /\ \A i \in 1..m : (\A j \in 1..(i - 1) : f[j].name # f[i].name) =>
                                           headers'[f[i].name] = f[i].value
  <2>1. /\ Parsed1' = m /\ Total' = Total /\ m \in 0..Len(f)
        /\ phase' = "kHeader" /\ at' = m /\ input' = input /\ arrived' = arrived
    BY <1>1, InputIs DEF Parsed1, Total
  <2>2. /\ input \in Inputs /\ arrived \in 0..Total
    BY DEF Fields
  <2> HIDE DEF m
  <2> QED
    BY <1>2, <2>1, <2>2 DEF Fields
<1>3. /\ f[m].kind = "field"
      /\ headers' = Emplace(headers, f[m].name, f[m].value)
  BY <1>1, <1>2, InputIs DEF HeaderField
<1>4. /\ \A i \in 1..at : f[i].kind = "field"
      /\ DOMAIN headers = {f[i].name : i \in 1..at}
      /\ \A i \in 1..at : (\A j \in 1..(i - 1) : f[j].name # f[i].name) =>
                            headers[f[i].name] = f[i].value
  BY <1>1, <1>2 DEF Fields, Parsed1
<1>5. at \in Nat /\ 1..m = (1..at) \cup {m}
  BY DEF Fields
<1>6. DOMAIN headers' = DOMAIN headers \cup {f[m].name}
  BY <1>3 DEF Emplace
<1>7. DOMAIN headers' = {f[i].name : i \in 1..m}
  BY <1>4, <1>5, <1>6
<1>8. \A n \in DOMAIN headers : headers'[n] = headers[n]
  BY <1>3 DEF Emplace
<1>9. ASSUME NEW i \in 1..m, \A j \in 1..(i - 1) : f[j].name # f[i].name
      PROVE  headers'[f[i].name] = f[i].value
  <2>1. CASE i \in 1..at
    BY <1>4, <1>8, <1>9, <2>1
  <2>2. CASE i = m
    <3>1. f[m].name \notin DOMAIN headers
      BY <1>4, <1>5, <1>9, <2>2
    <3> QED
      BY <1>3, <2>2, <3>1 DEF Emplace
  <2> QED
    BY <1>5, <2>1, <2>2
<1> QED
  BY <1>3, <1>4, <1>5, <1>7, <1>9

\* The blank line ends the fields.
LEMMA HeaderEndFields ==
  ASSUME Fields, HeaderEnd
  PROVE  Fields'
<1>1. /\ phase = "kHeader" /\ phase' = "kBody" /\ at' = at + 1
      /\ UNCHANGED <<input, arrived, headers>>
      /\ at + 1 \in 1..Len(input.fields) /\ input.fields[at + 1].kind = "blank"
  BY FirstWaiting DEF HeaderEnd
<1>2. Parsed1' = Parsed1 /\ Parsed1 = at
  BY <1>1 DEF Parsed1, Fields
<1>3. /\ input' = input /\ Total' = Total /\ at' \in 0..Len(input.fields) /\ at' >= 1
  BY <1>1, InputIs DEF Total, Fields
<1>4. /\ input \in Inputs /\ arrived \in 0..Total
      /\ (\A u \in Range(input.fields) : u.kind # "text") =>
           /\ \A i \in 1..Parsed1 : input.fields[i].kind = "field"
           /\ DOMAIN headers = {input.fields[i].name : i \in 1..Parsed1}
           /\ \A i \in 1..Parsed1 :
                (\A j \in 1..(i - 1) : input.fields[j].name # input.fields[i].name) =>
                  headers[input.fields[i].name] = input.fields[i].value
  BY DEF Fields
<1> QED
  BY <1>1, <1>2, <1>3, <1>4 DEF Fields

\* No field has been parsed before the first message.
LEMMA InitFields == Init => Fields
<1> SUFFICES ASSUME Init PROVE Fields
  OBVIOUS
<1>1. /\ input \in Inputs /\ arrived = 0 /\ at = 0 /\ phase = "kRequestLine"
      /\ headers = <<>>
  BY DEF Init
<1>2. input.line \in Seq(0..255) /\ input.fields \in Seq(Range(input.fields))
  BY <1>1, InputsAssumption
<1>3. Len(input.line) \in Nat /\ Len(input.fields) \in Nat
  BY <1>2
<1>4. Parsed1 = 0 /\ 1..0 = {}
  BY <1>1 DEF Parsed1
<1>5. DOMAIN headers = {}
  BY <1>1
<1>6. {input.fields[i].name : i \in 1..0} = {}
  BY <1>4
<1>7. /\ arrived \in 0..Total /\ at \in 0..Len(input.fields)
  <2> DEFINE l == Len(input.line)
             k == Len(input.fields)
  <2>1. l \in Nat /\ k \in Nat
    BY <1>3
  <2> HIDE DEF l, k
  <2>2. 0 \in 0..(l + k) /\ 0 \in 0..k
    BY <2>1
  <2> QED
    BY <1>1, <2>2 DEF Total, l, k
<1>8. \A i \in 1..Parsed1 : FALSE
  BY <1>4
<1> QED
  BY <1>1, <1>4, <1>5, <1>6, <1>7, <1>8 DEF Fields

-----------------------------------------------------------------------------
(* The theorems                                                            *)

\* The header fields are those of the lines that have been parsed.
THEOREM FieldsHold == Spec => []Fields
<1>1. Fields /\ [Next]_vars => Fields'
  <2> SUFFICES ASSUME Fields, [Next]_vars PROVE Fields'
    OBVIOUS
  <2>1. CASE OnMessage \/ HeaderField \/ HeaderEnd
    BY <2>1, OnMessageFields, HeaderFieldFields, HeaderEndFields
  <2>2. CASE RequestLineOk
    BY <2>2 DEF RequestLineOk, Fields, Parsed1, Total
  <2>3. CASE Body
    BY <2>3 DEF Body, Fields, Parsed1, Total
  <2>4. CASE \/ RequestLineShort \/ RequestLineBad \/ HeaderBad \/ HeaderShort
             \/ Complete \/ UNCHANGED vars
    <3>1. UNCHANGED <<input, arrived, phase, at, headers>>
      BY <2>4 DEF RequestLineShort, RequestLineBad, HeaderBad, HeaderShort, Complete, vars
    <3> QED
      BY <3>1 DEF Fields, Parsed1, Total
  <2> QED
    BY <2>1, <2>2, <2>3, <2>4 DEF Next
<1> QED
  BY <1>1, InitFields, PTL DEF Spec

\* However the header lines were cut into pieces, the header fields are those of the
\* message, the first of each name: for any number of lines.
THEOREM PiecesAgree == Spec => []HeaderPiecesAgree
<1>1. Fields => HeaderPiecesAgree
  <2> DEFINE f == input.fields
             blank == Min({i \in DOMAIN f : f[i].kind = "blank"})
             mine == SubSeq(f, 1, blank - 1)
  <2> SUFFICES ASSUME Fields, phase = "kComplete", \A u \in Range(f) : u.kind # "text"
               PROVE  /\ DOMAIN headers = {mine[i].name : i \in DOMAIN mine}
                      /\ \A n \in DOMAIN headers :
                           headers[n] = mine[Min({i \in DOMAIN mine : mine[i].name = n})].value
    BY DEF HeaderPiecesAgree
  <2>1. /\ at \in 1..Len(f) /\ f[at].kind = "blank"
        /\ \A i \in 1..(at - 1) : f[i].kind = "field"
        /\ DOMAIN headers = {f[i].name : i \in 1..(at - 1)}
        /\ \A i \in 1..(at - 1) : (\A j \in 1..(i - 1) : f[j].name # f[i].name) =>
                                    headers[f[i].name] = f[i].value
    BY DEF Fields, Parsed1
  <2>2. blank = at
    <3> DEFINE S == {i \in DOMAIN f : f[i].kind = "blank"}
    <3>1. S \in SUBSET Nat /\ at \in S /\ \A i \in S : at <= i
      BY <2>1, InputIs
    <3> HIDE DEF S
    <3>2. Min(S) = at
      BY <3>1, LeastNumber
    <3> QED
      BY <3>2 DEF S
  <2>3. /\ DOMAIN mine = 1..(at - 1)
        /\ \A i \in 1..(at - 1) : mine[i] = f[i]
    <3> DEFINE s == SubSeq(f, 1, at - 1)
    <3>1. \A i \in 1..(at - 1) : f[i] \in Range(f)
      BY <2>1, InputIs
    <3>2. /\ s \in Seq(Range(f)) /\ Len(s) = at - 1
          /\ \A i \in 1..(at - 1) : s[i] = f[i]
      BY <2>1, <3>1, SubSeqProperties
    <3>3. mine = s
      BY <2>2
    <3> HIDE DEF mine, s
    <3> QED
      BY <2>1, <3>2, <3>3
  <2> HIDE DEF mine, f
  <2>4. ASSUME NEW n \in DOMAIN headers
        PROVE  headers[n] = mine[Min({i \in DOMAIN mine : mine[i].name = n})].value
    <3> DEFINE S == {i \in DOMAIN mine : mine[i].name = n}
    <3>1. S = {i \in 1..(at - 1) : f[i].name = n}
      BY <2>3
    <3>2. S # {}
      <4>1. PICK i \in 1..(at - 1) : n = f[i].name
        BY <2>1
      <4> QED
        BY <3>1, <4>1
    <3>3. S \in SUBSET Nat
      BY <3>1
    <3> HIDE DEF S
    <3>4. PICK i \in S : (\A j \in S : i <= j) /\ Min(S) = i
      BY <3>2, <3>3, LeastNumber
    <3>5. i \in 1..(at - 1) /\ f[i].name = n
      BY <3>1, <3>4
    <3>6. \A j \in 1..(i - 1) : f[j].name # n
      <4> SUFFICES ASSUME NEW j \in 1..(i - 1), f[j].name = n PROVE FALSE
        OBVIOUS
      <4>1. j \in S
        BY <2>1, <3>1, <3>5
      <4> QED
        BY <2>1, <3>4, <3>5, <4>1
    <3>7. headers[n] = f[i].value
      BY <2>1, <3>5, <3>6
    <3>8. headers[n] = mine[Min(S)].value
      BY <2>3, <3>4, <3>5, <3>7
    <3> QED
      BY <3>8 DEF S
  <2>5. DOMAIN headers = {mine[i].name : i \in DOMAIN mine}
    <3>1. DOMAIN mine = 1..(at - 1) /\ \A i \in 1..(at - 1) : mine[i] = f[i]
      BY <2>3
    <3>2. DOMAIN headers = {f[i].name : i \in 1..(at - 1)}
      BY <2>1
    <3> QED
      BY <3>1, <3>2, Zenon
  <2> QED
    BY <2>4, <2>5
<1> QED
  BY <1>1, FieldsHold, PTL

-----------------------------------------------------------------------------
(* Version 2's header line                                                 *)

\* A line without its end is a front part of it.
LEMMA ChopIs ==
  ASSUME NEW l \in Seq(Chars), l # <<>>
  PROVE  \E n \in 0..Len(l) : /\ Chop(l) \in Seq(Chars) /\ Len(Chop(l)) = n
                              /\ \A i \in 1..n : Chop(l)[i] = l[i]
<1>1. Len(l) \in Nat \ {0} /\ \A i \in 1..Len(l) : l[i] \in Chars
  OBVIOUS
<1>2. PICK n \in {Len(l) - 1, Len(l) - 2} : Chop(l) = SubSeq(l, 1, n) /\ n \in 0..Len(l)
  <2>1. CASE Len(l) >= 2 /\ l[Len(l) - 1] = CR
    BY <1>1, <2>1 DEF Chop
  <2>2. CASE ~(Len(l) >= 2 /\ l[Len(l) - 1] = CR)
    BY <1>1, <2>2 DEF Chop, Front
  <2> QED
    BY <2>1, <2>2
<1>3. \A i \in 1..n : l[i] \in Chars
  BY <1>1, <1>2
<1>4. /\ SubSeq(l, 1, n) \in Seq(Chars) /\ Len(SubSeq(l, 1, n)) = n
      /\ \A i \in 1..n : SubSeq(l, 1, n)[i] = l[i]
  BY <1>1, <1>2, <1>3
<1> QED
  BY <1>2, <1>4

\* Every line: what version 2 stores of a request that is no POST.
QuerySplit(l) ==
  LET p == ParseHeaderLine(Chop(l))
      rest == After(l, Find(l, Space))
      text == Before(rest, Find(rest, Space))
      done == Run(text)
  IN p.good /\ p.method # POST
       => /\ p.asserted
          /\ ~done.ok => p.url = text
          /\ done.ok /\ Question \in Range(Last(Segments(text))) =>
               Question \notin Range(p.url) /\ p.url \o <<Question>> \o p.query = done.url
          /\ done.ok /\ Question \notin Range(text) =>
               p.query = <<>> /\ p.url = IF IsComplex(text) THEN done.url ELSE text

\* That is what version 2 makes of every line.
LEMMA QueryIsSplitOff ==
  ASSUME NEW l \in Seq(Chars), l # <<>>
  PROVE  QuerySplit(l)
<1> DEFINE b == Chop(l)
           p == ParseHeaderLine(b)
           rest == After(l, Find(l, Space))
           text == Before(rest, Find(rest, Space))
           split == /\ p.asserted
                    /\ ~Run(text).ok => p.url = text
                    /\ Run(text).ok /\ Question \in Range(Last(Segments(text))) =>
                         Question \notin Range(p.url) /\ p.url \o <<Question>> \o p.query = Run(text).url
                    /\ Run(text).ok /\ Question \notin Range(text) =>
                         p.query = <<>> /\ p.url = IF IsComplex(text) THEN Run(text).url ELSE text
<1> SUFFICES ASSUME p.good, p.method # POST PROVE split
  BY DEF QuerySplit
<1>1. b \in Seq(Chars) /\ StartsWith(l, b)
  BY ChopIs DEF StartsWith
<1>2. PICK m, brest, u : IsHeaderLine(p, b, m, brest, u)
  BY GoodLine
<1> HIDE DEF b, p
<1>3. /\ m = Before(b, Find(b, Space)) /\ brest = After(b, Find(b, Space))
      /\ u = Before(brest, Find(brest, Space)) /\ Find(b, Space) # 0 /\ Find(brest, Space) # 0
      /\ u # <<>> /\ u[1] = Slash /\ p.method = m /\ p.static = (m # POST /\ ~HasQuery(u))
      /\ IF IsComplex(u) THEN StoresResult(p, u) ELSE p.url = u /\ p.query = <<>> /\ p.asserted
  BY <1>2 DEF IsHeaderLine
<1>4. Find(l, Space) = Find(b, Space) /\ StartsWith(rest, brest)
      /\ brest \in Seq(Chars) /\ rest \in Seq(Chars)
  BY <1>1, <1>3, FoundInStart
<1> HIDE DEF rest
<1>5. u = text /\ u \in Seq(Chars)
  BY <1>3, <1>4, FoundInStart
<1> HIDE DEF text
<1>6. CASE ~IsComplex(u)
  <2>1. ~HasQuery(u)
    BY <1>6 DEF IsComplex
  <2> QED
    BY <1>3, <1>5, <1>6, <2>1 DEF HasQuery
<1>7. CASE IsComplex(u) /\ (~Run(u).ok \/ p.static)
  <2>1. p.static => Question \notin Range(Last(Segments(u)))
    BY <1>3 DEF HasQuery
  <2> QED
    BY <1>3, <1>5, <1>7, <2>1 DEF StoresResult
<1>8. CASE IsComplex(u) /\ Run(u).ok /\ ~p.static
  <2> DEFINE v == Run(u).url
             q == Find(v, Question)
  <2>1. Question \in Range(Last(Segments(u)))
    BY <1>3, <1>8 DEF HasQuery
  <2>2. v \in Seq(Chars)
    <3>1. Run(u) \in Machines
      BY <1>5, RunIs
    <3> QED
      BY <3>1 DEF Machines
  <2>3. Question \in Range(v)
    BY <1>3, <1>5, <1>8, <2>1, QuestionStays
  <2>4. q # 0 => p.asserted /\ p.url = Before(v, q) /\ p.query = After(v, q)
    BY <1>3, <1>8 DEF StoresResult
  <2>5. q = 0 => \A i \in 1..Len(v) : v[i] # Question
    <3> HIDE DEF v
    <3> QED
      BY <2>2, FindIs
  <2>6. q # 0
    <3>1. \E i \in 1..Len(v) : v[i] = Question
      BY <2>2, <2>3 DEF Range
    <3> QED
      BY <2>5, <3>1
  <2>7. q \in 1..Len(v) /\ v[q] = Question /\ \A i \in 1..(q - 1) : v[i] # Question
    <3> HIDE DEF v
    <3> QED
      BY <2>2, <2>6, FindIs
  <2>8. v = Run(u).url
    OBVIOUS
  <2> HIDE DEF v, q
  <2>9. q \in 0..Len(v) /\ q >= 1 /\ \A i \in 1..(q - 1) : i \in Nat
    BY <2>2, <2>7
  <2>10. /\ Before(v, q) \in Seq(Chars) /\ Len(Before(v, q)) = q - 1
         /\ \A i \in 1..(q - 1) : Before(v, q)[i] = v[i]
         /\ v = Before(v, q) \o <<Question>> \o After(v, q)
    <3>1. /\ Before(v, q) \in Seq(Chars) /\ Len(Before(v, q)) = q - 1
          /\ \A i \in 1..(q - 1) : Before(v, q)[i] = v[i]
      BY <2>2, <2>9, BeforeAfter
    <3>2. v = Before(v, q) \o <<Question>> \o After(v, q)
      BY <2>2, <2>7, AroundPosition
    <3> QED
      BY <3>1, <3>2
  <2>11. Question \notin Range(p.url)
    <3>1. DOMAIN Before(v, q) = 1..(q - 1)
      BY <2>10
    <3>2. p.url = Before(v, q)
      BY <2>4, <2>6
    <3> SUFFICES ASSUME NEW i \in 1..(q - 1) PROVE Before(v, q)[i] # Question
      BY <3>1, <3>2 DEF Range
    <3> QED
      BY <2>7, <2>10
  <2>12. Question \in Range(u)
    BY <1>3, <1>5, <2>1, LastSegmentIsPart
  <2> QED
    BY <1>5, <1>8, <2>4, <2>6, <2>8, <2>10, <2>11, <2>12
<1> QED
  BY <1>6, <1>7, <1>8

\* What the client sends stays what it is.
LEMMA InputStays == Spec => []({input} \subseteq Inputs)
<1>1. Init => {input} \subseteq Inputs
  BY DEF Init
<1>2. {input} \subseteq Inputs /\ [Next]_vars => ({input} \subseteq Inputs)'
  BY DEF Next, vars, OnMessage, RequestLineOk, RequestLineShort, RequestLineBad, HeaderField,
         HeaderBad, HeaderShort, HeaderEnd, Body, Complete
<1> QED
  BY <1>1, <1>2, PTL DEF Spec

\* Version 2 stores a URL whole, as it was sent if an escape in it has an error; it cuts
\* off the query of the last segment at the first ? of the result, and finds one there;
\* and it finds no query where there is no ?: for every line.
THEOREM QueryIsAlwaysSplit == Spec => []QueryIsSplit
<1>1. {input} \subseteq Inputs => QueryIsSplit
  <2> SUFFICES ASSUME input \in Inputs PROVE QueryIsSplit
    OBVIOUS
  <2>1. input.line \in Seq(Chars) /\ input.line # <<>>
    BY InputsAssumption DEF Chars
  <2>2. QuerySplit(input.line)
    BY <2>1, QueryIsSplitOff
  <2> QED
    BY <2>2, Zenon DEF QueryIsSplit, QuerySplit, Line2
<1> QED
  BY <1>1, InputStays, PTL

\* Of every query in which each pair has a =, ParseArgs() makes a map, and the first of
\* equal names counts.
THEOREM ArgsAreAlwaysSplit == Spec => []ArgsAreSplit
<1>1. {input} \subseteq Inputs => ArgsAreSplit
  <2> SUFFICES ASSUME input \in Inputs, Line2.good,
                      \A p \in Range(Split(Line2.query, Ampersand)) : Equal \in Range(p)
               PROVE  ArgsOf(Line2.query)
    BY Zenon DEF ArgsAreSplit, ArgsOf
  <2>1. input.line \in Seq(Chars) /\ input.line # <<>>
    BY InputsAssumption DEF Chars
  <2>2. Chop(input.line) \in Seq(Chars)
    BY <2>1, ChopIs
  <2>3. Line2.query \in Seq(Chars)
    BY <2>2, QueryType DEF Line2
  <2> QED
    BY <2>3, QueryArgs
<1> QED
  BY <1>1, InputStays, PTL

\* The path in a request line is a string of characters.
LEMMA PathTextType ==
  ASSUME NEW l \in Seq(Chars), l # <<>>, IsRequestLine(l)
  PROVE  PathText(l) \in Seq(Chars)
<1> DEFINE b == Chop(l)
           w == WordsOf(b)
           u == w[2]
           n == PathStart(u)
<1>1. b \in Seq(Chars)
  BY ChopIs
<1>2. w \in Seq(Seq(Chars))
  <2> DEFINE parts == Split(b, Space)
  <2>1. parts \in Parts(Space)
    BY <1>1, SplitIs
  <2>2. w = WordList(parts)
    BY Zenon DEF WordsOf, WordList
  <2> HIDE DEF parts, w
  <2>3. parts \in Seq(Seq(Chars))
    <3>1. Chars \ {Space} \subseteq Chars
      OBVIOUS
    <3>2. Seq(Chars \ {Space}) \subseteq Seq(Chars)
      BY <3>1, SeqMonotonic
    <3> QED
      BY <2>1, <3>2, SeqMonotonic DEF Parts
  <2> QED
    BY <2>2, <2>3, WordListIs
<1>3. Len(w) = 3 /\ n > 0
  BY DEF IsRequestLine, IsLineOf
<1>4. PathText(l) = SubSeq(u, n, Len(u))
  BY DEF PathText
<1> HIDE DEF w
<1>5. u \in Seq(Chars)
  <2> DEFINE T == Seq(Chars)
  <2>1. w \in Seq(T) /\ Len(w) = 3
    BY <1>2, <1>3
  <2> HIDE DEF T
  <2>2. 2 \in 1..Len(w)
    BY <2>1
  <2>3. w[2] \in T
    BY <2>1, <2>2, ElementOfSeq
  <2> QED
    BY <2>3 DEF T
<1> HIDE DEF u
<1>6. n \in Int
  <2> DEFINE colon == Find(u, Colon)
             rest == After(u, colon + 2)
             slash == Find(rest, Slash)
  <2>1. n \in {1, colon + 2 + slash, 0}
    BY DEF PathStart
  <2>2. Len(u) \in Nat
    BY <1>5
  <2>3. colon \in Int
    <3>1. colon = 0 \/ colon \in 1..Len(u)
      BY <1>5, FindIs
    <3> HIDE DEF colon
    <3> QED
      BY <3>1
  <2> HIDE DEF colon
  <2>4. rest \in Seq(Chars)
    <3>1. \A i \in (colon + 2 + 1)..Len(u) : colon = 0 \/ colon > 0 => i \in 1..Len(u)
      BY <2>2, <2>3
    <3>2. colon = 0 \/ colon > 0
      <4>1. colon = 0 \/ colon \in 1..Len(u)
        BY <1>5, FindIs DEF colon
      <4> QED
        BY <2>2, <4>1
    <3>3. \A i \in (colon + 2 + 1)..Len(u) : u[i] \in Chars
      BY <1>5, <3>1, <3>2
    <3>4. colon + 2 + 1 \in Int /\ Len(u) \in Int
      BY <2>2, <2>3
    <3> QED
      BY <3>3, <3>4, SubSeqProperties DEF After
  <2> HIDE DEF rest
  <2>5. slash \in Int
    <3>1. slash = 0 \/ slash \in 1..Len(rest)
      BY <2>4, FindIs
    <3>2. Len(rest) \in Nat
      BY <2>4
    <3> HIDE DEF slash
    <3> QED
      BY <3>1, <3>2
  <2> HIDE DEF slash, n
  <2> QED
    BY <2>1, <2>3, <2>5
<1> HIDE DEF n
<1>7. \A i \in n..Len(u) : u[i] \in Chars
  <2>1. \A i \in n..Len(u) : i \in 1..Len(u)
    BY <1>3, <1>5, <1>6
  <2> QED
    BY <1>5, <2>1
<1>8. Len(u) \in Int
  BY <1>5
<1> QED
  BY <1>4, <1>6, <1>7, <1>8, SubSeqProperties

\* In the path of every request line in which only digits are digits and no escape has a
\* letter, an escape is two digits and any other is an error, but for one that ends the
\* path; and a path that has no empty or dot segment and no escape after a slash is
\* decoded to what it stands for.
THEOREM EscapesAreAlwaysDecoded == Spec => []EscapesAreDecoded
<1>1. {input} \subseteq Inputs => EscapesAreDecoded
  <2> SUFFICES ASSUME input \in Inputs, IsRequestLine(input.line), OnlyDigits(PathText(input.line))
               PROVE  EscapesOf(PathText(input.line))
    BY Zenon DEF EscapesAreDecoded, EscapesOf
  <2>1. input.line \in Seq(Chars) /\ input.line # <<>>
    BY InputsAssumption DEF Chars
  <2> QED
    BY <2>1, PathTextType, EscapesDecoded
<1> QED
  BY <1>1, InputStays, PTL

-----------------------------------------------------------------------------
(* Version 1's request line                                                *)

States == {"kStart", "kMethod", "kSpacesBeforeUrl", "kScheme", "kSchemeSlash",
           "kSchemeDoubleSlash", "kHost", "kPort", "kAfterSlashInUrl", "kCheckUrl", "kUrl", "kH",
           "kHT", "kHTT", "kHTTP", "kFirstMajorDigit", "kMajorDigit", "kVersionDot",
           "kFirstMinorDigit", "kMinorDigit", "kCRLFAfterMinor", "kAlmostDone", "kDone"} \cup Errors

\* The states in which the URL has begun.
Begun == {"kAfterSlashInUrl", "kCheckUrl", "kUrl", "kH", "kHT", "kHTT", "kHTTP",
          "kFirstMajorDigit", "kMajorDigit", "kVersionDot", "kFirstMinorDigit", "kMinorDigit",
          "kCRLFAfterMinor", "kAlmostDone", "kDone"}

\* The members that ParseRequestLine() sets: positions are not beyond the one that has
\* been reached, and a major version has two digits at most.
Members == [state : States, pos : Nat, method : Methods \cup {<<>>}, static : BOOLEAN,
            complex : BOOLEAN, start : Nat, end : Nat, major : 0..99, minor : Int]
Lines == {r \in Members : /\ r.start <= r.pos /\ r.end <= r.pos
                          /\ r.state = "kMajorDigit" => r.major \in 0..9
                          /\ r.state \in Begun => r.start >= 1}

\* The next state is one.
LEMMA NextIs ==
  ASSUME NEW s \in States, NEW c, NEW before
  PROVE  /\ Next1(s, c, before) \in States
         /\ Next1(s, c, before) = "kMajorDigit" => s = "kFirstMajorDigit" /\ IsDigit(c)
         /\ Next1(s, c, before) = "kVersionDot" => s = "kMajorDigit" /\ IsDigit(c)
         /\ s = "kFirstMajorDigit" /\ Next1(s, c, before) \notin Errors => IsDigit(c)
         /\ Next1(s, c, before) = "kSpacesBeforeUrl" /\ s = "kMethod" => before \in Methods
         /\ Next1(s, c, before) \in Begun =>
              \/ s \in Begun
              \/ /\ Next1(s, c, before) = "kAfterSlashInUrl"
                 /\ s \in {"kSpacesBeforeUrl", "kHost", "kPort"}
<1> DEFINE n == Next1(s, c, before)
<1>1. CASE s \in {"kStart", "kMethod"}
  <2>1. n = NextInMethod(s, c, before)
    BY <1>1 DEF Next1
  <2>2. /\ n \in {"kInvalidHttpRequest", "kSpacesBeforeUrl", "kMethod", "kInvalidMethod"}
        /\ n = "kSpacesBeforeUrl" => before \in Methods
    BY <1>1, <2>1 DEF NextInMethod
  <2> HIDE DEF n
  <2>4. n \in Begun => \/ s \in Begun
                       \/ n = "kAfterSlashInUrl" /\ s \in {"kSpacesBeforeUrl", "kHost", "kPort"}
    BY <1>1, <2>2 DEF Begun
  <2>5. n \in States
    BY <2>2 DEF States, Errors
  <2> QED
    BY <1>1, <2>2, <2>4, <2>5 DEF n, Errors
<1>2. CASE s \in {"kSpacesBeforeUrl", "kScheme", "kSchemeSlash", "kSchemeDoubleSlash",
                  "kHost", "kPort"}
  <2>1. n = NextInAuthority(s, c)
    BY <1>2 DEF Next1
  <2>2. /\ n \in {"kSpacesBeforeUrl", "kAfterSlashInUrl", "kScheme", "kSchemeSlash",
                  "kSchemeDoubleSlash", "kHost", "kPort", "kInvalidUrl"}
        /\ n = "kAfterSlashInUrl" => s \in {"kSpacesBeforeUrl", "kHost", "kPort"}
    BY <1>2, <2>1 DEF NextInAuthority
  <2> HIDE DEF n
  <2>4. n \in Begun => \/ s \in Begun
                       \/ n = "kAfterSlashInUrl" /\ s \in {"kSpacesBeforeUrl", "kHost", "kPort"}
    BY <1>2, <2>2 DEF Begun
  <2>5. n \in States
    BY <2>2 DEF States, Errors
  <2> QED
    BY <1>2, <2>2, <2>4, <2>5 DEF n, Errors
<1>3. CASE s \in {"kAfterSlashInUrl", "kCheckUrl", "kUrl"}
  <2>1. n = NextInUrl(s, c)
    BY <1>3 DEF Next1
  <2>2. n \in {"kH", "kAfterSlashInUrl", "kUrl", "kCheckUrl"}
    BY <1>3, <2>1 DEF NextInUrl
  <2> HIDE DEF n
  <2>4. n \in Begun => \/ s \in Begun
                       \/ n = "kAfterSlashInUrl" /\ s \in {"kSpacesBeforeUrl", "kHost", "kPort"}
    BY <1>3, <2>2 DEF Begun
  <2>5. n \in States
    BY <2>2 DEF States, Errors
  <2> QED
    BY <1>3, <2>2, <2>4, <2>5 DEF n, Errors
<1>4. CASE s \notin {"kStart", "kMethod", "kSpacesBeforeUrl", "kScheme", "kSchemeSlash",
                     "kSchemeDoubleSlash", "kHost", "kPort", "kAfterSlashInUrl", "kCheckUrl", "kUrl"}
  <2>1. n = NextInVersion(s, c)
    BY <1>4 DEF Next1
  <2>2. /\ n \in {"kH", "kHT", "kHTT", "kHTTP", "kFirstMajorDigit", "kMajorDigit", "kVersionDot",
                  "kFirstMinorDigit", "kMinorDigit", "kCRLFAfterMinor", "kAlmostDone", "kDone",
                  "kInvalidHttpRequest", "kInvalidHttpVersion"}
        /\ n = "kMajorDigit" => s = "kFirstMajorDigit" /\ IsDigit(c)
        /\ n = "kVersionDot" => s = "kMajorDigit" /\ IsDigit(c)
        /\ s = "kFirstMajorDigit" => IsDigit(c) \/ n = "kInvalidHttpVersion"
    BY <2>1 DEF NextInVersion, LineEndStates
  <2>3. s \in Begun \/ n = "kInvalidHttpVersion"
    BY <2>1 DEF NextInVersion, LineEndStates, Begun
  <2> HIDE DEF n
  <2>4. n \in Begun => \/ s \in Begun
                       \/ n = "kAfterSlashInUrl" /\ s \in {"kSpacesBeforeUrl", "kHost", "kPort"}
    BY <1>4, <2>2, <2>3 DEF Begun
  <2>5. n \in States
    BY <2>2 DEF States, Errors
  <2> QED
    BY <1>4, <2>2, <2>4, <2>5 DEF n, Errors
<1> QED
  BY <1>1, <1>2, <1>3, <1>4

\* What a turn makes of the members.
IsTurn(r, s, n, c, before, t) ==
  /\ t \in Members
  /\ n \in Errors => /\ t.state = n /\ t.pos = r.pos /\ t.method = r.method /\ t.static = r.static
                     /\ t.complex = r.complex /\ t.start = r.start /\ t.end = r.end
                     /\ t.major = r.major /\ t.minor = r.minor
  /\ n \notin Errors =>
       /\ t.state = n /\ t.pos = r.pos + 1
       /\ t.method = IF n = "kSpacesBeforeUrl" /\ s = "kMethod" THEN before ELSE r.method
       /\ t.static = (r.static /\ ~(n = "kSpacesBeforeUrl" /\ s = "kMethod" /\ before = POST)
                               /\ ~(c = Question /\ c \in ComplexAt(s)))
       /\ t.complex = (r.complex \/ c \in ComplexAt(s))
       /\ t.start = IF n = "kAfterSlashInUrl" /\ s \in {"kSpacesBeforeUrl", "kHost", "kPort"}
                    THEN r.pos + 1 ELSE r.start
       /\ t.end = IF n = "kH" /\ s # "kH" THEN r.pos ELSE r.end
       /\ t.major = (IF s = "kFirstMajorDigit" THEN c - 48
                     ELSE IF n = "kVersionDot" THEN r.major * 10 + c - 48 ELSE r.major)
       /\ t.minor = (IF s = "kFirstMinorDigit" THEN c - 48
                     ELSE IF s = "kMinorDigit" /\ n = "kCRLFAfterMinor"
                          THEN r.minor * 10 + c - 48 ELSE r.minor)

\* A turn that is not left behind does that.
LEMMA TurnIs ==
  ASSUME NEW r \in Lines, NEW c \in Chars, NEW before, NEW s, s = r.state,
         s \notin Errors \cup {"kDone"}, NEW n, n = Next1(s, c, before),
         NEW t, t = Turn(r, c, before)
  PROVE  IsTurn(r, s, n, c, before, t)
<1>1. r \in Members /\ (s = "kMajorDigit" => r.major \in 0..9) /\ s \in States
  BY DEF Lines, Members
<1>2. /\ n \in States /\ (n = "kVersionDot" => s = "kMajorDigit" /\ IsDigit(c))
      /\ (s = "kFirstMajorDigit" /\ n \notin Errors => IsDigit(c))
      /\ (n = "kSpacesBeforeUrl" /\ s = "kMethod" => before \in Methods)
  BY <1>1, NextIs
<1>3. CASE n \in Errors
  <2>1. t = [r EXCEPT !.state = n]
    BY <1>3 DEF Turn
  <2> HIDE DEF Members
  <2>2. t \in Members /\ t.state = n /\ t.pos = r.pos /\ t.method = r.method /\ t.static = r.static
        /\ t.complex = r.complex /\ t.start = r.start /\ t.end = r.end
        /\ t.major = r.major /\ t.minor = r.minor
    BY <1>1, <1>2, <2>1 DEF Members
  <2> QED
    BY <1>3, <2>2 DEF IsTurn
<1>4. CASE n \notin Errors
  <2> DEFINE pos == r.pos + 1
             method == IF n = "kSpacesBeforeUrl" /\ s = "kMethod" THEN before ELSE r.method
             static == r.static /\ ~(n = "kSpacesBeforeUrl" /\ s = "kMethod" /\ before = POST)
                                /\ ~(c = Question /\ c \in ComplexAt(s))
             complex == r.complex \/ c \in ComplexAt(s)
             start == IF n = "kAfterSlashInUrl" /\ s \in {"kSpacesBeforeUrl", "kHost", "kPort"}
                      THEN r.pos + 1 ELSE r.start
             end == IF n = "kH" /\ s # "kH" THEN r.pos ELSE r.end
             major == IF s = "kFirstMajorDigit" THEN c - 48
                      ELSE IF n = "kVersionDot" THEN r.major * 10 + c - 48 ELSE r.major
             minor == IF s = "kFirstMinorDigit" THEN c - 48
                      ELSE IF s = "kMinorDigit" /\ n = "kCRLFAfterMinor"
                           THEN r.minor * 10 + c - 48 ELSE r.minor
  <2>1. t = [r EXCEPT !.state = n, !.pos = pos, !.method = method, !.static = static,
                      !.complex = complex, !.start = start, !.end = end,
                      !.major = CASE s = "kFirstMajorDigit" -> c - 48
                                  [] n = "kVersionDot" -> r.major * 10 + c - 48
                                  [] OTHER -> r.major,
                      !.minor = CASE s = "kFirstMinorDigit" -> c - 48
                                  [] s = "kMinorDigit" /\ n = "kCRLFAfterMinor" -> r.minor * 10 + c - 48
                                  [] OTHER -> r.minor]
    BY <1>4 DEF Turn
  <2>2. pos \in Nat /\ start \in Nat /\ end \in Nat /\ method \in Methods \cup {<<>>}
    BY <1>1, <1>2 DEF Members
  <2>3. static \in BOOLEAN /\ complex \in BOOLEAN
    BY DEF Members
  <2>4. major \in 0..99 /\ minor \in Int
    <3>1. r.major \in 0..99 /\ r.minor \in Int /\ c \in Int
      <4>1. r.major \in 0..99
        BY <1>1 DEF Members
      <4>2. r.minor \in Int
        BY <1>1 DEF Members
      <4>3. c \in Int
        BY DEF Chars
      <4> QED
        BY <4>1, <4>2, <4>3
    <3>2. IsDigit(c) => c - 48 \in 0..9
      BY DEF IsDigit
    <3>3. n = "kVersionDot" => r.major * 10 + c - 48 \in 0..99
      <4> SUFFICES ASSUME n = "kVersionDot" PROVE r.major * 10 + c - 48 \in 0..99
        OBVIOUS
      <4> DEFINE g == r.major
                 d == c - 48
      <4>1. g \in 0..9 /\ d \in 0..9 /\ r.major * 10 + c - 48 = g * 10 + d
        BY <1>1, <1>2, <3>1, <3>2
      <4> HIDE DEF g, d
      <4>2. g * 10 + d \in 0..99
        BY <4>1
      <4> QED
        BY <4>1, <4>2
    <3>4. s = "kFirstMajorDigit" => c - 48 \in 0..9
      BY <1>2, <1>4, <3>2
    <3>5. r.minor * 10 + c - 48 \in Int /\ c - 48 \in Int
      BY <3>1
    <3>6. \A i \in 0..9 : i \in 0..99
      OBVIOUS
    <3> QED
      BY <3>1, <3>3, <3>4, <3>5, <3>6
  <2>5. /\ (CASE s = "kFirstMajorDigit" -> c - 48
              [] n = "kVersionDot" -> r.major * 10 + c - 48
              [] OTHER -> r.major) = major
        /\ (CASE s = "kFirstMinorDigit" -> c - 48
              [] s = "kMinorDigit" /\ n = "kCRLFAfterMinor" -> r.minor * 10 + c - 48
              [] OTHER -> r.minor) = minor
    BY <1>2
  <2>6. t = [r EXCEPT !.state = n, !.pos = pos, !.method = method, !.static = static,
                      !.complex = complex, !.start = start, !.end = end, !.major = major,
                      !.minor = minor]
    BY <2>1, <2>5, ZenonT(60)
  <2>7. IsTurn(r, s, n, c, before, t) <=>
          /\ t \in Members /\ t.state = n /\ t.pos = pos /\ t.method = method /\ t.static = static
          /\ t.complex = complex /\ t.start = start /\ t.end = end /\ t.major = major
          /\ t.minor = minor
    BY <1>4 DEF IsTurn
  <2> HIDE DEF pos, method, static, complex, start, end, major, minor
  <2>8. t \in Members /\ t.state = n /\ t.pos = pos /\ t.method = method /\ t.static = static
        /\ t.complex = complex /\ t.start = start /\ t.end = end /\ t.major = major
        /\ t.minor = minor
    BY <1>1, <1>2, <2>2, <2>3, <2>4, <2>6, ZenonT(60) DEF Members
  <2> QED
    BY <2>7, <2>8
<1> QED
  BY <1>3, <1>4

\* A turn takes members to members, one position further at most.
LEMMA TurnType ==
  ASSUME NEW r \in Lines, NEW c \in Chars, NEW before
  PROVE  Turn(r, c, before) \in Lines /\ Turn(r, c, before).pos \in {r.pos, r.pos + 1}
<1> DEFINE s == r.state
           n == Next1(s, c, before)
           t == Turn(r, c, before)
<1>1. CASE s \in Errors \cup {"kDone"}
  BY <1>1 DEF Turn
<1>2. CASE s \notin Errors \cup {"kDone"}
  <2>1. IsTurn(r, s, n, c, before, t)
    BY <1>2, TurnIs
  <2>2. s \in States
    BY DEF Lines, Members
  <2>3. n = "kMajorDigit" => s = "kFirstMajorDigit" /\ IsDigit(c)
    BY <2>2, NextIs
  <2>4. r.start <= r.pos /\ r.end <= r.pos /\ r.pos \in Nat /\ r.start \in Nat /\ r.end \in Nat
    BY DEF Lines, Members
  <2>8. n \in Begun => (s \in Begun \/ (n = "kAfterSlashInUrl" /\ s \in {"kSpacesBeforeUrl", "kHost", "kPort"}))
    BY <2>2, NextIs
  <2>9. s \in Begun => r.start >= 1
    BY DEF Lines
  <2> HIDE DEF s, n, t
  <2>5. t \in Members /\ t.state = n /\ t.pos \in {r.pos, r.pos + 1}
        /\ t.start \in {r.start, r.pos + 1} /\ t.end \in {r.end, r.pos}
        /\ (t.start = r.pos + 1 => t.start = r.start \/ t.pos = r.pos + 1)
    BY <2>1 DEF IsTurn
  <2>6. t.start <= t.pos /\ t.end <= t.pos
    BY <2>4, <2>5
  <2>7. t.state = "kMajorDigit" => t.major \in 0..9
    <3> SUFFICES ASSUME t.state = "kMajorDigit" PROVE t.major \in 0..9
      OBVIOUS
    <3>1. n \notin Errors /\ s = "kFirstMajorDigit" /\ IsDigit(c)
      BY <2>3, <2>5 DEF Errors
    <3>2. t.major = c - 48
      BY <2>1, <3>1 DEF IsTurn
    <3> QED
      BY <3>1, <3>2 DEF IsDigit
  <2>10. t.state \in Begun => t.start >= 1
    <3> SUFFICES ASSUME t.state \in Begun PROVE t.start >= 1
      OBVIOUS
    <3>1. n \in Begun /\ n \notin Errors
      BY <2>5 DEF Begun, Errors
    <3>2. t.start = IF n = "kAfterSlashInUrl" /\ s \in {"kSpacesBeforeUrl", "kHost", "kPort"}
                    THEN r.pos + 1 ELSE r.start
      BY <2>1, <3>1 DEF IsTurn
    <3> QED
      BY <2>4, <2>8, <2>9, <3>1, <3>2
  <2> QED
    BY <2>5, <2>6, <2>7, <2>10 DEF Lines, t
<1> QED
  BY <1>1, <1>2

\* The loop over the characters at the positions ix.
Loop(ix, text, base) == FoldLeft(LAMBDA q, i : Turn(q, text[i], SubSeq(text, 1, i - 1)), base, ix)
LoopTurn(q, i, text) == Turn(q, text[i], SubSeq(text, 1, i - 1))

\* A turn at any position of a text takes members to members.
LEMMA LoopTurnType ==
  ASSUME NEW text \in Seq(Chars), NEW q \in Lines, NEW i \in 1..Len(text)
  PROVE  LoopTurn(q, i, text) \in Lines
<1>1. text[i] \in Chars
  BY ElementOfSeq
<1> QED
  BY <1>1, TurnType DEF LoopTurn

\* Function h is the table of the fold Loop().
LoopOf(h, ix, text, base) ==
  h = [d \in SUBSET DOMAIN ix |->
         IF d = {} THEN base ELSE LoopTurn(h[d \ {Max(d)}], ix[Max(d)], text)]

\* Loop() is a fold.
LEMMA LoopTurns ==
  ASSUME NEW text \in Seq(Chars), NEW base \in Lines, NEW ix \in Seq(1..Len(text)), NEW step,
         step = [p \in Lines \X (1..Len(text)) |-> LoopTurn(p[1], p[2], text)]
  PROVE  /\ base \in Lines /\ step \in [Lines \X (1..Len(text)) -> Lines]
         /\ \E h : AreTurns(h, base, step, ix, Lines) /\ Loop(ix, text, base) = h[1..Len(ix)]
<1>1. /\ step \in [Lines \X (1..Len(text)) -> Lines]
      /\ \A a \in Lines : \A x \in 1..Len(text) : step[<<a, x>>] = LoopTurn(a, x, text)
  BY LoopTurnType
<1>2. base \in Lines
  OBVIOUS
<1>3. DOMAIN ix = 1..Len(ix) /\ Len(ix) \in Nat /\ \A i \in 1..Len(ix) : ix[i] \in 1..Len(text)
  OBVIOUS
<1>4. PICK h \in [SUBSET (1..Len(ix)) -> Lines] : IsFoldTable(h, base, step, ix)
  BY <1>1, <1>2, FoldTable
<1>5. ASSUME NEW d \in SUBSET DOMAIN ix
      PROVE  h[d] = IF d = {} THEN base ELSE LoopTurn(h[d \ {Max(d)}], ix[Max(d)], text)
  <2>1. CASE d = {}
    BY <1>3, <1>4, <2>1 DEF IsFoldTable
  <2>2. CASE d # {}
    <3>1. PICK m \in d : Max(d) = m
      BY <1>3, <2>2, GreatestNumber
    <3>2. h[d \ {Max(d)}] \in Lines /\ ix[Max(d)] \in 1..Len(text)
      BY <1>3, <3>1
    <3> QED
      BY <1>1, <1>3, <1>4, <2>2, <3>2 DEF IsFoldTable
  <2> QED
    BY <2>1, <2>2
<1>6. LoopOf(h, ix, text, base)
  BY <1>3, <1>5 DEF LoopOf
<1>7. PICK t : t = CHOOSE g : LoopOf(g, ix, text, base)
  OBVIOUS
<1>8. LoopOf(t, ix, text, base)
  BY <1>6, <1>7
<1>9. Loop(ix, text, base) = t[1..Len(ix)]
  <2>1. Loop(ix, text, base) = (CHOOSE g : LoopOf(g, ix, text, base))[DOMAIN ix]
    BY Zenon DEF Loop, LoopTurn, FoldLeft, MapThenFoldSet, LoopOf
  <2> QED
    BY <1>3, <1>7, <2>1
<1>10. AreTurns(t, base, step, ix, Lines)
  <2>1. \A d \in SUBSET DOMAIN ix :
          t[d] = IF d = {} THEN base ELSE LoopTurn(t[d \ {Max(d)}], ix[Max(d)], text)
    BY <1>8 DEF LoopOf
  <2>2. \A k \in 1..Len(ix) : t[1..k] = LoopTurn(t[1..(k - 1)], ix[k], text)
    BY <1>3, <2>1, Segments1
  <2>3. t[1..0] = base
    <3>1. 1..0 = {} /\ {} \in SUBSET DOMAIN ix
      OBVIOUS
    <3> QED
      BY <2>1, <3>1, Zenon
  <2> QED
    BY <1>1, <1>3, <2>2, <2>3 DEF AreTurns
<1> QED
  BY <1>1, <1>2, <1>9, <1>10

\* The members after every turn of the loop over a text, from those that Parse() finds.
AreMembers(R, r, text) ==
  /\ R[0] = [r EXCEPT !.state = "kStart"]
  /\ \A m \in 1..(Len(text) - r.pos) : R[m] = Turn(R[m - 1], text[r.pos + m], SubSeq(text, 1, (r.pos + m) - 1))
  /\ \A m \in 0..(Len(text) - r.pos) : R[m] \in Lines /\ R[m].pos <= r.pos + m

\* What ParseRequestLine() returns is where the last turn has come to.
LEMMA ParseTurns ==
  ASSUME NEW text \in Seq(Chars), NEW r \in Lines, r.pos <= Len(text)
  PROVE  \E R : AreMembers(R, r, text) /\ R[Len(text) - r.pos] = ParseRequestLine(r, "kStart", text)
<1> DEFINE n == Len(text) - r.pos
           ix == [k \in 1..n |-> r.pos + k]
           base == [r EXCEPT !.state = "kStart"]
           step == [p \in Lines \X (1..Len(text)) |-> LoopTurn(p[1], p[2], text)]
<1>1. r \in Members /\ r.pos \in Nat /\ Len(text) \in Nat /\ n \in Nat
  <2>1. r \in Members /\ r.pos \in Nat
    BY DEF Lines, Members
  <2> QED
    BY <2>1
<1>2. ix \in Seq(1..Len(text)) /\ Len(ix) = n /\ \A k \in 1..n : ix[k] = r.pos + k
  <2>1. \A k \in 1..n : r.pos + k \in 1..Len(text)
    BY <1>1
  <2> QED
    BY <1>1, <2>1
<1>3. base \in Lines /\ base.pos = r.pos
  <2>1. base \in Members /\ base.state = "kStart" /\ base.pos = r.pos /\ base.start = r.start
        /\ base.end = r.end
    BY <1>1 DEF Members, States
  <2>2. r.start <= r.pos /\ r.end <= r.pos
    BY DEF Lines
  <2> HIDE DEF base
  <2> QED
    BY <2>1, <2>2 DEF Lines, Begun
<1>4. ParseRequestLine(r, "kStart", text) = Loop(ix, text, base)
  BY DEF ParseRequestLine, Loop
<1>5. base \in Lines /\ step \in [Lines \X (1..Len(text)) -> Lines]
      /\ \E h : AreTurns(h, base, step, ix, Lines) /\ Loop(ix, text, base) = h[1..Len(ix)]
  <2> HIDE DEF ix, base, n
  <2> QED
    BY <1>2, <1>3, LoopTurns, ZenonT(60)
<1>6. PICK h : AreTurns(h, base, step, ix, Lines) /\ Loop(ix, text, base) = h[1..Len(ix)]
  BY <1>5
<1>7. \A a \in Lines : \A i \in 1..Len(text) : step[<<a, i>>] = LoopTurn(a, i, text)
  OBVIOUS
<1> HIDE DEF n, ix, base, step
<1> DEFINE R == [m \in 0..n |-> h[1..m]]
           P == {m \in 0..n : R[m] \in Lines /\ R[m].pos <= r.pos + m}
<1>8. h[1..0] = base /\ Len(ix) = n
      /\ \A k \in 1..n : h[1..(k - 1)] \in Lines => h[1..k] = step[<<h[1..(k - 1)], ix[k]>>]
  BY <1>2, <1>6 DEF AreTurns
<1>9. 0 \in P /\ R[0] = base
  BY <1>1, <1>3, <1>8
<1>10. ASSUME NEW k \in 1..n, R[k - 1] \in Lines
       PROVE  /\ R[k] = Turn(R[k - 1], text[r.pos + k], SubSeq(text, 1, (r.pos + k) - 1))
              /\ R[k] \in Lines /\ R[k].pos \in {R[k - 1].pos, R[k - 1].pos + 1}
  <2>1. k - 1 \in 0..n /\ k \in 0..n
    BY <1>1
  <2>2. R[k] = h[1..k] /\ R[k - 1] = h[1..(k - 1)]
    BY <2>1
  <2>3. ix[k] = r.pos + k /\ r.pos + k \in 1..Len(text)
    BY <1>1, <1>2 DEF n
  <2> HIDE DEF R, P
  <2>4. R[k] = step[<<R[k - 1], r.pos + k>>]
    BY <1>8, <1>10, <2>2, <2>3
  <2>5. R[k] = LoopTurn(R[k - 1], r.pos + k, text)
    BY <1>7, <1>10, <2>3, <2>4
  <2>6. text[r.pos + k] \in Chars
    BY <2>3, ElementOfSeq
  <2>7. R[k] = Turn(R[k - 1], text[r.pos + k], SubSeq(text, 1, (r.pos + k) - 1))
    BY <2>5 DEF LoopTurn
  <2> QED
    BY <1>10, <2>6, <2>7, TurnType
<1>11. ASSUME NEW k \in 1..n, k - 1 \in P
       PROVE  k \in P
  <2>1. k \in 0..n /\ k - 1 \in Nat /\ R[k - 1] \in Lines /\ R[k - 1].pos <= r.pos + (k - 1)
    BY <1>1, <1>11
  <2> HIDE DEF R
  <2>2. R[k] \in Lines /\ R[k].pos \in {R[k - 1].pos, R[k - 1].pos + 1} /\ R[k - 1].pos \in Nat
    BY <1>10, <2>1 DEF Lines, Members
  <2>3. R[k].pos <= r.pos + k
    BY <1>1, <2>1, <2>2
  <2> QED
    BY <2>1, <2>2, <2>3
<1>12. 0..n \subseteq P
  <2> HIDE DEF P, R
  <2> QED
    BY <1>1, <1>9, <1>11, Induction
<1>13. R[n] = ParseRequestLine(r, "kStart", text)
  BY <1>1, <1>4, <1>6, <1>8
<1>14. AreMembers(R, r, text)
  <2>1. \A m \in 0..n : R[m] \in Lines /\ R[m].pos <= r.pos + m
    BY <1>12
  <2>2. \A m \in 1..n : m - 1 \in 0..n
    BY <1>1
  <2> HIDE DEF R, P
  <2>3. \A m \in 1..n : R[m] = Turn(R[m - 1], text[r.pos + m], SubSeq(text, 1, (r.pos + m) - 1))
    BY <1>10, <2>1, <2>2
  <2> QED
    BY <1>9, <2>1, <2>3 DEF AreMembers, n, base
<1> QED
  BY <1>13, <1>14 DEF n

\* Every call of Parse() leaves members behind, and goes no further than the text.
LEMMA ParsedIs ==
  ASSUME NEW text \in Seq(Chars), NEW r \in Lines, r.pos <= Len(text)
  PROVE  /\ ParseRequestLine(r, "kStart", text) \in Lines
         /\ ParseRequestLine(r, "kStart", text).pos <= Len(text)
<1> DEFINE n == Len(text) - r.pos
<1>1. n \in Nat /\ r.pos + n = Len(text)
  <2>1. r.pos \in Nat
    BY DEF Lines, Members
  <2> QED
    BY <2>1
<1>2. PICK R : AreMembers(R, r, text) /\ R[n] = ParseRequestLine(r, "kStart", text)
  BY ParseTurns
<1>3. R[n] \in Lines /\ R[n].pos <= r.pos + n
  <2>1. \A m \in 0..n : R[m] \in Lines /\ R[m].pos <= r.pos + m
    BY <1>2 DEF AreMembers
  <2> HIDE DEF n
  <2> QED
    BY <1>1, <2>1
<1> QED
  BY <1>1, <1>2, <1>3

\* The members of the parser, and what Parse() may have returned.
Typed == /\ parsing \in BOOLEAN
         /\ line \in Lines /\ line.pos <= Len(Text)
         /\ url \in Seq(Chars)
         /\ length \in Int
         /\ result \in {"none", "kShort", "kBad", "kComplete"}

\* What has arrived of the request line of an input: a characters, or all of it.
Sent(i, a) == SubSeq(i.line, 1, IF a < Len(i.line) THEN a ELSE Len(i.line))

\* It is a string, as long as that.
LEMMA SentIs ==
  ASSUME NEW i \in Inputs, NEW a \in Nat
  PROVE  /\ Sent(i, a) \in Seq(Chars)
         /\ Len(Sent(i, a)) = IF a < Len(i.line) THEN a ELSE Len(i.line)
         /\ Len(i.line) \in Nat
<1> DEFINE n == IF a < Len(i.line) THEN a ELSE Len(i.line)
<1>1. i.line \in Seq(Chars)
  BY InputsAssumption DEF Chars
<1>2. Len(i.line) \in Nat
  BY <1>1
<1>3. n \in 0..Len(i.line)
  BY <1>2
<1>4. Sent(i, a) = SubSeq(i.line, 1, n)
  BY DEF Sent
<1> HIDE DEF n
<1>5. Sent(i, a) \in Seq(Chars) /\ Len(Sent(i, a)) = n
  BY <1>1, <1>3, <1>4
<1> QED
  BY <1>2, <1>5 DEF n

\* A message only adds to the text.
LEMMA OnMessageTyped ==
  ASSUME Fields, Typed, OnMessage
  PROVE  Typed'
<1>1. parsing' = TRUE /\ UNCHANGED <<input, line, url, length, result>>
  BY DEF OnMessage
<1>2. arrived \in Nat /\ arrived' \in Nat /\ arrived' > arrived
  BY Arrives
<1>3. line.pos <= Len(Text')
  <2> DEFINE l == Len(input.line)
             m == Len(Text)
             n == Len(Text')
  <2>1. input \in Inputs /\ input' = input
    BY <1>1 DEF Fields
  <2>2. Text = Sent(input, arrived) /\ Text' = Sent(input, arrived')
    BY <2>1 DEF Text, Sent
  <2>3. /\ l \in Nat /\ m = IF arrived < l THEN arrived ELSE l
        /\ n = IF arrived' < l THEN arrived' ELSE l
    BY <1>2, <2>1, <2>2, SentIs
  <2>4. line.pos \in Nat /\ line.pos <= m
    BY DEF Typed, Lines, Members
  <2> HIDE DEF l, m, n
  <2>5. line.pos <= n
    BY <1>2, <2>3, <2>4
  <2> QED
    BY <2>5 DEF n
<1> QED
  BY <1>1, <1>3 DEF Typed

\* The request line leaves what it stored, and the URL as it is decoded.
LEMMA RequestLineTyped ==
  ASSUME Fields, Typed, RequestLineOk \/ RequestLineShort \/ RequestLineBad
  PROVE  Typed'
<1> DEFINE r == Parsed
           text == SubSeq(Text, r.start, r.end)
<1>1. input \in Inputs /\ arrived \in Nat
  BY InputIs DEF Fields, Total
<1>2. Text \in Seq(Chars) /\ Text' = Text
  <2>1. Text = Sent(input, arrived)
    BY DEF Text, Sent
  <2>2. UNCHANGED <<input, arrived>>
    BY DEF RequestLineOk, RequestLineShort, RequestLineBad
  <2> QED
    BY <1>1, <2>1, <2>2, SentIs DEF Text
<1>3. r \in Lines /\ r.pos <= Len(Text)
  BY <1>2, ParsedIs DEF Parsed, StartState, Typed
<1>4. /\ r.start \in Nat /\ r.end \in Nat /\ r.pos \in Nat /\ r.end <= r.pos /\ Len(Text) \in Nat
      /\ r.static \in BOOLEAN /\ r \in Members
      /\ r.state = "kDone" => r.start >= 1
  BY <1>2, <1>3 DEF Lines, Members, Begun
<1>5. CASE RequestLineShort \/ RequestLineBad
  <2>1. line' = r /\ parsing' = FALSE /\ result' \in {"kShort", "kBad"} /\ UNCHANGED <<url, length>>
    BY <1>5 DEF RequestLineShort, RequestLineBad, Return
  <2> HIDE DEF r
  <2> QED
    BY <1>2, <1>3, <2>1 DEF Typed
<1>6. CASE RequestLineOk
  <2> DEFINE u == Run(text)
  <2>1. /\ r.state = "kDone" /\ UNCHANGED <<parsing, length, result>>
        /\ line' = IF r.complex THEN [r EXCEPT !.static = @ /\ ~u.question] ELSE r
        /\ url' = IF r.complex THEN u.url ELSE text
    BY <1>6 DEF RequestLineOk
  <2> HIDE DEF r
  <2>2. text \in Seq(Chars)
    <3>1. r.start >= 1 /\ r.end <= Len(Text) /\ r.start \in Nat /\ r.end \in Nat
      BY <1>3, <1>4, <2>1
    <3> QED
      BY <1>2, <3>1, SubSeqProperties
  <2>3. u.url \in Seq(Chars)
    BY <2>2, RunIs DEF Machines
  <2>4. line' \in Lines /\ line'.pos = r.pos
    <3> DEFINE b == r.static /\ ~u.question
               t == [r EXCEPT !.static = b]
    <3>1. b \in BOOLEAN
      BY <1>4
    <3> HIDE DEF b, u
    <3>2. /\ t \in Members /\ t.state = r.state /\ t.pos = r.pos /\ t.start = r.start
          /\ t.end = r.end /\ t.major = r.major
      BY <1>4, <3>1 DEF Members
    <3>3. line' = IF r.complex THEN t ELSE r
      BY <2>1 DEF b
    <3> HIDE DEF t
    <3>4. t \in Lines
      BY <1>3, <3>2 DEF Lines
    <3> QED
      BY <1>3, <3>2, <3>3, <3>4
  <2> HIDE DEF text, u
  <2>5. url' \in Seq(Chars)
    BY <2>1, <2>2, <2>3
  <2>6. line'.pos <= Len(Text)
    BY <1>3, <2>4
  <2> QED
    BY <1>2, <2>1, <2>4, <2>5, <2>6 DEF Typed
<1> QED
  BY <1>5, <1>6

\* A header line sets the length at most.
LEMMA HeaderFieldTyped ==
  ASSUME Fields, Typed, HeaderField
  PROVE  Typed'
<1> DEFINE unit == Head(Waiting)
<1>1. unit \in Range(input.fields) /\ unit.value \in Int
  <2>1. at + 1 \in 1..Len(input.fields) /\ unit = input.fields[at + 1]
    BY FirstWaiting DEF HeaderField
  <2>2. unit \in Range(input.fields)
    BY <2>1, InputIs
  <2>3. IsUnit(unit)
    BY <2>2, InputsAssumption DEF Fields
  <2> QED
    BY <2>2, <2>3 DEF IsUnit
<1>2. length' \in {length, unit.value, 0} /\ UNCHANGED <<input, arrived, parsing, line, url, result>>
  BY DEF HeaderField
<1>3. length' \in Int
  BY <1>1, <1>2 DEF Typed
<1>4. Text' = Text
  BY <1>2 DEF Text
<1> QED
  BY <1>2, <1>3, <1>4 DEF Typed

\* The members have their types in every state.
LEMMA TypedHolds == Spec => []Typed
<1>1. Init => Typed
  <2> SUFFICES ASSUME Init PROVE Typed
    OBVIOUS
  <2>1. line = Line0 /\ parsing = FALSE /\ url = <<>> /\ length = 0 /\ result = "none"
        /\ input \in Inputs /\ arrived = 0
    BY DEF Init
  <2>2. Line0 \in Members /\ Line0.state = "kStart" /\ Line0.pos = 0 /\ Line0.start = 0
        /\ Line0.end = 0
    BY DEF Line0, Members, States
  <2>3. Line0 \in Lines
    BY <2>2 DEF Lines, Begun
  <2>4. Len(Text) \in Nat
    <3>1. Text = Sent(input, arrived)
      BY DEF Text, Sent
    <3> QED
      BY <2>1, <3>1, SentIs
  <2>5. line \in Lines /\ line.pos <= Len(Text)
    BY <2>1, <2>2, <2>3, <2>4
  <2>6. url \in Seq(Chars)
    BY <2>1
  <2>7. length \in Int /\ result \in {"none", "kShort", "kBad", "kComplete"}
    BY <2>1
  <2>8. parsing \in BOOLEAN
    BY <2>1, Zenon
  <2> QED
    BY <2>5, <2>6, <2>7, <2>8 DEF Typed
<1>2. Fields /\ Typed /\ [Next]_vars => Typed'
  <2> SUFFICES ASSUME Fields, Typed, [Next]_vars PROVE Typed'
    OBVIOUS
  <2>1. CASE OnMessage
    BY <2>1, OnMessageTyped
  <2>2. CASE RequestLineOk \/ RequestLineShort \/ RequestLineBad
    BY <2>2, RequestLineTyped
  <2>3. CASE HeaderField
    BY <2>3, HeaderFieldTyped
  <2>4. CASE HeaderBad \/ HeaderShort \/ HeaderEnd \/ Body \/ Complete \/ UNCHANGED vars
    <3>1. /\ UNCHANGED <<input, arrived, line, url, length>>
          /\ parsing' \in {parsing, FALSE} /\ result' \in {result, "kBad", "kShort", "kComplete"}
      BY <2>4 DEF HeaderBad, HeaderShort, HeaderEnd, Body, Complete, Return, vars
    <3>2. Text' = Text
      BY <3>1 DEF Text
    <3> QED
      BY <3>1, <3>2 DEF Typed
  <2> QED
    BY <2>1, <2>2, <2>3, <2>4 DEF Next
<1> QED
  BY <1>1, <1>2, FieldsHold, PTL DEF Spec

\* Positions lie within what has arrived, a major version has two digits at most, the
\* URL is made of characters and every member has its type, whatever the client sends
\* and however it is cut.
THEOREM TypeCorrect == Spec => []TypeOK
<1>1. Fields /\ Typed => TypeOK
  <2> SUFFICES ASSUME Fields, Typed PROVE TypeOK
    OBVIOUS
  <2>1. /\ line.pos \in Nat /\ line.start \in Nat /\ line.end \in Nat
        /\ line.start <= line.pos /\ line.end <= line.pos /\ line.pos <= Len(Text)
        /\ line.method \in Methods \cup {<<>>} /\ line.static \in BOOLEAN
        /\ line.complex \in BOOLEAN /\ line.major \in 0..99 /\ line.minor \in Int
    BY DEF Typed, Lines, Members
  <2>2. Len(Text) \in Nat
    <3>1. Text = Sent(input, arrived) /\ input \in Inputs /\ arrived \in Nat
      BY InputIs DEF Text, Sent, Fields, Total
    <3> QED
      BY <3>1, SentIs
  <2>3. line.pos \in 0..Len(Text) /\ line.start \in 0..Len(Text) /\ line.end \in 0..Len(Text)
    BY <2>1, <2>2
  <2>4. \A c \in Range(url) : c \in 0..255
    <3>1. url \in Seq(Chars)
      BY DEF Typed
    <3> SUFFICES ASSUME NEW i \in DOMAIN url PROVE url[i] \in 0..255
      BY DEF Range
    <3>2. i \in 1..Len(url)
      BY <3>1
    <3>3. url[i] \in Chars
      BY <3>1, <3>2, ElementOfSeq
    <3> QED
      BY <3>3 DEF Chars
  <2>5. /\ input.cuts \subseteq 1..Total /\ arrived \in 0..Total /\ at \in 0..Len(input.fields)
        /\ phase \in {"kRequestLine", "kHeader", "kBody", "kComplete"}
    BY InputIs DEF Fields
  <2>6. parsing \in BOOLEAN /\ length \in Int /\ result \in {"none", "kShort", "kBad", "kComplete"}
    BY DEF Typed
  <2> QED
    BY <2>1, <2>3, <2>4, <2>5, <2>6 DEF TypeOK
<1> QED
  BY <1>1, FieldsHold, TypedHolds, PTL
=============================================================================
