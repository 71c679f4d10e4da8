-------------------------- MODULE HttpParserProofs --------------------------
(***************************************************************************)
(* Proofs about HttpParser for all streams: its types, that what it        *)
(* accepts is one whole request, that it accepts every whole request, and  *)
(* that every turn of its loop but one gets it on.                         *)
(*                                                                         *)
(* The argument follows what a call has consumed.  In every phase it is    *)
(* exactly so much of a request, and the members of the request are read   *)
(* off it; a whole request has one head only, so that the parser and the   *)
(* definition of a request agree on where the body starts.                 *)
(***************************************************************************)
EXTENDS HttpParser, SequenceTheorems, WellFoundedInduction, TLAPS

TextUnits == {"line", "field", "text"}
LineUnits == {u \in Units : u.unit = "line"}
FieldUnits == {u \in Units : u.unit = "field"}

HttpRequests ==
  [method : {"none"} \cup {u.method : u \in LineUnits}, is_static : BOOLEAN,
   version : {"none"} \cup {u.version : u \in LineUnits},
   Connection : SUBSET {u.value : u \in FieldUnits},
   ContentLength : SUBSET (Nat \cup {NoLength}),
   body : Seq(Units), is_keep_alive : BOOLEAN]

Types == TypeOK /\ request \in HttpRequests

\* What has arrived and what is still to come is the end of a stream.
Whole == TextsAreLines(buffer \o wire)

\* The lines before the blank line: a header line, then fields.
IsOpenHead(u) ==
  /\ Len(u) >= 2 /\ Len(u) % 2 = 0
  /\ IsHeaderLine(<<u[1]>>)
  /\ \A i \in 2..Len(u) : IF i % 2 = 0 THEN u[i] = CRLF ELSE u[i].unit = "field"

\* What the parser keeps of the lines it has consumed.
Tells(u) == /\ request.version = u[1].version
            /\ request.is_static <=> u[1].method # "POST" /\ u[1].url = "page"
            /\ request.Connection = FirstValue(u, "Connection")
            /\ request.ContentLength = FirstValue(u, "Content-Length")

\* What a call has consumed in each phase.
Progress ==
  /\ parse_phase_ = "kHeaderLine" => taken = <<>> /\ request = NoRequest
  /\ parse_phase_ = "kHeaderFields" => IsOpenHead(taken) /\ Tells(taken)
  /\ parse_phase_ = "kBody" => IsHead(taken) /\ Tells(taken)
  /\ parse_phase_ # "kFinished" => request.body = <<>>
  /\ ret = "kGood" /\ ~parsing <=> parse_phase_ = "kFinished"

\* A body is waited for only if a field says how long it is.
LengthIsTold ==
  parse_phase_ # "kFinished" /\ content_length_ # NoLength
    => parse_phase_ = "kBody" /\ content_length_ \in request.ContentLength

Inductive == /\ Types /\ Whole /\ Progress /\ LengthIsTold
             /\ GoodIsWholeRequest /\ WholeRequestIsAccepted

-----------------------------------------------------------------------------
(* Sequences of units                                                      *)

\* Even and odd numbers alternate.
LEMMA Parity ==
  ASSUME NEW m \in Nat, m % 2 = 0
  PROVE  /\ (m + 1) % 2 = 1 /\ (m + 2) % 2 = 0
         /\ \A k \in Nat : k % 2 = 1 /\ k > m /\ k # m + 1 => k >= m + 3
OBVIOUS

\* A set of numbers that is not empty has a least one.
LEMMA LeastNumber ==
  ASSUME NEW S \in SUBSET Nat, S # {}
  PROVE  \E m \in S : \A n \in S : m <= n
<1>1. PICK m \in S : \A n \in S : ~(<<n, m>> \in OpToRel(<, Nat))
  BY NatLessThanWellFounded, WFMin
<1>2. \A n \in S : ~(n < m)
  BY <1>1 DEF OpToRel
<1> QED
  BY <1>2

\* The streams are sequences of units.
LEMMA StreamsAreUnits ==
  ASSUME NEW s \in Streams
  PROVE  /\ s \in Seq(Units) /\ TextsAreLines(s)
         /\ \A u \in Units : u.unit = "field" /\ u.name = "Content-Length" =>
                             u.value \in Nat \cup {NoLength}
<1>1. s \in Seq(ToSet(s)) /\ TextsAreLines(s)
  BY StreamsAssumption
<1>2. ToSet(s) \subseteq Units
  BY DEF Units
<1>3. s \in Seq(Units)
  BY <1>1, <1>2, SeqMonotonic
<1> QED
  BY <1>1, <1>3, StreamsAssumption DEF Units

\* The two parts of a sequence make up the sequence.
LEMMA TwoParts ==
  ASSUME NEW s \in Seq(Units), NEW n \in 0..Len(s)
  PROVE  /\ SubSeq(s, 1, n) \in Seq(Units) /\ SubSeq(s, n + 1, Len(s)) \in Seq(Units)
         /\ SubSeq(s, 1, n) \o SubSeq(s, n + 1, Len(s)) = s
<1>1. Len(s) \in Nat
  OBVIOUS
<1>2. 1 \in 1..(Len(s) + 1) /\ n \in (1 - 1)..Len(s) /\ Len(s) \in n..Len(s)
  BY <1>1
<1>3. SubSeq(s, 1, n) \o SubSeq(s, n + 1, Len(s)) = SubSeq(s, 1, Len(s))
  BY <1>2, ConcatAdjacentSubSeq
<1>4. SubSeq(s, 1, n) \in Seq(Units) /\ SubSeq(s, n + 1, Len(s)) \in Seq(Units)
  BY <1>1, SubSeqProperties
<1> QED
  BY <1>3, <1>4, SubSeqFull

\* Concatenation is associative.
LEMMA Regroup ==
  ASSUME NEW s \in Seq(Units), NEW t \in Seq(Units), NEW u \in Seq(Units)
  PROVE  (s \o t) \o u = s \o (t \o u)
BY ConcatAssociative

\* Line is what precedes the first line end of the buffer.
LEMMA LineIsFirst ==
  ASSUME buffer \in Seq(Units), HasLine
  PROVE  \E i \in 1..Len(buffer) :
           /\ buffer[i] = CRLF /\ \A j \in 1..(i - 1) : buffer[j] # CRLF
           /\ Line = SubSeq(buffer, 1, i - 1)
           /\ Line \in Seq(Units) /\ Len(Line) = i - 1
           /\ \A j \in 1..(i - 1) : Line[j] = buffer[j]
<1> DEFINE I == {i \in 1..Len(buffer) : buffer[i] = CRLF}
<1>1. I # {} /\ I \in SUBSET Nat
  BY DEF HasLine, Contains
<1>2. PICK i \in I : \A j \in I : i <= j
  BY <1>1, LeastNumber
<1>3. Min(I) = i
  BY <1>2 DEF Min
<1>4. SelectInSeq(buffer, LAMBDA u : u = CRLF) = i
  BY <1>1, <1>3 DEF SelectInSeq
<1>5. Line = SubSeq(buffer, 1, i - 1)
  BY <1>4 DEF Line
<1>6. /\ SubSeq(buffer, 1, i - 1) \in Seq(Units) /\ Len(SubSeq(buffer, 1, i - 1)) = i - 1
      /\ \A j \in 1..(i - 1) : SubSeq(buffer, 1, i - 1)[j] = buffer[j]
  BY <1>2, SubSeqProperties
<1>7. \A j \in 1..(i - 1) : buffer[j] # CRLF
  BY <1>2
<1> QED
  BY <1>2, <1>5, <1>6, <1>7

\* A field of a name is there or not; if it is, there is one first.
LEMMA FirstValueIs ==
  ASSUME NEW u \in Seq(Units), NEW name
  PROVE  \/ /\ FirstValue(u, name) = {}
            /\ \A i \in 1..Len(u) : ~IsNamed(u[i], name)
         \/ \E i \in 1..Len(u) : /\ IsFirst(u, i, name)
                                 /\ FirstValue(u, name) = {u[i].value}
<1> DEFINE I == {i \in 1..Len(u) : IsNamed(u[i], name)}
<1>1. CASE I = {}
  BY <1>1 DEF FirstValue, IsFirst
<1>2. CASE I # {}
  <2>1. PICK i \in I : \A j \in I : i <= j
    <3>1. I \in SUBSET Nat
      OBVIOUS
    <3> HIDE DEF I
    <3> QED
      BY <1>2, <3>1, LeastNumber
  <2>2. IsFirst(u, i, name)
    BY <2>1 DEF IsFirst
  <2>3. \A j \in 1..Len(u) : IsFirst(u, j, name) => j = i
    BY <2>1 DEF IsFirst
  <2> QED
    BY <2>1, <2>2, <2>3 DEF FirstValue
<1> QED
  BY <1>1, <1>2

\* The first field of a name in what follows counts if there was none before.
LEMMA FirstValueJoin ==
  ASSUME NEW u \in Seq(Units), NEW v \in Seq(Units), NEW name
  PROVE  FirstValue(u \o v, name) = IF FirstValue(u, name) # {} THEN FirstValue(u, name)
                                    ELSE FirstValue(v, name)
<1>1. /\ Len(u \o v) = Len(u) + Len(v) /\ Len(u) \in Nat /\ Len(v) \in Nat
      /\ \A i \in 1..Len(u) : (u \o v)[i] = u[i]
      /\ \A i \in 1..Len(v) : (u \o v)[Len(u) + i] = v[i]
  BY ConcatProperties
<1>2. CASE \E i \in 1..Len(u) : IsFirst(u, i, name) /\ FirstValue(u, name) = {u[i].value}
  <2>1. PICK i \in 1..Len(u) : IsFirst(u, i, name) /\ FirstValue(u, name) = {u[i].value}
    BY <1>2
  <2>2. i \in 1..Len(u \o v) /\ IsFirst(u \o v, i, name)
    BY <1>1, <2>1 DEF IsFirst
  <2>3. \A j \in 1..Len(u \o v) : IsFirst(u \o v, j, name) => j = i
    BY <1>1, <2>2 DEF IsFirst
  <2>4. FirstValue(u \o v, name) = {(u \o v)[i].value}
    BY <2>2, <2>3 DEF FirstValue
  <2> QED
    BY <1>1, <2>1, <2>4
<1>3. CASE FirstValue(u, name) = {} /\ \A i \in 1..Len(u) : ~IsNamed(u[i], name)
  <2>1. \A j \in 1..Len(v) : IsFirst(u \o v, Len(u) + j, name) <=> IsFirst(v, j, name)
    <3> SUFFICES ASSUME NEW j \in 1..Len(v)
                 PROVE  IsFirst(u \o v, Len(u) + j, name) <=> IsFirst(v, j, name)
      OBVIOUS
    <3>1. (u \o v)[Len(u) + j] = v[j]
      BY <1>1
    <3>2. ASSUME IsFirst(u \o v, Len(u) + j, name) PROVE IsFirst(v, j, name)
      <4>1. ASSUME NEW k \in 1..(j - 1) PROVE ~IsNamed(v[k], name)
        <5>1. Len(u) + k \in 1..(Len(u) + j - 1) /\ (u \o v)[Len(u) + k] = v[k]
          BY <1>1
        <5> QED
          BY <3>2, <5>1, SMTT(30) DEF IsFirst
      <4> QED
        BY <3>1, <3>2, <4>1 DEF IsFirst
    <3>3. ASSUME IsFirst(v, j, name) PROVE IsFirst(u \o v, Len(u) + j, name)
      <4>1. ASSUME NEW k \in 1..(Len(u) + j - 1) PROVE ~IsNamed((u \o v)[k], name)
        <5>1. CASE k <= Len(u)
          BY <1>1, <1>3, <5>1
        <5>2. CASE k > Len(u)
          <6>1. k - Len(u) \in 1..(j - 1) /\ (u \o v)[Len(u) + (k - Len(u))] = v[k - Len(u)]
            BY <1>1, <5>2
          <6>2. Len(u) + (k - Len(u)) = k
            BY <1>1
          <6> QED
            BY <3>3, <6>1, <6>2 DEF IsFirst
        <5> QED
          BY <1>1, <5>1, <5>2
      <4> QED
        BY <3>1, <3>3, <4>1 DEF IsFirst
    <3> QED
      BY <3>2, <3>3
  <2>2. \A i \in 1..Len(u \o v) : IsFirst(u \o v, i, name) => i > Len(u)
    BY <1>1, <1>3 DEF IsFirst
  <2>3. FirstValue(u \o v, name) \subseteq FirstValue(v, name)
    <3> SUFFICES ASSUME NEW i \in 1..Len(u \o v), IsFirst(u \o v, i, name)
                 PROVE  (u \o v)[i].value \in FirstValue(v, name)
      BY DEF FirstValue
    <3>1. i - Len(u) \in 1..Len(v) /\ Len(u) + (i - Len(u)) = i
      BY <1>1, <2>2
    <3>2. IsFirst(v, i - Len(u), name) /\ (u \o v)[i] = v[i - Len(u)]
      BY <1>1, <2>1, <3>1
    <3> QED
      BY <3>1, <3>2 DEF FirstValue
  <2>4. FirstValue(v, name) \subseteq FirstValue(u \o v, name)
    <3> SUFFICES ASSUME NEW j \in 1..Len(v), IsFirst(v, j, name)
                 PROVE  v[j].value \in FirstValue(u \o v, name)
      BY DEF FirstValue
    <3>1. /\ Len(u) + j \in 1..Len(u \o v) /\ IsFirst(u \o v, Len(u) + j, name)
          /\ (u \o v)[Len(u) + j] = v[j]
      BY <1>1, <2>1
    <3> QED
      BY <3>1 DEF FirstValue
  <2> QED
    BY <1>3, <2>3, <2>4
<1> QED
  BY <1>2, <1>3, FirstValueIs

\* Where two sequences have been joined they come apart.
LEMMA JoinedParts ==
  ASSUME NEW u \in Seq(Units), NEW v \in Seq(Units)
  PROVE  /\ u \o v \in Seq(Units) /\ Len(u \o v) = Len(u) + Len(v)
         /\ Len(u) \in Nat /\ Len(v) \in Nat
         /\ SubSeq(u \o v, 1, Len(u)) = u
         /\ SubSeq(u \o v, Len(u) + 1, Len(u) + Len(v)) = v
<1>1. /\ u \o v \in Seq(Units) /\ Len(u \o v) = Len(u) + Len(v)
      /\ Len(u) \in Nat /\ Len(v) \in Nat
      /\ \A i \in 1..Len(u) : (u \o v)[i] = u[i]
      /\ \A i \in 1..Len(v) : (u \o v)[Len(u) + i] = v[i]
  BY ConcatProperties
<1> DEFINE w == u \o v
<1> HIDE DEF w
<1>2. /\ w \in Seq(Units) /\ Len(w) = Len(u) + Len(v)
      /\ \A i \in 1..Len(u) : w[i] = u[i]
      /\ \A i \in 1..Len(v) : w[Len(u) + i] = v[i]
  BY <1>1 DEF w
<1>3. /\ SubSeq(w, 1, Len(u)) \in Seq(Units) /\ Len(SubSeq(w, 1, Len(u))) = Len(u)
      /\ \A i \in 1..Len(u) : SubSeq(w, 1, Len(u))[i] = u[i]
  BY <1>1, <1>2, SubSeqProperties
<1>4. SubSeq(w, 1, Len(u)) = u
  BY <1>3, SeqEqual
<1> DEFINE m == Len(u) + 1
<1> DEFINE n == Len(u) + Len(v)
<1>5. m \in Int /\ n \in Int /\ \A i \in m..n : w[i] \in Units
  BY <1>1, <1>2
<1>6. /\ SubSeq(w, m, n) \in Seq(Units)
      /\ Len(SubSeq(w, m, n)) = IF m <= n THEN n - m + 1 ELSE 0
      /\ \A i \in 1..(n - m + 1) : SubSeq(w, m, n)[i] = w[m + i - 1]
  BY <1>5, SubSeqProperties
<1>7. Len(SubSeq(w, m, n)) = Len(v)
  BY <1>1, <1>6
<1>8. ASSUME NEW i \in 1..Len(v) PROVE SubSeq(w, m, n)[i] = v[i]
  <2>1. i \in 1..(n - m + 1) /\ m + i - 1 = Len(u) + i
    BY <1>1
  <2> QED
    BY <1>2, <1>6, <2>1
<1>9. SubSeq(w, m, n) = v
  BY <1>6, <1>7, <1>8, SeqEqual
<1> QED
  BY <1>1, <1>4, <1>9 DEF w

\* The places of a head, in the sequence that it starts.
LEMMA HeadUnits ==
  ASSUME NEW u \in Seq(Units), NEW k \in 1..Len(u), IsHead(SubSeq(u, 1, k))
  PROVE  /\ k >= 3 /\ k % 2 = 1
         /\ IsHeaderLine(<<u[1]>>)
         /\ \A i \in 2..k : IF i % 2 = 0 \/ i = k THEN u[i] = CRLF ELSE u[i].unit = "field"
<1>1. /\ Len(SubSeq(u, 1, k)) = k
      /\ \A i \in 1..k : SubSeq(u, 1, k)[i] = u[i]
  BY SubSeqProperties
<1> HIDE DEF IsHeaderLine
<1>2. SubSeq(u, 1, k)[1] = u[1]
  BY <1>1
<1>3. k >= 3 /\ k % 2 = 1 /\ IsHeaderLine(<<u[1]>>)
  BY <1>1, <1>2 DEF IsHead
<1>4. \A i \in 2..k : IF i % 2 = 0 \/ i = k THEN SubSeq(u, 1, k)[i] = CRLF
                                            ELSE SubSeq(u, 1, k)[i].unit = "field"
  BY <1>1 DEF IsHead
<1> QED
  BY <1>1, <1>3, <1>4

\* A message has one head: its end is the first line end at an odd place.
LEMMA OneHead ==
  ASSUME NEW u \in Seq(Units), NEW j \in 1..Len(u), NEW k \in 1..Len(u),
         IsHead(SubSeq(u, 1, j)), IsHead(SubSeq(u, 1, k))
  PROVE  j = k
<1>1. ASSUME NEW m \in 1..Len(u), NEW n \in 1..Len(u), m < n,
             IsHead(SubSeq(u, 1, m)), IsHead(SubSeq(u, 1, n))
      PROVE  FALSE
  <2>1. /\ m >= 3 /\ m % 2 = 1
        /\ \A i \in 2..m : IF i % 2 = 0 \/ i = m THEN u[i] = CRLF ELSE u[i].unit = "field"
    BY <1>1, HeadUnits
  <2>2. \A i \in 2..n : IF i % 2 = 0 \/ i = n THEN u[i] = CRLF ELSE u[i].unit = "field"
    BY <1>1, HeadUnits
  <2>3. m \in 2..m /\ m \in 2..n /\ m # n /\ m % 2 # 0
    BY <1>1, <2>1
  <2>4. u[m] = CRLF /\ u[m].unit = "field"
    BY <2>1, <2>2, <2>3
  <2> QED
    BY <2>4 DEF CRLF
<1> QED
  BY <1>1

\* A request starts with its head.
LEMMA RequestHasHead ==
  ASSUME NEW u \in Seq(Units), NEW n \in 1..Len(u), IsRequest(SubSeq(u, 1, n))
  PROVE  \E k \in 1..n : IsHead(SubSeq(u, 1, k))
<1>1. SubSeq(u, 1, n) \in Seq(Units) /\ Len(SubSeq(u, 1, n)) = n
      /\ \A i \in 1..n : SubSeq(u, 1, n)[i] = u[i]
  BY SubSeqProperties
<1> DEFINE t == SubSeq(u, 1, n)
<1> HIDE DEF t
<1>2. /\ t \in Seq(Units) /\ Len(t) = n /\ \A i \in 1..n : t[i] = u[i]
      /\ IsRequest(t)
  BY <1>1 DEF t
<1>3. PICK k \in 1..n : IsHead(SubSeq(t, 1, k))
  BY <1>2 DEF IsRequest
<1>4. /\ SubSeq(t, 1, k) \in Seq(Units) /\ Len(SubSeq(t, 1, k)) = k
      /\ \A i \in 1..k : SubSeq(t, 1, k)[i] = t[i]
  BY <1>2, SubSeqProperties
<1>5. /\ SubSeq(u, 1, k) \in Seq(Units) /\ Len(SubSeq(u, 1, k)) = k
      /\ \A i \in 1..k : SubSeq(u, 1, k)[i] = u[i]
  BY SubSeqProperties
<1>6. SubSeq(t, 1, k) = SubSeq(u, 1, k)
  BY <1>2, <1>4, <1>5, SeqEqual
<1> QED
  BY <1>3, <1>6

-----------------------------------------------------------------------------
(* What a call sees of the buffer                                          *)

\* The units that are taken from the buffer, and those that stay.
LEMMA ConsumeType ==
  ASSUME Types, NEW n \in 0..Len(buffer), Consume(n)
  PROVE  /\ buffer' \in Seq(Units) /\ taken' \in Seq(Units)
         /\ Len(buffer') = Len(buffer) - n
         /\ SubSeq(buffer, 1, n) \in Seq(Units) /\ Len(SubSeq(buffer, 1, n)) = n
         /\ \A i \in 1..n : SubSeq(buffer, 1, n)[i] = buffer[i]
         /\ \A i \in 1..(Len(buffer) - n) : buffer'[i] = buffer[n + i]
         /\ taken' = taken \o SubSeq(buffer, 1, n)
         /\ taken' \o buffer' = taken \o buffer
<1>1. buffer \in Seq(Units) /\ taken \in Seq(Units) /\ Len(buffer) \in Nat
  BY DEF Types, TypeOK
<1>2. /\ buffer' = SubSeq(buffer, n + 1, Len(buffer))
      /\ taken' = taken \o SubSeq(buffer, 1, n)
  BY DEF Consume
<1>3. /\ SubSeq(buffer, 1, n) \in Seq(Units) /\ Len(SubSeq(buffer, 1, n)) = n
      /\ \A i \in 1..n : SubSeq(buffer, 1, n)[i] = buffer[i]
  BY <1>1, SubSeqProperties
<1>4. /\ buffer' \in Seq(Units) /\ Len(buffer') = Len(buffer) - n
      /\ \A i \in 1..(Len(buffer) - n) : buffer'[i] = buffer[n + i]
  <2>1. \A i \in (n + 1)..Len(buffer) : buffer[i] \in Units
    BY <1>1
  <2>2. /\ SubSeq(buffer, n + 1, Len(buffer)) \in Seq(Units)
        /\ Len(SubSeq(buffer, n + 1, Len(buffer)))
             = IF n + 1 <= Len(buffer) THEN Len(buffer) - (n + 1) + 1 ELSE 0
        /\ \A i \in 1..(Len(buffer) - (n + 1) + 1) :
             SubSeq(buffer, n + 1, Len(buffer))[i] = buffer[(n + 1) + i - 1]
    BY <1>1, <2>1, SubSeqProperties
  <2> QED
    BY <1>1, <1>2, <2>2
<1>5. taken' \in Seq(Units)
  BY <1>1, <1>2, <1>3, ConcatProperties
<1>6. taken' \o buffer' = taken \o buffer
  <2>1. /\ SubSeq(buffer, 1, n) \o buffer' = buffer
        /\ SubSeq(buffer, 1, n) \in Seq(Units) /\ buffer' \in Seq(Units)
    BY <1>1, <1>2, TwoParts
  <2> DEFINE piece == SubSeq(buffer, 1, n)
  <2>2. taken' = taken \o piece
    BY <1>2
  <2>3. piece \o buffer' = buffer /\ piece \in Seq(Units) /\ buffer' \in Seq(Units)
    BY <2>1
  <2> HIDE DEF piece
  <2>4. (taken \o piece) \o buffer' = taken \o (piece \o buffer')
    BY <1>1, <2>3, Regroup
  <2> QED
    BY <2>2, <2>3, <2>4
<1> QED
  BY <1>2, <1>3, <1>4, <1>5, <1>6

\* What is consumed leaves the end of a stream.
LEMMA ConsumeWhole ==
  ASSUME Types, Whole, NEW n \in 0..Len(buffer), Consume(n), UNCHANGED wire
  PROVE  Whole'
<1>1. /\ buffer \in Seq(Units) /\ wire \in Seq(Units) /\ buffer' \in Seq(Units)
      /\ Len(buffer') = Len(buffer) - n
      /\ \A i \in 1..(Len(buffer) - n) : buffer'[i] = buffer[n + i]
  BY ConsumeType DEF Types, TypeOK
<1> DEFINE s == buffer \o wire
<1> DEFINE t == buffer' \o wire
<1>2. /\ Len(s) = Len(buffer) + Len(wire) /\ Len(t) = Len(s) - n
      /\ Len(buffer) \in Nat /\ Len(wire) \in Nat
      /\ \A i \in 1..Len(t) : t[i] = s[n + i]
  <2>1. /\ Len(s) = Len(buffer) + Len(wire)
        /\ \A i \in 1..(Len(buffer) + Len(wire)) :
             s[i] = IF i <= Len(buffer) THEN buffer[i] ELSE wire[i - Len(buffer)]
    BY <1>1, ConcatProperties
  <2>2. /\ Len(t) = Len(buffer') + Len(wire)
        /\ \A i \in 1..(Len(buffer') + Len(wire)) :
             t[i] = IF i <= Len(buffer') THEN buffer'[i] ELSE wire[i - Len(buffer')]
    BY <1>1, ConcatProperties
  <2>3. Len(buffer) \in Nat /\ Len(wire) \in Nat
    BY <1>1
  <2> HIDE DEF s, t
  <2>4. ASSUME NEW i \in 1..Len(t) PROVE t[i] = s[n + i]
    <3>1. n \in Int /\ i \in Int /\ i >= 1 /\ Len(buffer') = Len(buffer) - n
      BY <1>1, <2>2, <2>3
    <3>2. i \in 1..(Len(buffer') + Len(wire)) /\ n + i \in 1..(Len(buffer) + Len(wire))
      BY <2>2, <2>3, <3>1
    <3>3. CASE i <= Len(buffer) - n
      <4>1. i <= Len(buffer') /\ n + i <= Len(buffer) /\ i \in 1..(Len(buffer) - n)
        BY <2>3, <3>1, <3>3
      <4> QED
        BY <1>1, <2>1, <2>2, <3>2, <4>1
    <3>4. CASE i > Len(buffer) - n
      <4>1. ~(i <= Len(buffer')) /\ ~(n + i <= Len(buffer))
        BY <2>3, <3>1, <3>4
      <4>2. t[i] = wire[i - Len(buffer')] /\ s[n + i] = wire[n + i - Len(buffer)]
        BY <2>1, <2>2, <3>2, <4>1
      <4>3. i - Len(buffer') = n + i - Len(buffer)
        BY <1>1, <2>3
      <4> QED
        BY <4>2, <4>3
    <3> QED
      BY <2>3, <3>3, <3>4
  <2> QED
    BY <1>1, <2>1, <2>2, <2>3, <2>4
<1>3. TextsAreLines(s)
  BY DEF Whole
<1> HIDE DEF s, t
<1>4. TextsAreLines(t)
  <2> SUFFICES ASSUME NEW i \in 1..(Len(t) - 1), t[i].unit \in TextUnits
               PROVE  t[i + 1] = CRLF
    BY DEF TextsAreLines, TextUnits
  <2>1. n + i \in 1..(Len(s) - 1) /\ t[i] = s[n + i] /\ t[i + 1] = s[(n + i) + 1]
    <3>1. n \in Nat /\ Len(s) \in Nat /\ Len(t) \in Nat /\ Len(t) = Len(s) - n
      BY <1>2
    <3>2. /\ i \in 1..Len(t) /\ i + 1 \in 1..Len(t) /\ n + i \in 1..(Len(s) - 1)
          /\ n + (i + 1) = (n + i) + 1
      BY <3>1
    <3>3. \A x \in 1..Len(t) : t[x] = s[n + x]
      BY <1>2
    <3>4. t[i] = s[n + i] /\ t[i + 1] = s[n + (i + 1)]
      BY <3>2, <3>3
    <3> QED
      BY <3>2, <3>4
  <2> QED
    BY <1>3, <2>1 DEF TextsAreLines, TextUnits
<1> QED
  BY <1>4 DEF s, t, Whole

\* A piece of the wire moves to the buffer: together they stay the same.
LEMMA ArrivalWhole ==
  ASSUME Types, Whole, OnMessage
  PROVE  /\ Whole' /\ wire' \in Seq(Units) /\ buffer' \in Seq(Units)
<1>1. wire \in Seq(Units) /\ buffer \in Seq(Units)
  BY DEF Types, TypeOK
<1>2. PICK n \in 1..Len(wire) : /\ buffer' = buffer \o SubSeq(wire, 1, n)
                                /\ wire' = SubSeq(wire, n + 1, Len(wire))
  BY DEF OnMessage
<1> DEFINE piece == SubSeq(wire, 1, n)
<1>3. piece \in Seq(Units) /\ wire' \in Seq(Units) /\ piece \o wire' = wire
  BY <1>1, <1>2, TwoParts
<1>4. buffer' = buffer \o piece
  BY <1>2
<1> HIDE DEF piece
<1>5. buffer' \o wire' = buffer \o wire
  BY <1>1, <1>3, <1>4, Regroup
<1> QED
  BY <1>1, <1>3, <1>4, <1>5, ConcatProperties DEF Whole

\* A line that starts with a text is that text.
LEMMA TextLine ==
  ASSUME Types, Whole, HasLine, Line # <<>>, Line[1].unit \in TextUnits
  PROVE  /\ Len(Line) = 1 /\ Line[1] = buffer[1]
         /\ Len(buffer) >= 2 /\ buffer[2] = CRLF /\ buffer[1] \in Units
<1>1. buffer \in Seq(Units) /\ wire \in Seq(Units) /\ Len(buffer) \in Nat /\ Len(wire) \in Nat
  BY DEF Types, TypeOK
<1>2. PICK i \in 1..Len(buffer) :
        /\ buffer[i] = CRLF /\ \A j \in 1..(i - 1) : buffer[j] # CRLF
        /\ Line \in Seq(Units) /\ Len(Line) = i - 1
        /\ \A j \in 1..(i - 1) : Line[j] = buffer[j]
  BY <1>1, LineIsFirst
<1>3. i >= 2 /\ Line[1] = buffer[1]
  BY <1>1, <1>2, EmptySeq
<1>4. buffer[2] = CRLF
  <2>1. /\ (buffer \o wire)[1] = buffer[1] /\ (buffer \o wire)[2] = buffer[2]
        /\ Len(buffer \o wire) = Len(buffer) + Len(wire)
    BY <1>1, <1>3, ConcatProperties
  <2>2. 1 \in 1..(Len(buffer \o wire) - 1)
    BY <1>1, <1>2, <1>3, <2>1
  <2> QED
    BY <1>3, <2>1, <2>2 DEF Whole, TextsAreLines, TextUnits
<1>5. i = 2
  BY <1>2, <1>3, <1>4
<1> QED
  BY <1>1, <1>2, <1>3, <1>4, <1>5

\* As long as the head of a whole request has not been consumed, its next line is there
\* and is good.
LEMMA NextLineIsGood ==
  ASSUME Types, Whole, Progress,
         NEW n \in 1..Len(taken \o buffer), IsRequest(SubSeq(taken \o buffer, 1, n))
  PROVE  /\ parse_phase_ \in {"kHeaderLine", "kHeaderFields"} => HasLine
         /\ parse_phase_ = "kHeaderLine" => IsHeaderLine(Line)
         /\ parse_phase_ = "kHeaderFields" => Line = <<>> \/ Line[1].unit = "field"
<1> DEFINE b == taken \o buffer
<1> DEFINE m == Len(taken)
<1>1. /\ taken \in Seq(Units) /\ buffer \in Seq(Units) /\ b \in Seq(Units)
      /\ m \in Nat /\ Len(buffer) \in Nat /\ Len(b) = m + Len(buffer)
      /\ \A i \in 1..m : b[i] = taken[i]
      /\ \A i \in 1..Len(buffer) : b[m + i] = buffer[i]
  BY ConcatProperties DEF Types, TypeOK
<1>2. PICK k \in 1..n : IsHead(SubSeq(b, 1, k))
  BY <1>1, RequestHasHead
<1>3. k \in 1..Len(b)
  BY <1>1
<1> HIDE DEF b
<1>4. /\ k >= 3 /\ k % 2 = 1 /\ IsHeaderLine(<<b[1]>>)
      /\ \A i \in 2..k : IF i % 2 = 0 \/ i = k THEN b[i] = CRLF ELSE b[i].unit = "field"
  BY <1>1, <1>2, <1>3, HeadUnits
<1>5. CASE parse_phase_ = "kHeaderLine"
  <2>1. m = 0 /\ b[0 + 1] = buffer[1] /\ b[0 + 2] = buffer[2] /\ Len(buffer) >= 2
    BY <1>1, <1>3, <1>4, <1>5 DEF Progress
  <2>2. b[1] = buffer[1] /\ buffer[2] = CRLF
    BY <1>4, <2>1
  <2>3. buffer[1].unit = "line" /\ IsHeaderLine(<<buffer[1]>>)
    BY <1>4, <2>2 DEF IsHeaderLine
  <2>4. HasLine
    BY <1>1, <2>1, <2>2 DEF HasLine, Contains
  <2>5. PICK i \in 1..Len(buffer) :
          /\ buffer[i] = CRLF /\ \A j \in 1..(i - 1) : buffer[j] # CRLF
          /\ Len(Line) = i - 1 /\ \A j \in 1..(i - 1) : Line[j] = buffer[j]
    BY <1>1, <2>4, LineIsFirst
  <2>6. i = 2
    BY <2>1, <2>2, <2>3, <2>5 DEF CRLF
  <2>7. Len(Line) = 1 /\ Line[1] = buffer[1]
    BY <2>5, <2>6
  <2>8. IsHeaderLine(Line)
    BY <2>3, <2>7 DEF IsHeaderLine
  <2> QED
    BY <1>5, <2>4, <2>8
<1>6. CASE parse_phase_ = "kHeaderFields"
  <2>1. /\ m >= 2 /\ m % 2 = 0
        /\ \A i \in 2..m : IF i % 2 = 0 THEN taken[i] = CRLF ELSE taken[i].unit = "field"
    BY <1>6 DEF Progress, IsOpenHead
  <2>2. k > m
    <3> SUFFICES ASSUME k <= m PROVE FALSE
      BY <1>1
    <3>1. b[k] = CRLF /\ b[k] = taken[k]
      BY <1>1, <1>4
    <3>2. taken[k].unit = "field"
      BY <1>1, <1>4, <2>1
    <3> QED
      BY <3>1, <3>2 DEF CRLF
  <2>3. 1 \in 1..Len(buffer) /\ b[m + 1] = buffer[1] /\ (m + 1) % 2 = 1 /\ m + 1 \in 2..k
    <3>1. (m + 1) % 2 = 1
      BY <1>1, <2>1, Parity
    <3>2. 1 \in 1..Len(buffer) /\ m + 1 \in 2..k
      BY <1>1, <1>3, <2>1, <2>2
    <3> QED
      BY <1>1, <3>1, <3>2
  <2>4. CASE k = m + 1
    <3>1. buffer[1] = CRLF
      BY <1>4, <2>3, <2>4
    <3>2. HasLine
      BY <2>3, <3>1 DEF HasLine, Contains
    <3>3. PICK i \in 1..Len(buffer) :
            /\ \A j \in 1..(i - 1) : buffer[j] # CRLF
            /\ Line \in Seq(Units) /\ Len(Line) = i - 1
      BY <1>1, <3>2, LineIsFirst
    <3>4. i = 1
      BY <2>3, <3>1, <3>3
    <3>5. Line = <<>>
      BY <3>3, <3>4, EmptySeq
    <3> QED
      BY <1>6, <3>2, <3>5
  <2>5. CASE k # m + 1
    <3>1. buffer[1].unit = "field"
      BY <1>4, <2>3, <2>5
    <3>2. m + 2 \in 2..k /\ (m + 2) % 2 = 0
      <4>1. m \in Nat /\ m % 2 = 0 /\ k \in Nat /\ k % 2 = 1 /\ k > m /\ k # m + 1
        BY <1>1, <1>3, <1>4, <2>1, <2>2, <2>5
      <4> HIDE DEF m
      <4>2. (m + 2) % 2 = 0 /\ k >= m + 3
        BY <4>1, Parity
      <4> QED
        BY <4>1, <4>2
    <3>3. 2 \in 1..Len(buffer)
      BY <1>1, <1>3, <3>2
    <3>4. buffer[2] = CRLF
      BY <1>1, <1>4, <3>2, <3>3
    <3>5. HasLine
      BY <3>3, <3>4 DEF HasLine, Contains
    <3>6. PICK i \in 1..Len(buffer) :
            /\ buffer[i] = CRLF
            /\ Len(Line) = i - 1 /\ \A j \in 1..(i - 1) : Line[j] = buffer[j]
      BY <1>1, <3>5, LineIsFirst
    <3>7. i # 1
      BY <3>1, <3>6 DEF CRLF
    <3>8. Line[1].unit = "field"
      BY <3>1, <3>6, <3>7
    <3> QED
      BY <1>6, <3>5, <3>8
  <2> QED
    BY <2>4, <2>5
<1> QED
  BY <1>5, <1>6

-----------------------------------------------------------------------------
(* One lemma per action                                                    *)

\* A new parser and a new request have consumed nothing.
LEMMA NewRequest == NoRequest \in HttpRequests
BY DEF NoRequest, HttpRequests, NoLength

\* A message starts a new call.
LEMMA OnMessageInductive ==
  ASSUME Inductive, OnMessage
  PROVE  Inductive'
<1>1. /\ parsing' = TRUE /\ parse_phase_' = "kHeaderLine" /\ content_length_' = NoLength
      /\ request' = NoRequest /\ ret' = "kShort" /\ taken' = <<>>
  BY DEF OnMessage, InitialLength
<1>2. Whole' /\ wire' \in Seq(Units) /\ buffer' \in Seq(Units)
  BY ArrivalWhole DEF Inductive
<1>3. Types'
  BY <1>1, <1>2, NewRequest DEF Types, TypeOK, NoRequest
<1>4. Progress' /\ LengthIsTold'
  BY <1>1 DEF Progress, LengthIsTold, NoRequest
<1>5. GoodIsWholeRequest' /\ WholeRequestIsAccepted'
  BY <1>1 DEF GoodIsWholeRequest, WholeRequestIsAccepted
<1> QED
  BY <1>2, <1>3, <1>4, <1>5 DEF Inductive

\* A call that returns without a request has not been given a whole one.
LEMMA ReturnInductive ==
  ASSUME Inductive, parsing, parsing' = FALSE, ret' \in {"kShort", "kError"},
         UNCHANGED <<wire, buffer, parse_phase_, content_length_, request, taken>>,
         parse_phase_ \in {"kHeaderLine", "kHeaderFields"},
         \/ ~HasLine
         \/ parse_phase_ = "kHeaderLine" /\ ~IsHeaderLine(Line)
         \/ parse_phase_ = "kHeaderFields" /\ Line # <<>> /\ Line[1].unit # "field"
  PROVE  Inductive'
<1>1. Types' /\ Whole'
  BY DEF Inductive, Types, TypeOK, Whole
<1>2. Progress' /\ LengthIsTold'
  BY DEF Inductive, Progress, LengthIsTold, Tells
<1>3. GoodIsWholeRequest'
  BY DEF GoodIsWholeRequest
<1>4. WholeRequestIsAccepted'
  <2>1. \A n \in 1..Len(taken \o buffer) : ~IsRequest(SubSeq(taken \o buffer, 1, n))
    BY NextLineIsGood DEF Inductive
  <2> QED
    BY <2>1 DEF WholeRequestIsAccepted
<1> QED
  BY <1>1, <1>2, <1>3, <1>4 DEF Inductive

\* A step within a call has only its own phase to account for.
LEMMA GoesOn ==
  ASSUME parsing'
  PROVE  GoodIsWholeRequest' /\ WholeRequestIsAccepted'
BY DEF GoodIsWholeRequest, WholeRequestIsAccepted

\* The header line is consumed whole, and the request says what it says.
LEMMA ParseHeaderLineInductive ==
  ASSUME Inductive, ParseHeaderLine
  PROVE  Inductive'
<1>1. CASE ~IsHeaderLine(Line)
  BY <1>1, ReturnInductive DEF ParseHeaderLine, ReadyFor, Return
<1>2. CASE IsHeaderLine(Line)
  <2>1. /\ parsing /\ parsing' /\ parse_phase_ = "kHeaderLine" /\ HasLine
        /\ parse_phase_' = "kHeaderFields" /\ ret' = "kGood"
        /\ Consume(Len(Line) + 1)
        /\ request' = [request EXCEPT !.method = Line[1].method,
                                      !.version = Line[1].version,
                                      !.is_static = Line[1].method # "POST"
                                                    /\ Line[1].url = "page"]
        /\ UNCHANGED <<wire, content_length_>>
    BY <1>2 DEF ParseHeaderLine, ReadyFor, Continue
  <2>2. Len(Line) = 1 /\ Line[1].unit = "line" /\ Line # <<>>
    BY <1>2 DEF IsHeaderLine
  <2>3. /\ Line[1] = buffer[1] /\ Len(buffer) >= 2 /\ buffer[2] = CRLF
        /\ buffer[1] \in Units
    BY <2>1, <2>2, TextLine DEF Inductive, TextUnits
  <2>4. 2 \in 0..Len(buffer) /\ Consume(2)
    <3>1. Len(buffer) \in Nat
      BY DEF Inductive, Types, TypeOK
    <3> QED
      BY <2>1, <2>2, <2>3, <3>1
  <2>5. /\ buffer' \in Seq(Units) /\ taken' \in Seq(Units)
        /\ Len(taken') = 2 /\ taken'[1] = buffer[1] /\ taken'[2] = CRLF
    <3> DEFINE piece == SubSeq(buffer, 1, 2)
    <3>1. /\ buffer' \in Seq(Units) /\ taken' \in Seq(Units)
          /\ piece \in Seq(Units) /\ Len(piece) = 2
          /\ \A i \in 1..2 : piece[i] = buffer[i]
          /\ taken' = taken \o piece
      BY <2>4, ConsumeType DEF Inductive
    <3>2. taken = <<>>
      BY <2>1 DEF Inductive, Progress
    <3> HIDE DEF piece
    <3>3. taken' = piece
      BY <3>1, <3>2, ConcatEmptySeq
    <3> QED
      BY <2>3, <3>1, <3>3
  <2>6. Whole'
    BY <2>1, <2>4, ConsumeWhole DEF Inductive
  <2>7. request = NoRequest /\ content_length_ = NoLength
    BY <2>1 DEF Inductive, Progress, LengthIsTold
  <2>8. request' \in HttpRequests
    <3>1. buffer[1] \in LineUnits
      BY <2>2, <2>3 DEF LineUnits
    <3> QED
      BY <2>1, <2>3, <2>7, <3>1, NewRequest DEF HttpRequests
  <2>9. Types'
    BY <2>1, <2>5, <2>8 DEF Inductive, Types, TypeOK, HttpRequests
  <2>10. IsOpenHead(taken)'
    BY <1>2, <2>2, <2>3, <2>5 DEF IsOpenHead, IsHeaderLine
  <2>11. \A name : FirstValue(taken', name) = {}
    BY <2>2, <2>3, <2>5 DEF FirstValue, IsFirst, IsNamed, CRLF
  <2>12. Tells(taken)'
    BY <2>1, <2>3, <2>5, <2>7, <2>11 DEF Tells, NoRequest
  <2>13. Progress' /\ LengthIsTold'
    BY <2>1, <2>7, <2>10, <2>12 DEF Progress, LengthIsTold, NoRequest
  <2> QED
    BY <2>1, <2>6, <2>9, <2>13, GoesOn DEF Inductive
<1> QED
  BY <1>1, <1>2

\* What a step of the header consumes: n units, which follow what the call has consumed.
LEMMA ConsumeInHead ==
  ASSUME Inductive, parse_phase_ = "kHeaderFields", NEW n \in 1..2, n <= Len(buffer), Consume(n)
  PROVE  /\ buffer' \in Seq(Units) /\ taken' \in Seq(Units)
         /\ Len(taken) \in Nat /\ Len(taken) >= 2 /\ Len(taken) % 2 = 0
         /\ Len(taken') = Len(taken) + n
         /\ \A i \in 1..Len(taken) : taken'[i] = taken[i]
         /\ \A i \in 1..n : taken'[Len(taken) + i] = buffer[i]
         /\ IsHeaderLine(<<taken'[1]>>)
         /\ \A i \in 2..Len(taken) : IF i % 2 = 0 THEN taken'[i] = CRLF
                                                  ELSE taken'[i].unit = "field"
<1> DEFINE piece == SubSeq(buffer, 1, n)
<1>1. taken \in Seq(Units) /\ Len(taken) \in Nat /\ n \in 0..Len(buffer)
  BY DEF Inductive, Types, TypeOK
<1>2. /\ buffer' \in Seq(Units) /\ taken' \in Seq(Units)
      /\ piece \in Seq(Units) /\ Len(piece) = n
      /\ \A i \in 1..n : piece[i] = buffer[i]
      /\ taken' = taken \o piece
  BY <1>1, ConsumeType DEF Inductive
<1> HIDE DEF piece
<1>3. /\ Len(taken') = Len(taken) + n
      /\ \A i \in 1..Len(taken) : taken'[i] = taken[i]
      /\ \A i \in 1..n : taken'[Len(taken) + i] = buffer[i]
  BY <1>1, <1>2, ConcatProperties
<1>4. IsOpenHead(taken)
  BY DEF Inductive, Progress
<1>5. taken'[1] = taken[1]
  BY <1>1, <1>3, <1>4 DEF IsOpenHead
<1> HIDE DEF IsHeaderLine
<1>6. IsHeaderLine(<<taken'[1]>>)
  BY <1>4, <1>5 DEF IsOpenHead
<1>7. /\ Len(taken) >= 2 /\ Len(taken) % 2 = 0
      /\ \A i \in 2..Len(taken) : IF i % 2 = 0 THEN taken[i] = CRLF ELSE taken[i].unit = "field"
  BY <1>4 DEF IsOpenHead
<1>8. \A i \in 2..Len(taken) : taken'[i] = taken[i]
  BY <1>1, <1>3
<1> QED
  BY <1>1, <1>2, <1>3, <1>6, <1>7, <1>8

\* The fields of a name in what has been consumed, when a line has been added.
LEMMA FirstValueAfter ==
  ASSUME Inductive, NEW n \in 1..2, n <= Len(buffer), Consume(n),
         n = 2 => buffer[2] = CRLF, n = 1 => buffer[1] = CRLF, NEW name
  PROVE  FirstValue(taken', name) =
           IF FirstValue(taken, name) # {} THEN FirstValue(taken, name)
           ELSE IF n = 2 /\ IsNamed(buffer[1], name) THEN {buffer[1].value} ELSE {}
<1> DEFINE piece == SubSeq(buffer, 1, n)
<1>1. taken \in Seq(Units) /\ n \in 0..Len(buffer)
  BY DEF Inductive, Types, TypeOK
<1>2. /\ piece \in Seq(Units) /\ Len(piece) = n
      /\ \A i \in 1..n : piece[i] = buffer[i]
      /\ taken' = taken \o piece
  BY <1>1, ConsumeType DEF Inductive
<1> HIDE DEF piece
<1>3. ~IsNamed(CRLF, name)
  BY DEF IsNamed, CRLF
<1>4. \A i \in 1..n : IsFirst(piece, i, name) <=> i = 1 /\ n = 2 /\ IsNamed(buffer[1], name)
  BY <1>2, <1>3 DEF IsFirst
<1>5. FirstValue(piece, name) = IF n = 2 /\ IsNamed(buffer[1], name) THEN {buffer[1].value}
                                                                     ELSE {}
  BY <1>2, <1>4 DEF FirstValue
<1> QED
  BY <1>1, <1>2, <1>5, FirstValueJoin

\* A field is consumed with its line end, and counts if it is the first of its name; the
\* blank line makes what has been consumed a head.
LEMMA ParseHeaderFieldInductive ==
  ASSUME Inductive, ParseHeaderField
  PROVE  Inductive'
<1>1. /\ parsing /\ parse_phase_ = "kHeaderFields" /\ HasLine
      /\ buffer \in Seq(Units) /\ Len(buffer) \in Nat
      /\ UNCHANGED <<wire, content_length_>>
      /\ Tells(taken) /\ request.body = <<>> /\ request \in HttpRequests
      /\ content_length_ = NoLength
  BY DEF ParseHeaderField, ReadyFor, Inductive, Types, TypeOK, Progress, LengthIsTold
<1>2. CASE Line # <<>> /\ Line[1].unit # "field"
  BY <1>1, <1>2, ReturnInductive DEF ParseHeaderField, Return
<1>3. CASE Line = <<>>
  <2>1. /\ parsing' /\ parsing' = parsing /\ parse_phase_' = "kBody" /\ ret' = "kGood"
        /\ Consume(1) /\ UNCHANGED request
    BY <1>1, <1>3 DEF ParseHeaderField, Continue
  <2>2. buffer[1] = CRLF /\ 1 <= Len(buffer)
    <3>1. PICK i \in 1..Len(buffer) : buffer[i] = CRLF /\ Len(Line) = i - 1
      BY <1>1, LineIsFirst
    <3>2. i = 1
      BY <1>3, <3>1
    <3> QED
      BY <1>1, <3>1, <3>2
  <2>3. /\ buffer' \in Seq(Units) /\ taken' \in Seq(Units)
        /\ Len(taken) \in Nat /\ Len(taken) >= 2 /\ Len(taken) % 2 = 0
        /\ Len(taken') = Len(taken) + 1
        /\ \A i \in 1..Len(taken) : taken'[i] = taken[i]
        /\ taken'[Len(taken) + 1] = CRLF
        /\ IsHeaderLine(<<taken'[1]>>)
        /\ \A i \in 2..Len(taken) : IF i % 2 = 0 THEN taken'[i] = CRLF
                                                 ELSE taken'[i].unit = "field"
    BY <1>1, <2>1, <2>2, ConsumeInHead
  <2>4. (Len(taken) + 1) % 2 = 1
    BY <2>3, Parity
  <2>5. IsHead(taken)'
    <3> HIDE DEF IsHeaderLine
    <3>1. ASSUME NEW i \in 2..Len(taken')
          PROVE  IF i % 2 = 0 \/ i = Len(taken') THEN taken'[i] = CRLF
                                                 ELSE taken'[i].unit = "field"
      <4>1. (i \in 2..Len(taken) /\ i # Len(taken')) \/ i = Len(taken) + 1
        BY <2>3
      <4> QED
        BY <2>3, <4>1
    <3> QED
      BY <2>3, <2>4, <3>1 DEF IsHead
  <2>6. \A name : FirstValue(taken', name) = FirstValue(taken, name)
    BY <2>1, <2>2, FirstValueAfter
  <2>7. Tells(taken)'
    BY <1>1, <2>1, <2>3, <2>6, SMTT(30) DEF Tells
  <2>8. Whole'
    BY <1>1, <2>1, <2>2, ConsumeWhole DEF Inductive
  <2>9. Types'
    BY <1>1, <2>1, <2>3 DEF Inductive, Types, TypeOK
  <2>10. Progress' /\ LengthIsTold'
    BY <1>1, <2>1, <2>5, <2>7 DEF Progress, LengthIsTold
  <2> QED
    BY <2>1, <2>8, <2>9, <2>10, GoesOn DEF Inductive
<1>4. CASE Line # <<>> /\ Line[1].unit = "field"
  <2>1. /\ parsing' /\ parsing' = parsing /\ UNCHANGED parse_phase_ /\ ret' = "kShort"
        /\ Consume(Len(Line) + 1)
        /\ request' = CASE Line[1].name = "Connection" ->
                             [request EXCEPT !.Connection = Emplace(@, Line[1].value)]
                        [] Line[1].name = "Content-Length" ->
                             [request EXCEPT !.ContentLength = Emplace(@, Line[1].value)]
                        [] OTHER -> request
    BY <1>1, <1>4 DEF ParseHeaderField, Continue
  <2>2. /\ Len(Line) = 1 /\ Line[1] = buffer[1]
        /\ Len(buffer) >= 2 /\ buffer[2] = CRLF /\ buffer[1] \in Units
    BY <1>1, <1>4, TextLine DEF Inductive, TextUnits
  <2>3. Consume(2) /\ 2 \in 0..Len(buffer) /\ buffer[1].unit = "field"
    BY <1>1, <1>4, <2>1, <2>2
  <2>4. /\ buffer' \in Seq(Units) /\ taken' \in Seq(Units)
        /\ Len(taken) \in Nat /\ Len(taken) >= 2 /\ Len(taken) % 2 = 0
        /\ Len(taken') = Len(taken) + 2
        /\ \A i \in 1..Len(taken) : taken'[i] = taken[i]
        /\ taken'[Len(taken) + 1] = buffer[1] /\ taken'[Len(taken) + 2] = CRLF
        /\ IsHeaderLine(<<taken'[1]>>)
        /\ \A i \in 2..Len(taken) : IF i % 2 = 0 THEN taken'[i] = CRLF
                                                 ELSE taken'[i].unit = "field"
    <3>1. 2 \in 1..2 /\ 1 \in 1..2 /\ 2 <= Len(buffer)
      BY <1>1, <2>2
    <3>2. /\ buffer' \in Seq(Units) /\ taken' \in Seq(Units)
          /\ Len(taken) \in Nat /\ Len(taken) >= 2 /\ Len(taken) % 2 = 0
          /\ Len(taken') = Len(taken) + 2
          /\ \A i \in 1..Len(taken) : taken'[i] = taken[i]
          /\ \A i \in 1..2 : taken'[Len(taken) + i] = buffer[i]
          /\ IsHeaderLine(<<taken'[1]>>)
          /\ \A i \in 2..Len(taken) : IF i % 2 = 0 THEN taken'[i] = CRLF
                                                   ELSE taken'[i].unit = "field"
      BY <1>1, <2>3, <3>1, ConsumeInHead
    <3> QED
      BY <2>2, <3>1, <3>2
  <2>5. (Len(taken) + 1) % 2 = 1 /\ (Len(taken) + 2) % 2 = 0
    BY <2>4, Parity
  <2>6. IsOpenHead(taken)'
    <3> HIDE DEF IsHeaderLine
    <3>1. \A i \in 2..Len(taken') : IF i % 2 = 0 THEN taken'[i] = CRLF
                                                 ELSE taken'[i].unit = "field"
      <4>1. SUFFICES ASSUME NEW i \in 2..Len(taken')
                     PROVE  IF i % 2 = 0 THEN taken'[i] = CRLF ELSE taken'[i].unit = "field"
        OBVIOUS
      <4>2. i \in 2..Len(taken) \/ i = Len(taken) + 1 \/ i = Len(taken) + 2
        <5> DEFINE m == Len(taken)
                   k == Len(taken')
        <5>1. m \in Nat /\ k = m + 2 /\ i \in 2..k
          BY <2>4, <4>1
        <5> HIDE DEF m, k
        <5>2. i \in 2..m \/ i = m + 1 \/ i = m + 2
          BY <5>1
        <5> QED
          BY <5>2 DEF m
      <4>3. CASE i \in 2..Len(taken)
        BY <2>4, <4>3
      <4>4. CASE i = Len(taken) + 1
        BY <2>3, <2>4, <2>5, <4>4
      <4>5. CASE i = Len(taken) + 2
        BY <2>4, <2>5, <4>5
      <4> QED
        BY <4>2, <4>3, <4>4, <4>5
    <3> QED
      BY <2>4, <2>5, <3>1 DEF IsOpenHead
  <2>7. \A name : FirstValue(taken', name) =
                    IF buffer[1].name = name THEN Emplace(FirstValue(taken, name), buffer[1].value)
                                             ELSE FirstValue(taken, name)
    <3> SUFFICES ASSUME NEW name
                 PROVE  FirstValue(taken', name) =
                          IF buffer[1].name = name
                          THEN Emplace(FirstValue(taken, name), buffer[1].value)
                          ELSE FirstValue(taken, name)
      OBVIOUS
    <3>1. FirstValue(taken', name) =
            IF FirstValue(taken, name) # {} THEN FirstValue(taken, name)
            ELSE IF IsNamed(buffer[1], name) THEN {buffer[1].value} ELSE {}
      <4>1. 2 \in 1..2 /\ 2 <= Len(buffer) /\ 2 # 1
        BY <1>1, <2>2
      <4> QED
        BY <2>2, <2>3, <4>1, FirstValueAfter
    <3>2. IsNamed(buffer[1], name) <=> buffer[1].name = name
      BY <2>3 DEF IsNamed
    <3> QED
      BY <3>1, <3>2 DEF Emplace
  <2>8. /\ request' \in HttpRequests
        /\ request'.version = request.version /\ request'.is_static = request.is_static
        /\ request'.body = request.body
        /\ request'.Connection = IF buffer[1].name = "Connection"
                                 THEN Emplace(request.Connection, buffer[1].value)
                                 ELSE request.Connection
        /\ request'.ContentLength = IF buffer[1].name = "Content-Length"
                                    THEN Emplace(request.ContentLength, buffer[1].value)
                                    ELSE request.ContentLength
    <3> DEFINE v == buffer[1].value
    <3>1. v \in {u.value : u \in FieldUnits}
      BY <2>2, <2>3 DEF FieldUnits
    <3>2. buffer[1].name = "Content-Length" => v \in Nat \cup {NoLength}
      <4>1. PICK s \in Streams : buffer[1] \in ToSet(s)
        BY <2>2 DEF Units
      <4> QED
        BY <2>3, <4>1, StreamsAssumption
    <3>3. CASE buffer[1].name = "Connection"
      <4>1. request' = [request EXCEPT !.Connection = Emplace(request.Connection, v)]
        BY <2>1, <2>2, <3>3
      <4>2. Emplace(request.Connection, v) \in SUBSET {u.value : u \in FieldUnits}
        BY <1>1, <3>1 DEF Emplace, HttpRequests
      <4> HIDE DEF v
      <4> QED
        BY <1>1, <3>3, <4>1, <4>2 DEF HttpRequests, v
    <3>4. CASE buffer[1].name = "Content-Length"
      <4>1. request' = [request EXCEPT !.ContentLength = Emplace(request.ContentLength, v)]
        BY <2>1, <2>2, <3>4
      <4>2. Emplace(request.ContentLength, v) \in SUBSET (Nat \cup {NoLength})
        BY <1>1, <3>2, <3>4 DEF Emplace, HttpRequests
      <4> HIDE DEF v
      <4> QED
        BY <1>1, <3>4, <4>1, <4>2 DEF HttpRequests, v
    <3>5. CASE buffer[1].name \notin {"Connection", "Content-Length"}
      <4>1. request' = request
        BY <2>1, <2>2, <3>5
      <4> QED
        BY <1>1, <3>5, <4>1
    <3> QED
      BY <3>3, <3>4, <3>5
  <2>9. Tells(taken)'
    <3>1. taken'[1] = taken[1]
      BY <2>4
    <3> QED
      BY <1>1, <2>7, <2>8, <3>1 DEF Tells
  <2>10. Whole'
    BY <1>1, <2>3, ConsumeWhole DEF Inductive
  <2>11. Types'
    BY <1>1, <2>1, <2>4, <2>8 DEF Inductive, Types, TypeOK
  <2>12. Progress' /\ LengthIsTold'
    BY <1>1, <2>1, <2>6, <2>8, <2>9 DEF Progress, LengthIsTold
  <2> QED
    BY <2>1, <1>1, <2>10, <2>11, <2>12, GoesOn DEF Inductive
<1> QED
  BY <1>2, <1>3, <1>4

\* When the header is over the parser knows how long the body is.
LEMMA LengthIsKnown ==
  ASSUME Inductive, parse_phase_ = "kBody"
  PROVE  /\ Length(request) \in Nat \cup {NoLength}
         /\ Length(request) # NoLength => Length(request) \in request.ContentLength
         /\ BodyLength(taken) = IF Length(request) = NoLength THEN 0 ELSE Length(request)
         /\ BodyLength(taken) \in Nat
<1>1. /\ request.ContentLength = FirstValue(taken, "Content-Length")
      /\ request.ContentLength \in SUBSET (Nat \cup {NoLength}) /\ taken \in Seq(Units)
  BY DEF Inductive, Progress, Tells, Types, TypeOK, HttpRequests
<1>2. CASE request.ContentLength = {}
  <2>1. content_length_ = NoLength
    BY <1>2 DEF Inductive, LengthIsTold
  <2> QED
    BY <1>1, <1>2, <2>1 DEF Length, BodyLength
<1>3. CASE request.ContentLength # {}
  <2>1. PICK v : request.ContentLength = {v}
    BY <1>1, <1>3, FirstValueIs
  <2>2. Length(request) = v
    BY <2>1 DEF Length
  <2>3. BodyLength(taken) = IF {v} \subseteq {NoLength} THEN 0 ELSE CHOOSE n \in {v} : TRUE
    BY <1>1, <2>1, SMTT(30) DEF BodyLength
  <2>4. (CHOOSE n \in {v} : TRUE) = v
    OBVIOUS
  <2>5. {v} \subseteq {NoLength} <=> v = NoLength
    OBVIOUS
  <2>6. v \in Nat \cup {NoLength}
    BY <1>1, <2>1
  <2>7. BodyLength(taken) = IF v = NoLength THEN 0 ELSE v
    BY <2>3, <2>4, <2>5
  <2> QED
    BY <2>1, <2>2, <2>6, <2>7
<1> QED
  BY <1>2, <1>3

\* While the body is short nothing is consumed.
LEMMA ShortBodyInductive ==
  ASSUME Inductive, ShortBody
  PROVE  Inductive'
<1>1. /\ parsing /\ parsing' = parsing /\ parse_phase_ = "kBody" /\ ret' = "kShort"
      /\ content_length_' = Length(request)
      /\ request' = [request EXCEPT !.is_keep_alive = KeepAlive(request)]
      /\ UNCHANGED <<wire, buffer, parse_phase_, taken>>
      /\ Length(request) # NoLength
  BY DEF ShortBody, ReadyFor, Continue
<1>2. request' \in HttpRequests /\ \A field \in {"version", "is_static", "Connection",
                                       "ContentLength", "body"} : request'[field] = request[field]
  <2>1. KeepAlive(request) \in BOOLEAN
    BY DEF KeepAlive, Says
  <2> QED
    BY <1>1, <2>1 DEF Inductive, Types, HttpRequests
<1>3. Types' /\ Whole'
  BY <1>1, <1>2, LengthIsKnown DEF Inductive, Types, TypeOK, HttpRequests, Whole
<1>4. Progress'
  BY <1>1, <1>2 DEF Inductive, Progress, Tells
<1>5. LengthIsTold'
  BY <1>1, <1>2, LengthIsKnown DEF LengthIsTold
<1> QED
  BY <1>1, <1>3, <1>4, <1>5, GoesOn DEF Inductive

\* A request with its body is one whole request, and its members are those of its head.
LEMMA ParseBodyInductive ==
  ASSUME Inductive, ParseBody
  PROVE  Inductive'
<1> DEFINE n == BodyLength(taken)
<1>1. /\ parsing /\ parse_phase_ = "kBody" /\ n \in Nat
      /\ buffer \in Seq(Units) /\ taken \in Seq(Units) /\ Len(buffer) \in Nat
      /\ IsHead(taken) /\ Tells(taken) /\ request \in HttpRequests
  BY LengthIsKnown DEF ParseBody, ReadyFor, Inductive, Types, TypeOK, Progress
<1>2. /\ Len(buffer) >= n
      /\ content_length_' = Length(request)
      /\ request' = [request EXCEPT !.is_keep_alive = KeepAlive(request),
                                    !.body = IF n = 0 THEN <<>> ELSE SubSeq(buffer, 1, n)]
      /\ IF n = 0 THEN UNCHANGED <<buffer, taken>> ELSE Consume(n)
      /\ parse_phase_' = "kFinished" /\ parsing' = FALSE /\ ret' = "kGood"
      /\ UNCHANGED wire
  BY <1>1, LengthIsKnown DEF ParseBody, Return, BodyEnd
<1> DEFINE body == request'.body
<1>3. /\ body \in Seq(Units) /\ Len(body) = n /\ taken' = taken \o body
      /\ buffer' \in Seq(Units)
  <2>1. body = IF n = 0 THEN <<>> ELSE SubSeq(buffer, 1, n)
    BY <1>1, <1>2 DEF HttpRequests
  <2>2. CASE n = 0
    BY <1>1, <1>2, <2>1, <2>2, EmptySeq, ConcatEmptySeq
  <2>3. CASE n # 0
    BY <1>1, <1>2, <2>1, <2>3, ConsumeType, SMTT(30) DEF Inductive
  <2> QED
    BY <2>2, <2>3
<1>4. /\ request' \in HttpRequests
      /\ request'.is_static = request.is_static
      /\ request'.is_keep_alive = KeepAlive(request)
  <2>1. KeepAlive(request) \in BOOLEAN
    BY DEF KeepAlive, Says
  <2>2. (IF n = 0 THEN <<>> ELSE SubSeq(buffer, 1, n)) \in Seq(Units)
    BY <1>1, <1>2, SubSeqProperties
  <2> QED
    BY <1>1, <1>2, <2>1, <2>2 DEF HttpRequests
<1> HIDE DEF body, n
<1>5. /\ taken' \in Seq(Units) /\ Len(taken') = Len(taken) + n /\ Len(taken) \in Nat
      /\ SubSeq(taken', 1, Len(taken)) = taken
      /\ SubSeq(taken', Len(taken) + 1, Len(taken')) = body
  <2>1. /\ taken \o body \in Seq(Units) /\ Len(taken \o body) = Len(taken) + Len(body)
        /\ Len(taken) \in Nat
        /\ SubSeq(taken \o body, 1, Len(taken)) = taken
        /\ SubSeq(taken \o body, Len(taken) + 1, Len(taken) + Len(body)) = body
    BY <1>1, <1>3, JoinedParts
  <2> QED
    BY <1>3, <2>1
<1>6. Len(taken) \in 1..Len(taken')
  <2> HIDE DEF IsHeaderLine
  <2>1. Len(taken) >= 3
    BY <1>1 DEF IsHead
  <2>2. n \in Nat
    BY <1>1 DEF n
  <2> QED
    BY <1>5, <2>1, <2>2
<1>7. IsRequest(taken')
  BY <1>1, <1>5, <1>6 DEF IsRequest, n
<1>8. HeadOf(taken') = taken
  <2> DEFINE k == CHOOSE j \in 1..Len(taken') : IsHead(SubSeq(taken', 1, j))
  <2>1. k \in 1..Len(taken') /\ IsHead(SubSeq(taken', 1, k))
    BY <1>1, <1>5, <1>6
  <2>2. k = Len(taken)
    BY <1>1, <1>5, <1>6, <2>1, OneHead
  <2>3. HeadOf(taken') = SubSeq(taken', 1, Len(taken') - BodyLength(SubSeq(taken', 1, k)))
    BY DEF HeadOf
  <2> HIDE DEF k
  <2>4. BodyLength(SubSeq(taken', 1, k)) = n
    BY <1>5, <2>2 DEF n
  <2> QED
    BY <1>1, <1>5, <2>3, <2>4
<1>9. AsksKeepAlive(taken) => KeepAlive(request)
  BY <1>1 DEF AsksKeepAlive, KeepAlive, Says, Tells
<1>10. AsksClose(taken) => ~KeepAlive(request)
  <2>1. taken[1].version \in {"1.0", "1.1"}
    BY <1>1 DEF IsHead, IsHeaderLine
  <2> QED
    BY <1>1, <2>1 DEF AsksClose, KeepAlive, Says, Tells
<1>11. GoodIsWholeRequest'
  BY <1>1, <1>4, <1>5, <1>7, <1>8, <1>9, <1>10 DEF GoodIsWholeRequest, Tells, body
<1>12. Whole'
  <2>1. CASE n = 0
    BY <1>2, <2>1 DEF Inductive, Whole, n
  <2>2. CASE n # 0
    BY <1>1, <1>2, <2>2, ConsumeWhole DEF Inductive, n
  <2> QED
    BY <2>1, <2>2
<1>13. Types'
  BY <1>2, <1>3, <1>4, <1>5, LengthIsKnown, <1>1 DEF Inductive, Types, TypeOK, HttpRequests
<1>14. Progress' /\ LengthIsTold' /\ WholeRequestIsAccepted'
  BY <1>2 DEF Progress, LengthIsTold, WholeRequestIsAccepted
<1> QED
  BY <1>11, <1>12, <1>13, <1>14 DEF Inductive

\* Nothing has arrived when the connection is new.
LEMMA InitInductive == Init => Inductive
<1> SUFFICES ASSUME Init PROVE Inductive
  OBVIOUS
<1>1. /\ wire \in Streams /\ buffer = <<>> /\ taken = <<>> /\ parsing = FALSE
      /\ parse_phase_ = "kHeaderLine" /\ content_length_ = NoLength
      /\ request = NoRequest /\ ret = "kShort"
  BY DEF Init, InitialLength
<1>2. wire \in Seq(Units) /\ TextsAreLines(wire)
  BY <1>1, StreamsAreUnits
<1>3. Types
  <2>1. buffer \in Seq(Units) /\ taken \in Seq(Units)
    BY <1>1, EmptySeq
  <2>2. request \in HttpRequests /\ request.body \in Seq(Units)
    BY <1>1, NewRequest DEF HttpRequests
  <2>3. content_length_ \in Nat \cup {NoLength} /\ parsing \in BOOLEAN
    BY <1>1
  <2> QED
    BY <1>1, <1>2, <2>1, <2>2, <2>3 DEF Types, TypeOK
<1>4. buffer \o wire = wire
  BY <1>1, <1>2, ConcatEmptySeq
<1>5. Progress /\ LengthIsTold /\ GoodIsWholeRequest
  BY <1>1 DEF Progress, LengthIsTold, GoodIsWholeRequest, NoRequest
<1>6. Len(taken \o buffer) = 0
  BY <1>1
<1>7. WholeRequestIsAccepted
  BY <1>6 DEF WholeRequestIsAccepted
<1> QED
  BY <1>2, <1>3, <1>4, <1>5, <1>7 DEF Inductive, Whole

-----------------------------------------------------------------------------
(* The theorems                                                            *)

\* The invariant holds in every reachable state.
THEOREM InductiveHolds == Spec => []Inductive
<1>1. Inductive /\ [Next]_vars => Inductive'
  <2> SUFFICES ASSUME Inductive, [Next]_vars PROVE Inductive'
    OBVIOUS
  <2>1. CASE NeedsLine
    BY <2>1, ReturnInductive DEF NeedsLine, Return
  <2>2. CASE UNCHANGED vars
    BY <2>2 DEF vars, Inductive, Types, TypeOK, Whole, Progress, Tells, LengthIsTold,
                GoodIsWholeRequest, WholeRequestIsAccepted
  <2> QED
    BY <2>1, <2>2, OnMessageInductive, ParseHeaderLineInductive, ParseHeaderFieldInductive,
       ParseBodyInductive, ShortBodyInductive DEF Next, Parse
<1> QED
  BY <1>1, InitInductive, PTL DEF Spec

\* Every variable keeps its type, for any stream.
THEOREM TypeCorrect == Spec => []TypeOK
<1>1. Inductive => TypeOK
  BY DEF Inductive, Types
<1> QED
  BY <1>1, InductiveHolds, PTL

\* What Parse() accepts is one whole request and nothing after it, and the request
\* object says what the message says, however the bytes of any stream were cut.
THEOREM GoodIsRequest == Spec => []GoodIsWholeRequest
<1>1. Inductive => GoodIsWholeRequest
  BY DEF Inductive
<1> QED
  BY <1>1, InductiveHolds, PTL

\* Parse() never refuses, and never leaves unfinished, a request that is in the buffer
\* as a whole, whatever follows it.
THEOREM RequestIsGood == Spec => []WholeRequestIsAccepted
<1>1. Inductive => WholeRequestIsAccepted
  BY DEF Inductive
<1> QED
  BY <1>1, InductiveHolds, PTL

\* Every turn of the loop of Parse() returns or consumes something, unless the body is
\* short: what OnlyBodiesBlock rests on, for buffers of any length.
TurnGetsOn == [][parsing => \/ ~parsing'
                            \/ Len(buffer') < Len(buffer)
                            \/ BodyIsShort']_vars

\* Every turn does, in every reachable state.
THEOREM TurnsGetOn == Spec => TurnGetsOn
<1>1. Inductive /\ [Next]_vars => [parsing => \/ ~parsing'
                                              \/ Len(buffer') < Len(buffer)
                                              \/ BodyIsShort']_vars
  <2> SUFFICES ASSUME Inductive, Next, parsing, parsing'
               PROVE  Len(buffer') < Len(buffer) \/ BodyIsShort'
    BY DEF vars
  <2>1. Len(buffer) \in Nat /\ buffer \in Seq(Units)
    BY DEF Inductive, Types, TypeOK
  <2>2. CASE ShortBody
    BY <2>2 DEF ShortBody, ReadyFor, BodyIsShort
  <2>3. ASSUME HasLine, Consume(Len(Line) + 1) PROVE Len(buffer') < Len(buffer)
    <3>1. PICK i \in 1..Len(buffer) : Len(Line) = i - 1
      BY <2>1, <2>3, LineIsFirst
    <3>2. i \in 0..Len(buffer) /\ Consume(i)
      BY <2>1, <2>3, <3>1
    <3>3. Len(buffer') = Len(buffer) - i
      BY <3>2, ConsumeType DEF Inductive
    <3> QED
      BY <2>1, <3>1, <3>3
  <2>4. CASE ParseHeaderLine
    BY <2>3, <2>4 DEF ParseHeaderLine, Return
  <2>5. CASE ParseHeaderField
    <3>1. HasLine
      BY <2>5 DEF ParseHeaderField
    <3>2. CASE Line = <<>> /\ Consume(1)
      BY <2>3, <3>1, <3>2
    <3>3. CASE Consume(Len(Line) + 1)
      BY <2>3, <3>1, <3>3
    <3> QED
      BY <2>5, <3>2, <3>3 DEF ParseHeaderField, Return
  <2>6. ~OnMessage /\ ~NeedsLine /\ ~ParseBody
    BY DEF OnMessage, NeedsLine, ParseBody, Return
  <2> QED
    BY <2>2, <2>4, <2>5, <2>6 DEF Next, Parse
<1> QED
  BY <1>1, InductiveHolds, PTL DEF Spec, TurnGetsOn
=============================================================================
