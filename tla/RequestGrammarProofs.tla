------------------------ MODULE RequestGrammarProofs ------------------------
(***************************************************************************)
(* The proof that version 1 accepts what RequestLines defines as a request *)
(* line, and nothing but that, for lines of any length and messages that   *)
(* end anywhere; and that the two versions agree on the lines of version 2.*)
(*                                                                         *)
(* The parser is a machine that looks at one character at a time, and what *)
(* it accepts is defined by the words of the line.  Shape says of each     *)
(* state of the machine which words have been read when it is in it, and   *)
(* every turn of the loop keeps it: so what is accepted is a request line, *)
(* and the members are its words.  Conversely the next character of a      *)
(* request line is, in each state, one that the machine goes on with.      *)
(***************************************************************************)
EXTENDS RequestLinesProofs

-----------------------------------------------------------------------------
(* The words of a line, character by character                             *)

\* No word is under way.
AtGap(u) == u = <<>> \/ Last(u) = Space

\* A word has begun, or become longer.
Started(w, x, c) == /\ Len(x) = Len(w) + 1 /\ x[Len(w) + 1] = <<c>>
                    /\ \A i \in 1..Len(w) : x[i] = w[i]
Grown(w, x, c) == /\ Len(w) >= 1 /\ Len(x) = Len(w) /\ x[Len(w)] = Append(w[Len(w)], c)
                  /\ \A i \in 1..(Len(w) - 1) : x[i] = w[i]

\* What lies between two characters c is a string.
LEMMA PartsTyped ==
  ASSUME NEW c, NEW p \in Parts(c)
  PROVE  /\ p \in Seq(Seq(Chars)) /\ p # <<>>
         /\ Front(p) \in Seq(Seq(Chars)) /\ Last(p) \in Seq(Chars) /\ p = Append(Front(p), Last(p))
<1> DEFINE S == Seq(Chars)
           T == Seq(Chars \ {c})
<1>1. p \in Seq(T) /\ p # <<>>
  BY DEF Parts
<1>2. \A s \in T : s \in S
  OBVIOUS
<1> HIDE DEF S, T
<1>3. p \in Seq(S)
  BY <1>1, <1>2
<1>4. Front(p) \in Seq(S) /\ Last(p) \in S /\ p = Append(Front(p), Last(p))
  BY <1>1, <1>3, FrontLast
<1> QED
  BY <1>1, <1>3, <1>4 DEF S

\* The last part is empty where no word is under way.
LEMMA LastPart ==
  ASSUME NEW u \in Seq(Chars)
  PROVE  Last(Split(u, Space)) = <<>> <=> AtGap(u)
<1> DEFINE P == {s \in Seq(Chars) : Last(Split(s, Space)) = <<>> <=> AtGap(s)}
<1>1. <<>> \in P
  <2>1. Last(<<<<>>>>) = <<>>
    BY DEF Last
  <2> QED
    BY <2>1, SplitIs DEF AtGap
<1>2. ASSUME NEW s \in Seq(Chars), NEW x \in Chars
      PROVE  Append(s, x) \in P
  <2> DEFINE p == Split(s, Space)
             l == Append(Last(p), x)
  <2>1. p \in Parts(Space) /\ Split(Append(s, x), Space) = SplitTurn(p, x, Space)
    BY SplitIs
  <2>2. p \in Seq(Seq(Chars)) /\ Front(p) \in Seq(Seq(Chars)) /\ Last(p) \in Seq(Chars)
    BY <2>1, PartsTyped
  <2>3. Append(s, x) \in Seq(Chars) /\ Append(s, x) # <<>> /\ Last(Append(s, x)) = x
    BY AppendProperties, AppendParts
  <2>4. l \in Seq(Chars) /\ l # <<>>
    BY <2>2, AppendProperties, ZenonT(60)
  <2>5. <<>> \in Seq(Chars)
    OBVIOUS
  <2> HIDE DEF p, l, P
  <2>6. Last(SplitTurn(p, x, Space)) = IF x = Space THEN <<>> ELSE l
    <3>1. Last(Append(p, <<>>)) = <<>>
      BY <2>2, <2>5, AppendParts
    <3>2. Last(Append(Front(p), l)) = l
      BY <2>2, <2>4, AppendParts
    <3> QED
      BY <3>1, <3>2 DEF SplitTurn, l
  <2> QED
    BY <2>1, <2>3, <2>4, <2>6 DEF AtGap, P
<1>3. Seq(Chars) \subseteq P
  <2> HIDE DEF P
  <2> QED
    BY <1>1, <1>2, SequenceInduction, ZenonT(60)
<1> QED
  BY <1>3

\* A line's words are those of its parts.
LEMMA WordsAreParts ==
  ASSUME NEW u
  PROVE  WordsOf(u) = WordList(Split(u, Space))
BY Zenon DEF WordsOf, WordList

\* A nonempty sequence with something at its end.
LEMMA AppendStarted ==
  ASSUME NEW w \in Seq(Seq(Chars)), NEW c \in Chars
  PROVE  Started(w, Append(w, <<c>>), c)
<1> DEFINE T == Seq(Chars)
           e == <<c>>
<1>1. e \in T
  OBVIOUS
<1> HIDE DEF T, e
<1>2. /\ Len(Append(w, e)) = Len(w) + 1 /\ Append(w, e)[Len(w) + 1] = e
      /\ \A i \in 1..Len(w) : Append(w, e)[i] = w[i]
  BY <1>1, AppendProperties DEF T
<1> QED
  BY <1>2 DEF Started, e

\* And one whose last part becomes longer.
LEMMA AppendGrown ==
  ASSUME NEW f \in Seq(Seq(Chars)), NEW l \in Seq(Chars), NEW c \in Chars
  PROVE  Grown(Append(f, l), Append(f, Append(l, c)), c)
<1> DEFINE T == Seq(Chars)
           e == Append(l, c)
<1>1. e \in T /\ l \in T
  OBVIOUS
<1> HIDE DEF T, e
<1>2. /\ Len(Append(f, e)) = Len(f) + 1 /\ Append(f, e)[Len(f) + 1] = e
      /\ \A i \in 1..Len(f) : Append(f, e)[i] = f[i]
  BY <1>1, AppendProperties DEF T
<1>3. /\ Len(Append(f, l)) = Len(f) + 1 /\ Append(f, l)[Len(f) + 1] = l
      /\ \A i \in 1..Len(f) : Append(f, l)[i] = f[i]
  BY <1>1, AppendProperties DEF T
<1>4. Len(f) \in Nat
  OBVIOUS
<1> QED
  BY <1>2, <1>3, <1>4 DEF Grown, e

\* A space adds no word.
LEMMA WordsIs ==
  /\ WordsOf(<<>>) = <<>>
  /\ \A u \in Seq(Chars) : /\ WordsOf(u) \in Seq(Seq(Chars))
                           /\ WordsOf(Append(u, Space)) = WordsOf(u)
<1>1. WordsOf(<<>>) = <<>>
  <2> DEFINE n == <<>>
             e == <<n>>
  <2>1. n \in Seq(Chars) /\ n \in Seq(Seq(Chars)) /\ e = Append(n, n)
    OBVIOUS
  <2>2. Split(<<>>, Space) = e
    BY SplitIs
  <2>3. WordList(<<>>) = n
    BY WordListIs
  <2> HIDE DEF n, e
  <2>4. WordList(Append(n, n)) = WordsTurn(WordList(n), n)
    BY <2>1, WordListIs
  <2>5. WordList(n) = n
    BY <2>3 DEF n
  <2> QED
    BY <2>1, <2>2, <2>4, <2>5, WordsAreParts DEF WordsTurn, n
<1>2. ASSUME NEW u \in Seq(Chars)
      PROVE  /\ WordsOf(u) \in Seq(Seq(Chars))
             /\ WordsOf(Append(u, Space)) = WordsOf(u)
  <2> DEFINE p == Split(u, Space)
  <2>1. p \in Parts(Space) /\ Split(Append(u, Space), Space) = SplitTurn(p, Space, Space)
    BY SplitIs DEF Chars, Space
  <2>2. p \in Seq(Seq(Chars))
    BY <2>1, PartsTyped
  <2>3. <<>> \in Seq(Chars)
    OBVIOUS
  <2>4. WordsOf(u) = WordList(p) /\ WordsOf(Append(u, Space)) = WordList(Split(Append(u, Space), Space))
    BY WordsAreParts
  <2> HIDE DEF p
  <2>5. WordList(Append(p, <<>>)) = WordsTurn(WordList(p), <<>>) /\ WordList(p) \in Seq(Seq(Chars))
    BY <2>2, <2>3, WordListIs
  <2> QED
    BY <2>1, <2>4, <2>5 DEF WordsTurn, SplitTurn
<1> QED
  BY <1>1, <1>2

\* Any other character starts a word or adds to the last one.
LEMMA WordStarts ==
  ASSUME NEW u \in Seq(Chars), NEW c \in Chars, c # Space
  PROVE  /\ AtGap(u) => Started(WordsOf(u), WordsOf(Append(u, c)), c)
         /\ ~AtGap(u) => Grown(WordsOf(u), WordsOf(Append(u, c)), c)
<1> DEFINE p == Split(u, Space)
           f == Front(p)
           l == Last(p)
           e == Append(l, c)
<1>1. p \in Parts(Space) /\ Split(Append(u, c), Space) = SplitTurn(p, c, Space)
  BY SplitIs
<1>2. /\ f \in Seq(Seq(Chars)) /\ l \in Seq(Chars) /\ p = Append(f, l)
  BY <1>1, PartsTyped
<1>3. l = <<>> <=> AtGap(u)
  BY LastPart
<1>4. WordsOf(u) = WordList(p) /\ WordsOf(Append(u, c)) = WordList(Split(Append(u, c), Space))
  BY WordsAreParts
<1>5. e \in Seq(Chars) /\ e # <<>>
  BY <1>2, AppendProperties
<1>6. Split(Append(u, c), Space) = Append(f, e)
  BY <1>1 DEF SplitTurn
<1>7. l = <<>> => e = <<c>>
  OBVIOUS
<1> HIDE DEF p, f, l, e
<1>8. /\ WordList(f) \in Seq(Seq(Chars))
      /\ WordList(Append(f, l)) = WordsTurn(WordList(f), l)
      /\ WordList(Append(f, e)) = WordsTurn(WordList(f), e)
  BY <1>2, <1>5, WordListIs
<1>9. WordsOf(u) = IF l = <<>> THEN WordList(f) ELSE Append(WordList(f), l)
  BY <1>2, <1>4, <1>8 DEF WordsTurn
<1>10. WordsOf(Append(u, c)) = Append(WordList(f), e)
  BY <1>4, <1>5, <1>6, <1>8 DEF WordsTurn
<1>11. CASE AtGap(u)
  BY <1>3, <1>7, <1>8, <1>9, <1>10, <1>11, AppendStarted
<1>12. CASE ~AtGap(u)
  <2>1. Grown(Append(WordList(f), l), Append(WordList(f), Append(l, c)), c)
    BY <1>2, <1>8, AppendGrown
  <2> QED
    BY <1>3, <1>9, <1>10, <1>12, <2>1 DEF e
<1> QED
  BY <1>11, <1>12

\* A prefix of n characters is one of n - 1 characters and one more.
LEMMA PrefixGrows ==
  ASSUME NEW T, NEW s \in Seq(T)
  PROVE  /\ Len(s) \in Nat /\ SubSeq(s, 1, 0) = <<>> /\ SubSeq(s, 1, Len(s)) = s
         /\ \A k \in 0..Len(s) : /\ SubSeq(s, 1, k) \in Seq(T) /\ Len(SubSeq(s, 1, k)) = k
                                 /\ \A i \in 1..k : SubSeq(s, 1, k)[i] = s[i]
         /\ \A k \in 1..Len(s) : s[k] \in T /\ SubSeq(s, 1, k) = Append(SubSeq(s, 1, k - 1), s[k])
<1>1. Len(s) \in Nat /\ \A i \in 1..Len(s) : s[i] \in T
  OBVIOUS
<1>2. SubSeq(s, 1, 0) = <<>> /\ SubSeq(s, 1, Len(s)) = s
  OBVIOUS
<1>3. ASSUME NEW k \in 0..Len(s)
      PROVE  /\ SubSeq(s, 1, k) \in Seq(T) /\ Len(SubSeq(s, 1, k)) = k
             /\ \A i \in 1..k : SubSeq(s, 1, k)[i] = s[i]
  <2>1. \A i \in 1..k : s[i] \in T
    BY <1>1
  <2> QED
    BY <2>1, <1>1
<1>4. ASSUME NEW k \in 1..Len(s)
      PROVE  s[k] \in T /\ SubSeq(s, 1, k) = Append(SubSeq(s, 1, k - 1), s[k])
  <2> DEFINE a == SubSeq(s, 1, k)
             b == SubSeq(s, 1, k - 1)
             c == Append(b, s[k])
  <2>1. s[k] \in T /\ k \in 0..Len(s) /\ k - 1 \in 0..Len(s)
    BY <1>1
  <2>2. a \in Seq(T) /\ Len(a) = k /\ \A i \in 1..k : a[i] = s[i]
    BY <1>3, <2>1
  <2>3. b \in Seq(T) /\ Len(b) = k - 1 /\ \A i \in 1..(k - 1) : b[i] = s[i]
    BY <1>3, <2>1
  <2> HIDE DEF a, b
  <2>4. c \in Seq(T) /\ Len(c) = k /\ \A i \in 1..k : c[i] = s[i]
    <3>1. /\ c \in Seq(T) /\ Len(c) = Len(b) + 1 /\ c[Len(b) + 1] = s[k]
          /\ \A i \in 1..Len(b) : c[i] = b[i]
      BY <2>1, <2>3, AppendProperties
    <3> HIDE DEF c
    <3> QED
      BY <2>1, <2>3, <3>1
  <2> HIDE DEF c
  <2>5. a = c
    BY <2>2, <2>4, SeqEqual
  <2> QED
    BY <2>1, <2>5 DEF a, b, c
<1> QED
  BY <1>1, <1>2, <1>3, <1>4

\* The words q begin with the words p; if a gap follows, the words p are all complete.
Begins(p, q, gap) ==
  /\ Len(p) <= Len(q)
  /\ \A i \in 1..(Len(p) - 1) : q[i] = p[i]
  /\ Len(p) >= 1 => StartsWith(q[Len(p)], p[Len(p)])
  /\ gap /\ Len(p) >= 1 => q[Len(p)] = p[Len(p)]

\* Nor do they stop to when a word begins or grows; only the last one, if no gap follows it.
LEMMA BeginsGrows ==
  ASSUME NEW p \in Seq(Seq(Chars)), NEW q \in Seq(Seq(Chars)), NEW x \in Seq(Seq(Chars)),
         NEW gap, NEW open, NEW c \in Chars, Begins(p, q, gap),
         gap => open \/ Len(q) > Len(p),
         IF open THEN Started(q, x, c) ELSE Grown(q, x, c)
  PROVE  Begins(p, x, gap) /\ (gap => Len(x) > Len(p))
<1>1. Len(p) \in Nat /\ Len(q) \in Nat /\ Len(x) \in Nat
  OBVIOUS
<1>2. CASE open
  <2>1. Len(x) = Len(q) + 1 /\ \A i \in 1..Len(q) : x[i] = q[i]
    BY <1>2 DEF Started
  <2>2. Len(p) <= Len(q)
    BY DEF Begins
  <2>3. \A i \in 1..Len(p) : x[i] = q[i]
    BY <1>1, <2>1, <2>2
  <2> QED
    BY <1>1, <2>1, <2>2, <2>3 DEF Begins
<1>3. CASE ~open
  <2>1. /\ Len(q) >= 1 /\ Len(x) = Len(q) /\ x[Len(q)] = Append(q[Len(q)], c)
        /\ \A i \in 1..(Len(q) - 1) : x[i] = q[i]
    BY <1>3 DEF Grown
  <2>2. Len(p) <= Len(q)
    BY DEF Begins
  <2>3. CASE Len(p) < Len(q)
    <3>1. \A i \in 1..Len(p) : x[i] = q[i]
      BY <1>1, <2>1, <2>3
    <3> QED
      BY <1>1, <2>1, <2>3, <3>1 DEF Begins
  <2>4. CASE Len(p) = Len(q)
    <3>1. ~gap
      BY <1>1, <1>3, <2>4
    <3> DEFINE n == Len(p)
               s == q[n]
               t == x[n]
               o == p[n]
    <3>2. /\ s \in Seq(Chars) /\ t = Append(s, c) /\ StartsWith(s, o)
          /\ n \in Nat /\ n >= 1 /\ o \in Seq(Chars)
      <4>1. n \in 1..Len(q) /\ n \in 1..Len(p)
        BY <1>1, <2>1, <2>4
      <4>2. s \in Seq(Chars) /\ o \in Seq(Chars)
        BY <4>1, ElementOfSeq
      <4>3. t = Append(s, c)
        BY <2>1, <2>4
      <4> QED
        BY <4>1, <4>2, <4>3 DEF Begins
    <3> HIDE DEF s, t, o
    <3>3. StartsWith(t, o)
      <4>1. Len(t) = Len(s) + 1 /\ \A i \in 1..Len(s) : t[i] = s[i]
        BY <3>2, AppendProperties
      <4>2. Len(o) <= Len(s) /\ Len(s) \in Nat /\ Len(o) \in Nat /\ \A i \in 1..Len(o) : o[i] = s[i]
        BY <3>2 DEF StartsWith
      <4> HIDE DEF n
      <4> QED
        BY <4>1, <4>2 DEF StartsWith
    <3>4. \A i \in 1..(n - 1) : x[i] = p[i]
      <4>1. \A i \in 1..(n - 1) : x[i] = q[i] /\ q[i] = p[i]
        BY <2>1, <2>4 DEF Begins
      <4> QED
        BY <4>1
    <3>5. Len(p) = n /\ Len(x) = n
      BY <2>1, <2>4
    <3> QED
      BY <1>1, <3>1, <3>2, <3>3, <3>4, <3>5 DEF Begins, t, o
  <2> QED
    BY <1>1, <2>2, <2>3, <2>4
<1> QED
  BY <1>2, <1>3

\* The words of a line begin with those of every prefix of it, and after a gap there are
\* more of them or only gap.
LEMMA WordsGoOn ==
  ASSUME NEW b \in Seq(Chars), NEW n \in 0..Len(b), NEW u, u = SubSeq(b, 1, n)
  PROVE  /\ Begins(WordsOf(u), WordsOf(b), AtGap(u))
         /\ AtGap(u) => AtGap(b) \/ Len(WordsOf(b)) > Len(WordsOf(u))
<1> DEFINE z(k) == SubSeq(b, 1, n + k)
           p == WordsOf(u)
           m == Len(b) - n
           Good(k) == /\ Begins(p, WordsOf(z(k)), AtGap(u))
                      /\ AtGap(u) => AtGap(z(k)) \/ Len(WordsOf(z(k))) > Len(p)
           P == {k \in 0..m : Good(k)}
<1>1. Len(b) \in Nat /\ n \in Nat /\ m \in Nat /\ n + 0 = n /\ n + m = Len(b)
  OBVIOUS
<1>2. /\ u \in Seq(Chars) /\ p \in Seq(Seq(Chars))
  BY PrefixGrows, WordsIs
<1>3. 0 \in P
  <2>1. z(0) = u
    BY <1>1
  <2>2. Begins(p, p, AtGap(u))
    <3> HIDE DEF p
    <3>1. Len(p) \in Nat /\ \A i \in 1..Len(p) : p[i] \in Seq(Chars)
      BY <1>2, ElementOfSeq
    <3> QED
      BY <3>1 DEF Begins, StartsWith
  <2>3. 0 \in 0..m
    BY <1>1
  <2>4. Good(0)
    BY <2>1, <2>2
  <2> QED
    BY <2>3, <2>4
<1>4. ASSUME NEW k \in 1..m, k - 1 \in P
      PROVE  k \in P
  <2> DEFINE s == z(k - 1)
             c == b[n + k]
             q == WordsOf(s)
             x == WordsOf(Append(s, c))
  <2>1. n + k \in 1..Len(b) /\ (n + k) - 1 = n + (k - 1) /\ n + (k - 1) \in 0..Len(b) /\ k \in 0..m
    BY <1>1
  <2>2. z(k) = Append(s, c) /\ c \in Chars /\ s \in Seq(Chars) /\ z(k) \in Seq(Chars)
    <3> HIDE DEF m
    <3>1. n + k \in 0..Len(b)
      BY <1>1, <2>1
    <3> QED
      BY <2>1, <3>1, PrefixGrows
  <2>3. /\ Begins(p, q, AtGap(u)) /\ (AtGap(u) => AtGap(s) \/ Len(q) > Len(p))
    BY <1>4
  <2> HIDE DEF z, s, c, p, m
  <2>4. q \in Seq(Seq(Chars)) /\ x \in Seq(Seq(Chars))
    BY <2>2, WordsIs
  <2>5. CASE c = Space
    <3>1. x = q /\ AtGap(z(k))
      BY <2>2, <2>5, WordsIs, AppendParts DEF AtGap
    <3> QED
      BY <2>1, <2>2, <2>3, <3>1
  <2>6. CASE c # Space
    <3>1. IF AtGap(s) THEN Started(q, x, c) ELSE Grown(q, x, c)
      BY <2>2, <2>6, WordStarts
    <3> HIDE DEF q, x
    <3>2. Begins(p, x, AtGap(u)) /\ (AtGap(u) => Len(x) > Len(p))
      BY <1>2, <2>2, <2>3, <2>4, <3>1, BeginsGrows
    <3> QED
      BY <2>1, <2>2, <3>2 DEF x
  <2> QED
    BY <2>5, <2>6
<1>5. 0..m \subseteq P
  <2> HIDE DEF P, m
  <2> QED
    BY <1>1, <1>3, <1>4, Induction
<1>6. m \in P
  <2> HIDE DEF P, m
  <2>1. m \in 0..m
    BY <1>1
  <2> QED
    BY <1>5, <2>1
<1>7. z(m) = b
  BY <1>1, PrefixGrows
<1> QED
  BY <1>6, <1>7

\* The words of a line begin with those of every prefix of it.
LEMMA WordsExtend ==
  ASSUME NEW b \in Seq(Chars), NEW n \in 0..Len(b), NEW u, u = SubSeq(b, 1, n)
  PROVE  Begins(WordsOf(u), WordsOf(b), AtGap(u))
BY WordsGoOn

-----------------------------------------------------------------------------
(* Strings that grow                                                       *)

\* A string and one character more.
LEMMA Appended ==
  ASSUME NEW T, NEW u \in Seq(T), NEW c \in T
  PROVE  /\ Append(u, c) \in Seq(T) /\ Append(u, c) # <<>> /\ Len(u) \in Nat
         /\ Len(Append(u, c)) = Len(u) + 1 /\ Append(u, c)[Len(u) + 1] = c
         /\ \A i \in 1..Len(u) : Append(u, c)[i] = u[i]
         /\ Front(Append(u, c)) = u /\ Last(Append(u, c)) = c
<1>1. /\ Append(u, c) \in Seq(T) /\ Append(u, c) # <<>> /\ Len(u) \in Nat
      /\ Len(Append(u, c)) = Len(u) + 1 /\ Append(u, c)[Len(u) + 1] = c
      /\ \A i \in 1..Len(u) : Append(u, c)[i] = u[i]
  BY AppendProperties
<1> QED
  BY <1>1, AppendParts

\* Its last character.
LEMMA LastIs ==
  ASSUME NEW T, NEW u \in Seq(T), u # <<>>
  PROVE  Len(u) \in Nat /\ Len(u) >= 1 /\ Last(u) = u[Len(u)] /\ Last(u) \in T
<1>1. Len(u) \in Nat /\ Len(u) >= 1 /\ Last(u) = u[Len(u)]
  BY DEF Last
<1> QED
  BY <1>1, ElementOfSeq

\* A part of it.
LEMMA PartIs ==
  ASSUME NEW T, NEW s \in Seq(T), NEW i \in Nat, NEW j \in Nat, i >= 1, j <= Len(s), i <= j + 1
  PROVE  /\ SubSeq(s, i, j) \in Seq(T) /\ Len(SubSeq(s, i, j)) = (j + 1) - i
         /\ \A k \in 1..((j + 1) - i) : SubSeq(s, i, j)[k] = s[(i + k) - 1]
<1>1. Len(s) \in Nat /\ \A k \in 1..Len(s) : s[k] \in T
  OBVIOUS
<1> DEFINE n == (j + 1) - i
           p == SubSeq(s, i, j)
<1>2. n \in Nat
  OBVIOUS
<1>3. \A k \in 1..n : (i + k) - 1 \in 1..Len(s)
  BY <1>1
<1>4. p = [k \in 1..n |-> s[(i + k) - 1]]
  <2>1. p = [k \in 1..n |-> s[i + k - 1]]
    OBVIOUS
  <2>2. \A k \in 1..n : i + k - 1 = (i + k) - 1
    OBVIOUS
  <2> QED
    BY <2>1, <2>2
<1> HIDE DEF p, n
<1>5. p \in [1..n -> T]
  BY <1>1, <1>3, <1>4
<1>6. p \in Seq(T) /\ Len(p) = n
  BY <1>2, <1>5
<1> QED
  BY <1>4, <1>6 DEF p, n

\* A part of it stays, and one that reaches its end grows.
LEMMA PartStays ==
  ASSUME NEW T, NEW u \in Seq(T), NEW c \in T, NEW i \in Nat, i >= 1
  PROVE  /\ \A j \in Nat : j <= Len(u) /\ i <= j + 1 => SubSeq(Append(u, c), i, j) = SubSeq(u, i, j)
         /\ i <= Len(u) + 1 => SubSeq(Append(u, c), i, Len(u) + 1) = Append(SubSeq(u, i, Len(u)), c)
<1> DEFINE v == Append(u, c)
           n == Len(u)
<1>1. v \in Seq(T) /\ n \in Nat /\ Len(v) = n + 1 /\ v[n + 1] = c /\ \A k \in 1..n : v[k] = u[k]
  BY Appended
<1> HIDE DEF v
<1>2. ASSUME NEW j \in Nat, j <= n, i <= j + 1
      PROVE  SubSeq(v, i, j) = SubSeq(u, i, j)
  <2> DEFINE a == SubSeq(v, i, j)
             b == SubSeq(u, i, j)
             m == (j + 1) - i
  <2>1. a \in Seq(T) /\ Len(a) = m /\ \A k \in 1..m : a[k] = v[(i + k) - 1]
    BY <1>1, <1>2, PartIs
  <2>2. b \in Seq(T) /\ Len(b) = m /\ \A k \in 1..m : b[k] = u[(i + k) - 1]
    BY <1>1, <1>2, PartIs
  <2>3. \A k \in 1..m : (i + k) - 1 \in 1..n
    BY <1>1, <1>2
  <2> HIDE DEF a, b, n
  <2>4. \A k \in 1..m : a[k] = b[k]
    BY <1>1, <2>1, <2>2, <2>3
  <2> HIDE DEF m
  <2>5. a = b
    BY <2>1, <2>2, <2>4, SeqEqual
  <2> QED
    BY <2>5 DEF a, b
<1>3. ASSUME i <= n + 1
      PROVE  SubSeq(v, i, n + 1) = Append(SubSeq(u, i, n), c)
  <2> DEFINE a == SubSeq(v, i, n + 1)
             b == SubSeq(u, i, n)
             m == (n + 1) - i
             d == Append(b, c)
  <2>1. a \in Seq(T) /\ Len(a) = m + 1 /\ \A k \in 1..(m + 1) : a[k] = v[(i + k) - 1]
    <3>1. n + 1 \in Nat /\ n + 1 <= Len(v) /\ i <= (n + 1) + 1 /\ ((n + 1) + 1) - i = m + 1
      BY <1>1, <1>3
    <3> HIDE DEF n, m
    <3> QED
      BY <1>1, <3>1, PartIs
  <2>2. b \in Seq(T) /\ Len(b) = m /\ \A k \in 1..m : b[k] = u[(i + k) - 1]
    BY <1>1, <1>3, PartIs
  <2>3. m \in Nat /\ (\A k \in 1..m : (i + k) - 1 \in 1..n) /\ (i + (m + 1)) - 1 = n + 1
    BY <1>1, <1>3
  <2> HIDE DEF a, b, n, m
  <2>4. d \in Seq(T) /\ Len(d) = m + 1 /\ d[m + 1] = c /\ \A k \in 1..m : d[k] = b[k]
    BY <2>2, Appended
  <2> HIDE DEF d
  <2>5. \A k \in 1..(m + 1) : a[k] = d[k]
    <3>1. \A k \in 1..m : a[k] = d[k]
      <4>1. \A k \in 1..m : k \in 1..(m + 1)
        BY <2>3
      <4> QED
        BY <1>1, <2>1, <2>2, <2>3, <2>4, <4>1
    <3>2. a[m + 1] = d[m + 1]
      <4>1. m + 1 \in 1..(m + 1)
        BY <2>3
      <4> QED
        BY <1>1, <2>1, <2>3, <2>4, <4>1
    <3>3. \A k \in 1..(m + 1) : k \in 1..m \/ k = m + 1
      BY <2>3
    <3> QED
      BY <3>1, <3>2, <3>3, Zenon
  <2>6. a = d
    BY <2>1, <2>4, <2>5, SeqEqual
  <2> QED
    BY <2>6 DEF a, d, b, n
<1> QED
  BY <1>2, <1>3 DEF v

\* What follows a position grows as well.
LEMMA AfterGrows ==
  ASSUME NEW T, NEW u \in Seq(T), NEW c \in T, NEW m \in 0..Len(u)
  PROVE  After(Append(u, c), m) = Append(After(u, m), c)
<1>1. m + 1 \in Nat /\ m + 1 >= 1 /\ m + 1 <= Len(u) + 1 /\ Len(Append(u, c)) = Len(u) + 1
  BY Appended
<1> QED
  BY <1>1, PartStays DEF After

\* A longer line continues what follows a position, too.
LEMMA AfterStarts ==
  ASSUME NEW T, NEW s \in Seq(T), NEW t \in Seq(T), StartsWith(t, s), NEW m \in 0..Len(s)
  PROVE  /\ StartsWith(After(t, m), After(s, m))
         /\ After(s, m) \in Seq(T) /\ After(t, m) \in Seq(T)
<1>1. Len(s) \in Nat /\ Len(t) \in Nat /\ Len(s) <= Len(t) /\ \A i \in 1..Len(s) : s[i] = t[i]
  BY DEF StartsWith
<1>2. m \in 0..Len(t)
  BY <1>1
<1>3. /\ After(s, m) \in Seq(T) /\ Len(After(s, m)) = Len(s) - m
      /\ \A i \in 1..(Len(s) - m) : After(s, m)[i] = s[m + i]
  BY BeforeAfter, Zenon
<1>4. /\ After(t, m) \in Seq(T) /\ Len(After(t, m)) = Len(t) - m
      /\ \A i \in 1..(Len(t) - m) : After(t, m)[i] = t[m + i]
  BY <1>2, BeforeAfter, Zenon
<1>5. \A i \in 1..(Len(s) - m) : m + i \in 1..Len(s) /\ i \in 1..(Len(t) - m)
  BY <1>1
<1>6. Len(s) - m <= Len(t) - m
  BY <1>1
<1> QED
  BY <1>1, <1>3, <1>4, <1>5, <1>6 DEF StartsWith

\* A prefix is what a string starts with.
LEMMA PrefixIs ==
  ASSUME NEW T, NEW s \in Seq(T), NEW t \in Seq(T)
  PROVE  IsPrefix(s, t) <=> StartsWith(t, s)
<1> DEFINE n == Len(s)
           a == SubSeq(t, 1, n)
<1>1. n \in Nat /\ Len(t) \in Nat /\ SubSeq(s, 1, n) = s
  BY PrefixGrows
<1>2. IsPrefix(s, t) <=> n <= Len(t) /\ s = a
  BY <1>1, Zenon DEF IsPrefix
<1>3. CASE n <= Len(t)
  <2>1. a \in Seq(T) /\ Len(a) = n /\ \A i \in 1..n : a[i] = t[i]
    BY <1>1, <1>3, PrefixGrows
  <2> HIDE DEF a
  <2>2. s = a <=> \A i \in 1..n : s[i] = t[i]
    <3>1. (\A i \in 1..n : s[i] = a[i]) => s = a
      BY <2>1, SeqEqual
    <3> HIDE DEF n
    <3> QED
      BY <2>1, <3>1
  <2> QED
    BY <1>2, <1>3, <2>2 DEF StartsWith
<1>4. CASE ~(n <= Len(t))
  BY <1>2, <1>4 DEF StartsWith
<1> QED
  BY <1>3, <1>4

\* A method without a space is one word.
LEMMA OneWord ==
  ASSUME NEW s \in Seq(Chars), s # <<>>, \A i \in 1..Len(s) : s[i] # Space
  PROVE  WordsOf(s) = <<s>>
<1> DEFINE Clean(u) == \A i \in 1..Len(u) : u[i] # Space
           One(u) == Len(WordsOf(u)) = 1 /\ WordsOf(u)[1] = u
           P == {u \in Seq(Chars) : Clean(u) /\ u # <<>> => One(u)}
<1>1. <<>> \in P
  OBVIOUS
<1>2. ASSUME NEW u \in Seq(Chars), NEW c \in Chars, u \in P
      PROVE  Append(u, c) \in P
  <2> DEFINE v == Append(u, c)
             w == WordsOf(u)
             x == WordsOf(v)
  <2>1. /\ v \in Seq(Chars) /\ Len(v) = Len(u) + 1 /\ v[Len(u) + 1] = c /\ Len(u) \in Nat
        /\ \A i \in 1..Len(u) : v[i] = u[i]
    BY Appended
  <2>2. u # <<>> /\ Clean(u) => One(u)
    BY <1>2
  <2>3. AtGap(u) => Started(w, x, c) \/ c = Space
    BY WordStarts
  <2>4. ~AtGap(u) => Grown(w, x, c) \/ c = Space
    BY WordStarts
  <2>5. u = <<>> => Len(w) = 0 /\ v = <<c>>
    BY WordsIs
  <2>6. u # <<>> => Last(u) = u[Len(u)] /\ Len(u) >= 1
    BY LastIs
  <2> HIDE DEF v, w, x
  <2>7. ASSUME Clean(v) PROVE Len(x) = 1 /\ x[1] = v
    <3>1. c # Space /\ Clean(u)
      BY <2>1, <2>7
    <3>2. CASE u = <<>>
      BY <2>3, <2>5, <3>1, <3>2 DEF AtGap, Started
    <3>3. CASE u # <<>>
      <4>1. ~AtGap(u)
        BY <2>6, <3>1, <3>3 DEF AtGap
      <4>2. Len(w) = 1 /\ w[1] = u
        BY <2>2, <3>1, <3>3 DEF w
      <4> QED
        BY <2>4, <3>1, <4>1, <4>2 DEF Grown, v
    <3> QED
      BY <3>2, <3>3
  <2> QED
    BY <2>1, <2>7 DEF v, x
<1>3. Seq(Chars) \subseteq P
  <2> HIDE DEF P
  <2> QED
    BY <1>1, <1>2, SequenceInduction, ZenonT(60)
<1>4. One(s)
  BY <1>3
<1>5. WordsOf(s) \in Seq(Seq(Chars))
  BY WordsIs
<1> QED
  <2> DEFINE w == WordsOf(s)
  <2>1. w \in Seq(Seq(Chars)) /\ Len(w) = 1 /\ w[1] = s
    BY <1>4, <1>5
  <2> HIDE DEF w
  <2>2. w = <<s>>
    BY <2>1
  <2> QED
    BY <2>2 DEF w

\* The methods are such words.
LEMMA MethodWord ==
  ASSUME NEW m \in Methods
  PROVE  /\ m \in Seq(Chars) /\ Len(m) \in 3..4 /\ WordsOf(m) = <<m>>
         /\ \A i \in 1..Len(m) : IsUpperLetter(m[i])
<1>1. m \in Seq(Chars) /\ Len(m) \in 3..4 /\ \A i \in 1..Len(m) : IsUpperLetter(m[i])
  <2>1. CASE m = GET
    BY <2>1 DEF GET, Chars, IsUpperLetter
  <2>2. CASE m = POST
    BY <2>2 DEF POST, Chars, IsUpperLetter
  <2>3. CASE m = PUT
    BY <2>3 DEF PUT, Chars, IsUpperLetter
  <2>4. CASE m = HEAD
    BY <2>4 DEF HEAD, Chars, IsUpperLetter
  <2> QED
    BY <2>1, <2>2, <2>3, <2>4 DEF Methods
<1>2. \A i \in 1..Len(m) : m[i] # Space
  <2>1. Space \notin 65..90
    BY DEF Space
  <2> QED
    BY <1>1, <2>1, Zenon DEF IsUpperLetter
<1>3. m # <<>>
  BY <1>1
<1> QED
  BY <1>1, <1>2, <1>3, OneWord

-----------------------------------------------------------------------------
(* What the loop has read when it is in a state                            *)

\* The first n characters are letters, and there is one.
LettersTo(x, n) == n >= 1 /\ \A i \in 1..n : IsLetter(x[i])

\* A scheme ends with the colon at a.
Schemed(x, a) == a \in 2..Len(x) /\ x[a] = Colon /\ LettersTo(x, a - 1)

\* What a host is made of.
IsHostCharacter(c) == IsLetter(c) \/ IsDigit(c) \/ c \in {Dot, Hyphen}

\* A host, or a host and a port, without the slash that ends it.
IsAuthority(t, k) ==
  LET parts == Split(t, Colon)
  IN /\ Slash \notin Range(t) /\ Len(parts) = k
     /\ \A c \in Range(parts[1]) : IsHostCharacter(c)
     /\ k = 2 => \A c \in Range(parts[2]) : IsDigit(c)

\* It comes behind a scheme and two slashes.
Hosted(x, a, k) == /\ Schemed(x, a) /\ a + 2 <= Len(x)
                   /\ x[a + 1] = Slash /\ x[a + 2] = Slash
                   /\ IsAuthority(After(x, a + 2), k)

\* The part of a URL that comes before its path.
BeforePath(s, x) ==
  /\ s = "kScheme" => LettersTo(x, Len(x))
  /\ s = "kSchemeSlash" => Schemed(x, Len(x))
  /\ s = "kSchemeDoubleSlash" => Len(x) >= 2 /\ Schemed(x, Len(x) - 1) /\ x[Len(x)] = Slash
  /\ s = "kHost" => \E a \in 2..Len(x) : Hosted(x, a, 1)
  /\ s = "kPort" => \E a \in 2..Len(x) : Hosted(x, a, 2)

\* The states in which it is read.
AuthorityStates == {"kScheme", "kSchemeSlash", "kSchemeDoubleSlash", "kHost", "kPort"}

-----------------------------------------------------------------------------
(* The part before the path                                                *)

\* The parts of a string between colons or others, character by character.
LEMMA SplitGrows ==
  ASSUME NEW s \in Seq(Chars), NEW x \in Chars, NEW c
  PROVE  /\ Split(s, c) \in Seq(Seq(Chars)) /\ Len(Split(s, c)) >= 1
         /\ x # c => Grown(Split(s, c), Split(Append(s, x), c), x)
         /\ x = c => Split(Append(s, x), c) = Append(Split(s, c), <<>>)
<1> DEFINE p == Split(s, c)
           f == Front(p)
           l == Last(p)
<1>1. p \in Parts(c) /\ Split(Append(s, x), c) = SplitTurn(p, x, c)
  BY SplitIs
<1>2. p \in Seq(Seq(Chars)) /\ p # <<>> /\ f \in Seq(Seq(Chars)) /\ l \in Seq(Chars) /\ p = Append(f, l)
  BY <1>1, PartsTyped
<1>3. Len(p) >= 1
  <2> HIDE DEF p
  <2> QED
    BY <1>2
<1>4. x # c => Grown(Append(f, l), Append(f, Append(l, x)), x)
  <2> HIDE DEF f, l
  <2> QED
    BY <1>2, AppendGrown
<1>5. x # c => Split(Append(s, x), c) = Append(f, Append(l, x))
  BY <1>1 DEF SplitTurn
<1>6. x = c => Split(Append(s, x), c) = Append(p, <<>>)
  BY <1>1 DEF SplitTurn
<1> QED
  BY <1>2, <1>3, <1>4, <1>5, <1>6

\* The characters of a string that grows.
LEMMA RangeGrows ==
  ASSUME NEW u \in Seq(Chars), NEW c \in Chars
  PROVE  Range(Append(u, c)) = Range(u) \cup {c}
<1>1. /\ DOMAIN u = 1..Len(u) /\ DOMAIN Append(u, c) = 1..(Len(u) + 1) /\ Len(u) \in Nat
      /\ Append(u, c)[Len(u) + 1] = c /\ \A i \in 1..Len(u) : Append(u, c)[i] = u[i]
  BY Appended
<1>2. 1..(Len(u) + 1) = (1..Len(u)) \cup {Len(u) + 1}
  BY <1>1
<1> QED
  BY <1>1, <1>2 DEF Range

\* The empty host.
LEMMA NoAuthority == IsAuthority(<<>>, 1)
<1> DEFINE e == <<>>
           p == <<e>>
<1>1. Split(e, Colon) = p
  BY SplitIs
<1>2. Range(e) = {} /\ Len(p) = 1 /\ p[1] = e
  BY DEF Range
<1> HIDE DEF p, e
<1>3. IsAuthority(e, 1)
  BY <1>1, <1>2 DEF IsAuthority
<1> QED
  BY <1>3 DEF e

\* None of their characters is a colon or a slash.
LEMMA HostCharacters ==
  ASSUME NEW c \in Chars, IsHostCharacter(c) \/ IsDigit(c)
  PROVE  c # Colon /\ c # Slash /\ c # Space
<1>1. \/ c \in 65..90 \/ c \in 97..122 \/ c \in 48..57
      \/ c = 46 \/ c = 45
  BY DEF IsHostCharacter, IsLetter, IsUpperLetter, IsDigit, Dot, Hyphen
<1>2. Colon = 58 /\ Slash = 47 /\ Space = 32
  BY DEF Colon, Slash, Space
<1> QED
  BY <1>1, <1>2

\* A host grows by the characters of hosts, and a port by digits.
LEMMA AuthorityGrows ==
  ASSUME NEW t \in Seq(Chars), NEW k \in 1..2, IsAuthority(t, k), NEW c \in Chars,
         IF k = 1 THEN IsHostCharacter(c) ELSE IsDigit(c)
  PROVE  IsAuthority(Append(t, c), k)
<1> DEFINE p == Split(t, Colon)
           q == Split(Append(t, c), Colon)
<1>1. c # Colon /\ c # Slash
  BY HostCharacters
<1>2. p \in Seq(Seq(Chars)) /\ Grown(p, q, c)
  BY <1>1, SplitGrows
<1>3. /\ Slash \notin Range(t) /\ Len(p) = k /\ \A x \in Range(p[1]) : IsHostCharacter(x)
      /\ k = 2 => \A x \in Range(p[2]) : IsDigit(x)
  BY DEF IsAuthority
<1>4. Range(Append(t, c)) = Range(t) \cup {c}
  BY RangeGrows
<1> HIDE DEF p, q
<1>5. p[k] \in Seq(Chars) /\ Range(Append(p[k], c)) = Range(p[k]) \cup {c}
  <2>1. p[k] \in Seq(Chars)
    BY <1>2, <1>3, ElementOfSeq
  <2> QED
    BY <2>1, RangeGrows
<1>6. Len(q) = k /\ q[k] = Append(p[k], c) /\ (k = 2 => q[1] = p[1])
  BY <1>2, <1>3 DEF Grown
<1>7. Slash \notin Range(Append(t, c))
  BY <1>1, <1>3, <1>4
<1>8. CASE k = 1
  BY <1>3, <1>5, <1>6, <1>7, <1>8 DEF IsAuthority, q
<1>9. CASE k = 2
  BY <1>3, <1>5, <1>6, <1>7, <1>9 DEF IsAuthority, q
<1> QED
  BY <1>8, <1>9

\* A port begins after a colon.
LEMMA PortBegins ==
  ASSUME NEW t \in Seq(Chars), IsAuthority(t, 1)
  PROVE  IsAuthority(Append(t, Colon), 2)
<1> DEFINE p == Split(t, Colon)
           e == <<>>
           q == Append(p, e)
<1>1. Colon \in Chars /\ Colon # Slash
  BY DEF Colon, Chars, Slash
<1>2. p \in Seq(Seq(Chars)) /\ Split(Append(t, Colon), Colon) = q
  BY <1>1, SplitGrows
<1>3. Slash \notin Range(t) /\ Len(p) = 1 /\ \A x \in Range(p[1]) : IsHostCharacter(x)
  BY DEF IsAuthority
<1>4. Range(Append(t, Colon)) = Range(t) \cup {Colon}
  BY <1>1, RangeGrows
<1>5. e \in Seq(Chars) /\ Range(e) = {}
  BY DEF Range
<1> HIDE DEF p, e
<1>6. Len(q) = 2 /\ q[2] = e /\ q[1] = p[1]
  <2> DEFINE T == Seq(Chars)
  <2> HIDE DEF T
  <2>1. p \in Seq(T) /\ e \in T
    BY <1>2, <1>5 DEF T
  <2>2. Len(q) = Len(p) + 1 /\ q[Len(p) + 1] = e /\ \A i \in 1..Len(p) : q[i] = p[i]
    BY <2>1, Appended
  <2> HIDE DEF q
  <2> QED
    BY <1>3, <2>2
<1> HIDE DEF q
<1> QED
  BY <1>1, <1>2, <1>3, <1>4, <1>5, <1>6 DEF IsAuthority

\* A scheme stays when the URL grows.
LEMMA SchemeStays ==
  ASSUME NEW x \in Seq(Chars), NEW c \in Chars, NEW a, Schemed(x, a)
  PROVE  Schemed(Append(x, c), a)
<1>1. Len(x) \in Nat /\ Len(Append(x, c)) = Len(x) + 1 /\ \A i \in 1..Len(x) : Append(x, c)[i] = x[i]
  BY Appended
<1>2. a \in 2..Len(x) /\ x[a] = Colon /\ a - 1 >= 1 /\ \A i \in 1..(a - 1) : IsLetter(x[i])
  BY DEF Schemed, LettersTo
<1>3. \A i \in 1..(a - 1) : i \in 1..Len(x)
  BY <1>1, <1>2
<1> QED
  BY <1>1, <1>2, <1>3 DEF Schemed, LettersTo

\* A host stays when its authority grows.
LEMMA HostGrows ==
  ASSUME NEW x \in Seq(Chars), NEW c \in Chars, NEW a, NEW k, Hosted(x, a, k), NEW m,
         IsAuthority(Append(After(x, a + 2), c), m)
  PROVE  Hosted(Append(x, c), a, m)
<1>1. /\ Len(x) \in Nat /\ Len(Append(x, c)) = Len(x) + 1
      /\ \A i \in 1..Len(x) : Append(x, c)[i] = x[i]
  BY Appended
<1>2. a \in 2..Len(x) /\ a + 2 <= Len(x) /\ x[a + 1] = Slash /\ x[a + 2] = Slash /\ Schemed(x, a)
  BY DEF Hosted, Schemed
<1>3. After(Append(x, c), a + 2) = Append(After(x, a + 2), c)
  BY <1>1, <1>2, AfterGrows
<1>4. a + 1 \in 1..Len(x) /\ a + 2 \in 1..Len(x)
  BY <1>1, <1>2
<1>5. Schemed(Append(x, c), a)
  BY <1>2, SchemeStays
<1>6. a + 2 <= Len(Append(x, c))
  BY <1>1, <1>2
<1>7. Append(x, c)[a + 1] = Slash /\ Append(x, c)[a + 2] = Slash
  BY <1>1, <1>2, <1>4, Zenon
<1> QED
  BY <1>3, <1>5, <1>6, <1>7, Zenon DEF Hosted

\* What precedes a path grows to what precedes a path.
LEMMA BeforePathGrows ==
  ASSUME NEW s \in AuthorityStates, NEW x \in Seq(Chars), x # <<>>, BeforePath(s, x), NEW c \in Chars,
         NEW n, n = NextInAuthority(s, c), n \in AuthorityStates
  PROVE  BeforePath(n, Append(x, c))
<1> DEFINE y == Append(x, c)
<1>1. /\ y \in Seq(Chars) /\ Len(y) = Len(x) + 1 /\ y[Len(x) + 1] = c /\ Len(x) \in Nat
      /\ \A i \in 1..Len(x) : y[i] = x[i]
  BY Appended
<1>2. Len(x) >= 1
  BY LastIs
<1> HIDE DEF y
<1>3. CASE s = "kScheme"
  <2>1. LettersTo(x, Len(x))
    BY <1>3 DEF BeforePath
  <2>2. \/ n = "kScheme" /\ IsLetter(c)
        \/ n = "kSchemeSlash" /\ c = Colon
    BY <1>3 DEF NextInAuthority, AuthorityStates
  <2>3. CASE n = "kScheme"
    <3>1. \A i \in 1..(Len(x) + 1) : i \in 1..Len(x) \/ i = Len(x) + 1
      BY <1>1
    <3>2. LettersTo(y, Len(y))
      BY <1>1, <2>1, <2>2, <2>3, <3>1 DEF LettersTo
    <3> QED
      BY <2>3, <3>2 DEF BeforePath, y
  <2>4. CASE n = "kSchemeSlash"
    <3>1. Len(y) - 1 = Len(x)
      BY <1>1
    <3>2. LettersTo(y, Len(x))
      BY <1>1, <2>1 DEF LettersTo
    <3>3. Schemed(y, Len(y))
      BY <1>1, <1>2, <2>2, <2>4, <3>1, <3>2 DEF Schemed
    <3> QED
      BY <2>4, <3>3 DEF BeforePath, y
  <2> QED
    BY <2>2, <2>3, <2>4
<1>4. CASE s = "kSchemeSlash"
  <2>1. n = "kSchemeDoubleSlash" /\ c = Slash
    BY <1>4 DEF NextInAuthority, AuthorityStates
  <2>2. Schemed(y, Len(x))
    BY <1>4, SchemeStays DEF BeforePath, y
  <2> QED
    BY <1>1, <1>2, <2>1, <2>2 DEF BeforePath, y
<1>5. CASE s = "kSchemeDoubleSlash"
  <2>1. n = "kHost" /\ c = Slash
    BY <1>5 DEF NextInAuthority, AuthorityStates
  <2>2. Schemed(x, Len(x) - 1) /\ x[Len(x)] = Slash
    BY <1>5 DEF BeforePath
  <2> DEFINE a == Len(x) - 1
  <2>3. Schemed(y, a) /\ a \in 2..Len(x) /\ a + 2 = Len(y) /\ a + 1 = Len(x)
    BY <1>1, <1>2, <2>2, SchemeStays DEF Schemed, y
  <2>4. After(y, a + 2) = <<>>
    <3> DEFINE e == Len(y)
    <3>1. e \in 0..Len(y) /\ Len(y) - e = 0
      BY <1>1
    <3> HIDE DEF e
    <3>2. After(y, e) \in Seq(Chars) /\ Len(After(y, e)) = 0
      BY <1>1, <3>1, BeforeAfter
    <3>3. After(y, a + 2) = After(y, e)
      BY <2>3 DEF e
    <3> QED
      BY <3>2, <3>3
  <2>5. Hosted(y, a, 1)
    BY <1>1, <1>2, <2>1, <2>2, <2>3, <2>4, NoAuthority DEF Hosted
  <2>6. a \in 2..Len(y)
    BY <1>1, <2>3
  <2> HIDE DEF a
  <2> QED
    BY <2>1, <2>5, <2>6 DEF BeforePath, y
<1>6. CASE s \in {"kHost", "kPort"}
  <2> DEFINE k == IF s = "kHost" THEN 1 ELSE 2
             m == IF n = "kHost" THEN 1 ELSE 2
  <2>1. PICK a \in 2..Len(x) : Hosted(x, a, k)
    BY <1>6 DEF BeforePath
  <2> DEFINE t == After(x, a + 2)
  <2>2. t \in Seq(Chars) /\ IsAuthority(t, k)
    <3>1. a + 2 \in 0..Len(x)
      BY <1>1, <2>1 DEF Hosted
    <3> QED
      BY <2>1, <3>1, BeforeAfter DEF Hosted
  <2>3. \/ s = "kHost" /\ n = "kHost" /\ IsHostCharacter(c)
        \/ s = "kHost" /\ n = "kPort" /\ c = Colon
        \/ s = "kPort" /\ n = "kPort" /\ IsDigit(c)
    BY <1>6 DEF NextInAuthority, AuthorityStates, IsHostCharacter
  <2>4. k \in 1..2
    OBVIOUS
  <2> HIDE DEF t
  <2>5. IsAuthority(Append(t, c), m)
    <3>1. CASE s = n
      BY <2>2, <2>3, <2>4, <3>1, AuthorityGrows
    <3>2. CASE s # n
      BY <2>2, <2>3, <3>2, PortBegins
    <3> QED
      BY <3>1, <3>2
  <2> HIDE DEF k, m
  <2>6. Hosted(y, a, m)
    BY <2>1, <2>5, HostGrows DEF t, y
  <2>7. a \in 2..Len(y)
    BY <1>1, <2>1
  <2> QED
    BY <2>3, <2>6, <2>7 DEF BeforePath, m, y
<1> QED
  BY <1>3, <1>4, <1>5, <1>6 DEF AuthorityStates

-----------------------------------------------------------------------------
(* Where the path starts                                                   *)

\* scheme://host or scheme://host:port and a slash, the first of the path.
HasHost(u, colon, rest, slash, authority) ==
  /\ colon > 1 /\ \A i \in 1..(colon - 1) : IsLetter(u[i])
  /\ IsPrefix(<<Slash, Slash>>, After(u, colon)) /\ slash > 0
  /\ \A c \in Range(authority[1]) : IsLetter(c) \/ IsDigit(c) \/ c \in {Dot, Hyphen}
  /\ Len(authority) <= 2
  /\ Len(authority) = 2 => \A c \in Range(authority[2]) : IsDigit(c)

\* The parts of a URL that these are about.
AreHostParts(u, colon, rest, slash, authority) ==
  /\ u \in Seq(Chars) /\ colon = Find(u, Colon) /\ rest = After(u, colon + 2)
  /\ slash = Find(rest, Slash) /\ authority = Split(Before(rest, slash), Colon)

\* A path starts at the front or behind a host.
LEMMA PathStartIs ==
  ASSUME NEW u, NEW colon, NEW rest, NEW slash, NEW authority,
         AreHostParts(u, colon, rest, slash, authority)
  PROVE  /\ u[1] = Slash => PathStart(u) = 1
         /\ u[1] # Slash /\ HasHost(u, colon, rest, slash, authority) =>
              PathStart(u) = colon + 2 + slash
         /\ u[1] # Slash /\ ~HasHost(u, colon, rest, slash, authority) => PathStart(u) = 0
<1>1. PathStart(u) = CASE u[1] = Slash -> 1
                       [] HasHost(u, colon, rest, slash, authority) -> colon + 2 + slash
                       [] OTHER -> 0
  BY Zenon DEF PathStart, HasHost, AreHostParts
<1>2. ~(u[1] = Slash /\ HasHost(u, colon, rest, slash, authority))
  <2> SUFFICES ASSUME u[1] = Slash, HasHost(u, colon, rest, slash, authority) PROVE FALSE
    OBVIOUS
  <2>1. colon \in Nat
    BY FindIs DEF AreHostParts
  <2>2. colon > 1 /\ \A i \in 1..(colon - 1) : IsLetter(u[i])
    BY DEF HasHost
  <2>3. IsLetter(Slash)
    BY <2>1, <2>2
  <2> QED
    BY <2>3 DEF IsLetter, IsUpperLetter, Slash
<1>3. CASE u[1] = Slash
  BY <1>1, <1>2, <1>3, Zenon
<1>4. CASE u[1] # Slash /\ HasHost(u, colon, rest, slash, authority)
  BY <1>1, <1>4, Zenon
<1>5. CASE u[1] # Slash /\ ~HasHost(u, colon, rest, slash, authority)
  BY <1>1, <1>5, Zenon
<1> QED
  BY <1>3, <1>4, <1>5, Zenon

\* A URL that begins with its path.
LEMMA PathAtFront ==
  ASSUME NEW u \in Seq(Chars), u[1] = Slash
  PROVE  PathStart(u) = 1
<1> DEFINE colon == Find(u, Colon)
           rest == After(u, colon + 2)
           slash == Find(rest, Slash)
           authority == Split(Before(rest, slash), Colon)
<1>1. AreHostParts(u, colon, rest, slash, authority)
  BY DEF AreHostParts
<1> HIDE DEF colon, rest, slash, authority
<1> QED
  BY <1>1, PathStartIs

\* Two slashes.
LEMMA TwoSlashes ==
  ASSUME NEW t \in Seq(Chars)
  PROVE  IsPrefix(<<Slash, Slash>>, t) <=> Len(t) >= 2 /\ t[1] = Slash /\ t[2] = Slash
<1> DEFINE s == <<Slash, Slash>>
<1>1. s \in Seq(Chars) /\ Len(s) = 2 /\ s[1] = Slash /\ s[2] = Slash
  BY DEF Slash, Chars
<1> HIDE DEF s
<1>2. IsPrefix(s, t) <=> StartsWith(t, s)
  BY <1>1, PrefixIs
<1>3. StartsWith(t, s) <=> Len(t) >= 2 /\ t[1] = Slash /\ t[2] = Slash
  BY <1>1 DEF StartsWith
<1> QED
  BY <1>2, <1>3 DEF s

\* A scheme and a host, as the loop has read them.
LEMMA SchemeIs ==
  ASSUME NEW x \in Seq(Chars), NEW a, NEW k, Hosted(x, a, k)
  PROVE  /\ a \in 2..Len(x) /\ a + 2 <= Len(x) /\ Len(x) \in Nat
         /\ x[a] = Colon /\ x[a + 1] = Slash /\ x[a + 2] = Slash
         /\ \A i \in 1..(a - 1) : IsLetter(x[i]) /\ x[i] # Colon /\ x[i] # Slash
         /\ IsAuthority(After(x, a + 2), k) /\ After(x, a + 2) \in Seq(Chars)
<1>1. a \in 2..Len(x) /\ x[a] = Colon /\ (\A i \in 1..(a - 1) : IsLetter(x[i])) /\ a + 2 <= Len(x)
  BY DEF Hosted, Schemed, LettersTo
<1>2. Len(x) \in Nat
  OBVIOUS
<1>3. ASSUME NEW i \in 1..(a - 1)
      PROVE  x[i] # Colon /\ x[i] # Slash
  <2>1. x[i] \in Chars /\ IsLetter(x[i])
    BY <1>1, <1>2, ElementOfSeq
  <2>2. IsHostCharacter(x[i])
    BY <2>1 DEF IsHostCharacter
  <2> QED
    BY <2>1, <2>2, HostCharacters
<1>4. a + 2 \in 0..Len(x)
  BY <1>1, <1>2
<1>5. After(x, a + 2) \in Seq(Chars)
  BY <1>4, BeforeAfter
<1> QED
  BY <1>1, <1>2, <1>3, <1>5 DEF Hosted

\* The first slash behind a host is where the path starts.
LEMMA PathBegins ==
  ASSUME NEW x \in Seq(Chars), NEW a, NEW k \in 1..2, Hosted(x, a, k)
  PROVE  PathStart(Append(x, Slash)) = Len(x) + 1
<1> DEFINE y == Append(x, Slash)
           t == After(x, a + 2)
           rest == Append(t, Slash)
           parts == Split(t, Colon)
<1>1. Slash \in Chars /\ Slash # Colon
  BY DEF Slash, Chars, Colon
<1>2. /\ a \in 2..Len(x) /\ a + 2 <= Len(x) /\ Len(x) \in Nat
      /\ x[a] = Colon /\ x[a + 1] = Slash /\ x[a + 2] = Slash
      /\ \A i \in 1..(a - 1) : IsLetter(x[i]) /\ x[i] # Colon /\ x[i] # Slash
      /\ IsAuthority(t, k) /\ t \in Seq(Chars)
  BY SchemeIs
<1>3. /\ y \in Seq(Chars) /\ Len(y) = Len(x) + 1 /\ \A i \in 1..Len(x) : y[i] = x[i]
  BY <1>1, Appended
<1>4. rest = After(y, a + 2) /\ Len(t) = Len(x) - (a + 2)
  <2>1. a + 2 \in 0..Len(x)
    BY <1>2
  <2> DEFINE e == a + 2
  <2> HIDE DEF e
  <2>2. After(Append(x, Slash), e) = Append(After(x, e), Slash) /\ Len(After(x, e)) = Len(x) - e
    BY <1>1, <2>1, AfterGrows, BeforeAfter DEF e
  <2> QED
    BY <2>2 DEF e
<1>5. /\ \A i \in 1..Len(t) : t[i] # Slash
  BY <1>2 DEF IsAuthority, Range
<1> HIDE DEF y, t, rest
<1>6. /\ rest \in Seq(Chars) /\ Len(rest) = Len(t) + 1 /\ rest[Len(t) + 1] = Slash /\ Len(t) \in Nat
      /\ \A i \in 1..Len(t) : rest[i] = t[i]
  BY <1>1, <1>2, Appended DEF rest
<1>7. Find(y, Colon) = a
  <2>1. a \in 1..Len(y) /\ a \in 1..Len(x) /\ \A i \in 1..(a - 1) : i \in 1..Len(x)
    BY <1>2, <1>3
  <2>2. y[a] = Colon /\ \A i \in 1..(a - 1) : y[i] # Colon
    BY <1>2, <1>3, <2>1, Zenon
  <2> QED
    BY <1>3, <2>1, <2>2, FoundAt
<1>8. Find(rest, Slash) = Len(t) + 1
  <2> DEFINE m == Len(t) + 1
  <2>1. m \in 1..Len(rest) /\ rest[m] = Slash /\ \A i \in 1..(m - 1) : rest[i] # Slash
    BY <1>5, <1>6
  <2> HIDE DEF m
  <2>2. Find(rest, Slash) = m
    BY <1>6, <2>1, FoundAt
  <2> QED
    BY <2>2 DEF m
<1>9. Before(rest, Len(t) + 1) = t
  <2>1. Before(rest, Len(t) + 1) = SubSeq(rest, 1, Len(t))
    BY <1>6 DEF Before
  <2>2. Len(t) \in 0..Len(rest)
    BY <1>6
  <2>3. SubSeq(rest, 1, Len(t)) = t
    <3> DEFINE z == SubSeq(rest, 1, Len(t))
    <3>1. z \in Seq(Chars) /\ Len(z) = Len(t) /\ \A i \in 1..Len(t) : z[i] = rest[i]
      BY <1>6, <2>2, PrefixGrows
    <3> HIDE DEF z
    <3>2. z = t
      BY <1>2, <1>6, <3>1, SeqEqual
    <3> QED
      BY <3>2 DEF z
  <2> QED
    BY <2>1, <2>3
<1>10. IsPrefix(<<Slash, Slash>>, After(y, a))
  <2> DEFINE z == After(y, a)
  <2>1. a \in 0..Len(y)
    BY <1>2, <1>3
  <2>2. z \in Seq(Chars) /\ Len(z) = Len(y) - a /\ \A i \in 1..(Len(y) - a) : z[i] = y[a + i]
    BY <1>3, <2>1, BeforeAfter, Zenon
  <2> HIDE DEF z
  <2>3. Len(z) >= 2 /\ 1 \in 1..(Len(y) - a) /\ 2 \in 1..(Len(y) - a)
    BY <1>2, <1>3, <2>2
  <2>4. a + 1 \in 1..Len(x) /\ a + 2 \in 1..Len(x)
    BY <1>2
  <2>5. z[1] = Slash /\ z[2] = Slash
    BY <1>2, <1>3, <2>2, <2>3, <2>4
  <2> QED
    BY <2>2, <2>3, <2>5, TwoSlashes DEF z
<1>11. y[1] # Slash
  BY <1>2, <1>3
<1>12. HasHost(y, a, rest, Len(t) + 1, parts)
  <2>1. a > 1 /\ \A i \in 1..(a - 1) : IsLetter(y[i])
    BY SMTT(30), <1>2, <1>3
  <2>2. Len(t) + 1 > 0
    BY <1>6
  <2>3. /\ Len(parts) = k /\ \A c \in Range(parts[1]) : IsLetter(c) \/ IsDigit(c) \/ c \in {Dot, Hyphen}
        /\ k = 2 => \A c \in Range(parts[2]) : IsDigit(c)
    BY <1>2 DEF IsAuthority, IsHostCharacter
  <2>4. k <= 2
    OBVIOUS
  <2> HIDE DEF parts
  <2> QED
    BY <1>10, <2>1, <2>2, <2>3, <2>4 DEF HasHost
<1>13. PathStart(y) = a + 2 + (Len(t) + 1)
  <2> DEFINE e == Len(t) + 1
  <2>1. Find(rest, Slash) = e /\ Before(rest, e) = t /\ HasHost(y, a, rest, e, parts)
    BY <1>8, <1>9, <1>12
  <2> HIDE DEF e
  <2>2. AreHostParts(y, a, rest, e, parts)
    BY <1>3, <1>4, <1>7, <2>1 DEF AreHostParts
  <2>3. PathStart(y) = a + 2 + e
    BY <1>11, <2>1, <2>2, PathStartIs
  <2> QED
    BY <2>3 DEF e
<1>14. a + 2 + (Len(t) + 1) = Len(x) + 1
  BY <1>2, <1>4, <1>6
<1> QED
  BY <1>13, <1>14 DEF y

\* Where it starts does not change when the URL grows.
LEMMA PathStays ==
  ASSUME NEW x \in Seq(Chars), NEW y \in Seq(Chars), StartsWith(y, x), x # <<>>, PathStart(x) > 0
  PROVE  PathStart(y) = PathStart(x)
<1>1. /\ Len(x) >= 1 /\ Len(x) \in Nat /\ Len(y) \in Nat /\ Len(x) <= Len(y)
      /\ \A i \in 1..Len(x) : y[i] = x[i]
  BY LastIs DEF StartsWith
<1>2. y[1] = x[1]
  BY <1>1
<1>3. CASE x[1] = Slash
  <2> QED
    BY <1>2, <1>3, PathAtFront
<1>4. CASE x[1] # Slash
  <2> DEFINE a == Find(x, Colon)
             rest == After(x, a + 2)
             more == After(y, a + 2)
             slash == Find(rest, Slash)
             host == Before(rest, slash)
             parts == Split(host, Colon)
  <2>1. AreHostParts(x, a, rest, slash, parts)
    BY DEF AreHostParts
  <2>2. HasHost(x, a, rest, slash, parts)
    <3> HIDE DEF a, rest, slash, parts
    <3>1. SUFFICES ASSUME ~HasHost(x, a, rest, slash, parts) PROVE FALSE
      OBVIOUS
    <3>2. PathStart(x) = 0
      BY <1>4, <2>1, <3>1, PathStartIs
    <3> QED
      BY <3>2
  <2>3. PathStart(x) = a + 2 + slash
    <3> HIDE DEF a, rest, slash, parts
    <3> QED
      BY <1>4, <2>1, <2>2, PathStartIs
  <2>4. /\ a > 1 /\ (\A i \in 1..(a - 1) : IsLetter(x[i])) /\ IsPrefix(<<Slash, Slash>>, After(x, a))
        /\ slash > 0
    <3> HIDE DEF a, rest, slash, parts
    <3> QED
      BY <2>2 DEF HasHost
  <2>5. a # 0
    BY <2>4
  <2>6. /\ Find(y, Colon) = a /\ StartsWith(After(y, a), After(x, a))
        /\ After(x, a) \in Seq(Chars) /\ After(y, a) \in Seq(Chars)
    BY <2>5, FoundInStart
  <2>7. a \in 1..Len(x)
    BY <2>5, FindIs
  <2> HIDE DEF a
  <2>8. Len(After(x, a)) >= 2 /\ Len(After(x, a)) = Len(x) - a
    <3>1. a \in 0..Len(x)
      BY <1>1, <2>7
    <3>2. Len(After(x, a)) >= 2
      BY <2>4, <2>6, TwoSlashes
    <3> QED
      BY <3>1, <3>2, BeforeAfter
  <2>9. IsPrefix(<<Slash, Slash>>, After(y, a))
    <3> DEFINE s == After(x, a)
               t == After(y, a)
    <3>1. Len(s) >= 2 /\ s[1] = Slash /\ s[2] = Slash
      BY <2>4, <2>6, TwoSlashes
    <3>2. s \in Seq(Chars) /\ t \in Seq(Chars) /\ StartsWith(t, s)
      BY <2>6
    <3> HIDE DEF s, t
    <3>3. Len(t) >= 2 /\ t[1] = Slash /\ t[2] = Slash
      BY <3>1, <3>2 DEF StartsWith
    <3>4. IsPrefix(<<Slash, Slash>>, t)
      BY <3>2, <3>3, TwoSlashes
    <3> QED
      BY <3>4 DEF t
  <2>10. a + 2 \in 0..Len(x)
    BY <1>1, <2>7, <2>8
  <2>11. StartsWith(more, rest) /\ rest \in Seq(Chars) /\ more \in Seq(Chars)
    <3> DEFINE e == a + 2
    <3> HIDE DEF e
    <3>1. /\ StartsWith(After(y, e), After(x, e))
          /\ After(x, e) \in Seq(Chars) /\ After(y, e) \in Seq(Chars)
      BY <2>10, AfterStarts DEF e
    <3> QED
      BY <3>1 DEF e
  <2> HIDE DEF rest, more
  <2>12. slash # 0
    BY <2>4
  <2>13. Find(more, Slash) = slash /\ Before(more, slash) = host
    BY <2>11, <2>12, FoundInStart
  <2>14. HasHost(y, a, more, slash, parts)
    <3>1. \A i \in 1..(a - 1) : IsLetter(y[i])
      BY <1>1, <2>4, <2>7
    <3> HIDE DEF slash, parts
    <3> QED
      BY <2>2, <2>9, <3>1 DEF HasHost
  <2>15. PathStart(y) = a + 2 + slash
    <3>1. y[1] # Slash
      BY <1>2, <1>4
    <3>2. AreHostParts(y, a, more, slash, parts)
      BY <2>6, <2>13 DEF AreHostParts, more
    <3> HIDE DEF slash, parts
    <3> QED
      BY <2>14, <3>1, <3>2, PathStartIs
  <2> QED
    BY <2>3, <2>15
<1> QED
  BY <1>3, <1>4

-----------------------------------------------------------------------------
(* The path and the version                                                *)

\* The path of the URL x lies between two positions of the text.
PathIs(u, x, first, last) ==
  LET k == PathStart(x)
  IN /\ k \in 1..Len(x) /\ x[k] = Slash
     /\ first \in 1..last /\ last \in 1..Len(u)
     /\ SubSeq(u, first, last) = SubSeq(x, k, Len(x))

\* A path that is not complex.
Quiet(t) ==
  /\ \A i \in 1..Len(t) : t[i] \notin {Question, Percent}
  /\ \A i \in 1..(Len(t) - 1) : t[i] = Slash => t[i + 1] \notin {Slash, Dot}

\* HTT and any number of P, n characters in all.
IsName(v, n) == n >= 3 /\ v[1] = 72 /\ v[2] = 84 /\ v[3] = 84 /\ \A i \in 4..n : v[i] = 80

\* The name ends with the slash at a.
Named(v, a) == a \in 4..Len(v) /\ v[a] = Slash /\ IsName(v, a - 1)

\* One digit or two lie between the slash at a and the place d.
Major(v, a, d, n) ==
  /\ Named(v, a) /\ d \in {a + 2, a + 3} /\ d - 1 <= Len(v)
  /\ \A i \in (a + 1)..(d - 1) : IsDigit(v[i])
  /\ n = IF d = a + 2 THEN v[a + 1] - 48 ELSE ((v[a + 1] - 48) * 10 + v[a + 2]) - 48

\* A dot follows, and one digit.
Minor(v, d, n) == d + 1 = Len(v) /\ v[d] = Dot /\ IsDigit(v[d + 1]) /\ n = v[d + 1] - 48

\* The part of a version that comes before its minor digits.
BeforeMinor(s, v, n) ==
  /\ s = "kHT" => Len(v) = 1 /\ v[1] = 72
  /\ s = "kHTT" => Len(v) = 2 /\ v[1] = 72 /\ v[2] = 84
  /\ s = "kHTTP" => IsName(v, Len(v))
  /\ s = "kFirstMajorDigit" => Named(v, Len(v))
  /\ s = "kMajorDigit" => Major(v, Len(v) - 1, Len(v) + 1, n)
  /\ s = "kVersionDot" => Major(v, Len(v) - 2, Len(v) + 1, n)
  /\ s = "kFirstMinorDigit" => v[Len(v)] = Dot /\ \E a \in 4..Len(v) : Major(v, a, Len(v), n)

\* The states in which the path is read, and the version.
PathStates == {"kAfterSlashInUrl", "kCheckUrl", "kUrl"}
VersionStates == {"kHT", "kHTT", "kHTTP", "kFirstMajorDigit", "kMajorDigit", "kVersionDot",
                  "kFirstMinorDigit"}

\* A path begins with the slash behind its host.
LEMMA PathIsNew ==
  ASSUME NEW u \in Seq(Chars), NEW x \in Seq(Chars), PathStart(Append(x, Slash)) = Len(x) + 1
  PROVE  PathIs(Append(u, Slash), Append(x, Slash), Len(u) + 1, Len(u) + 1)
<1> DEFINE v == Append(u, Slash)
           y == Append(x, Slash)
           m == Len(u) + 1
           n == Len(x) + 1
<1>1. Slash \in Chars
  BY DEF Slash, Chars
<1>2. /\ v \in Seq(Chars) /\ Len(v) = m /\ v[m] = Slash /\ m \in Nat /\ m >= 1
      /\ y \in Seq(Chars) /\ Len(y) = n /\ y[n] = Slash /\ n \in Nat /\ n >= 1
  BY <1>1, Appended
<1> HIDE DEF v, y, m, n
<1>3. SubSeq(v, m, m) = SubSeq(y, n, n)
  <2>1. SubSeq(v, m, m) \in Seq(Chars) /\ Len(SubSeq(v, m, m)) = 1 /\ SubSeq(v, m, m)[1] = Slash
    BY <1>2
  <2>2. SubSeq(y, n, n) \in Seq(Chars) /\ Len(SubSeq(y, n, n)) = 1 /\ SubSeq(y, n, n)[1] = Slash
    BY <1>2
  <2> DEFINE a == SubSeq(v, m, m)
             b == SubSeq(y, n, n)
  <2>3. /\ a \in Seq(Chars) /\ Len(a) = 1 /\ a[1] = Slash
        /\ b \in Seq(Chars) /\ Len(b) = 1 /\ b[1] = Slash
    BY <2>1, <2>2
  <2> HIDE DEF a, b
  <2>4. \A i \in 1..1 : a[i] = b[i]
    BY <2>3
  <2>5. a = b
    BY <2>3, <2>4, SeqEqual
  <2> QED
    BY <2>5 DEF a, b
<1>4. PathStart(y) = n
  BY DEF y, n
<1>5. PathIs(v, y, m, m)
  BY <1>2, <1>3, <1>4 DEF PathIs
<1> QED
  BY <1>5 DEF v, y, m

\* It grows at the end of the text.
LEMMA PathIsMore ==
  ASSUME NEW u \in Seq(Chars), NEW x \in Seq(Chars), NEW f, PathIs(u, x, f, Len(u)), NEW c \in Chars
  PROVE  PathIs(Append(u, c), Append(x, c), f, Len(u) + 1)
<1> DEFINE v == Append(u, c)
           y == Append(x, c)
           m == Len(u)
           n == Len(x)
           k == PathStart(x)
<1>1. /\ k \in 1..n /\ x[k] = Slash /\ f \in 1..m /\ m \in 1..m
      /\ SubSeq(u, f, m) = SubSeq(x, k, n)
  BY DEF PathIs
<1>2. /\ v \in Seq(Chars) /\ Len(v) = m + 1 /\ m \in Nat
      /\ y \in Seq(Chars) /\ Len(y) = n + 1 /\ n \in Nat /\ \A i \in 1..n : y[i] = x[i]
  BY Appended
<1>3. PathStart(y) = k
  <2>1. x # <<>> /\ k > 0
    BY <1>1
  <2>2. StartsWith(y, x)
    BY <1>2 DEF StartsWith
  <2> HIDE DEF y
  <2> QED
    BY <1>2, <2>1, <2>2, PathStays
<1> HIDE DEF k
<1>4. SubSeq(v, f, m + 1) = Append(SubSeq(u, f, m), c)
  <2>1. f \in Nat /\ f >= 1 /\ f <= Len(u) + 1
    BY <1>1, <1>2
  <2> QED
    BY <2>1, PartStays, Zenon
<1>5. SubSeq(y, k, n + 1) = Append(SubSeq(x, k, n), c)
  <2>1. k \in Nat /\ k >= 1 /\ k <= Len(x) + 1
    BY <1>1, <1>2
  <2> QED
    BY <2>1, PartStays, Zenon
<1> HIDE DEF v, y, m, n
<1>6. k \in 1..Len(y) /\ y[k] = Slash /\ f \in 1..(m + 1) /\ m + 1 \in 1..Len(v)
  BY <1>1, <1>2
<1>7. SubSeq(v, f, m + 1) = SubSeq(y, k, Len(y))
  BY <1>1, <1>2, <1>4, <1>5
<1>8. PathIs(v, y, f, m + 1)
  BY <1>3, <1>6, <1>7 DEF PathIs
<1> QED
  BY <1>8 DEF v, y, m

\* It stays when the text goes on behind it.
LEMMA PathIsStill ==
  ASSUME NEW u \in Seq(Chars), NEW x, NEW f, NEW l, PathIs(u, x, f, l), NEW c \in Chars
  PROVE  PathIs(Append(u, c), x, f, l)
<1>1. f \in 1..l /\ l \in 1..Len(u) /\ Len(Append(u, c)) = Len(u) + 1 /\ Len(u) \in Nat
  BY Appended DEF PathIs
<1>2. SubSeq(Append(u, c), f, l) = SubSeq(u, f, l)
  BY <1>1, PartStays
<1>3. l \in 1..Len(Append(u, c))
  BY <1>1
<1> QED
  BY <1>2, <1>3 DEF PathIs

\* A path stays simple as long as nothing complex is met.
LEMMA QuietGrows ==
  ASSUME NEW t \in Seq(Chars), t # <<>>, Quiet(t), NEW c \in Chars, c \notin {Question, Percent},
         Last(t) = Slash => c \notin {Slash, Dot}
  PROVE  Quiet(Append(t, c))
<1> DEFINE v == Append(t, c)
           n == Len(t)
<1>1. /\ v \in Seq(Chars) /\ Len(v) = n + 1 /\ v[n + 1] = c /\ n \in Nat
      /\ \A i \in 1..n : v[i] = t[i]
  BY Appended
<1>2. Last(t) = t[n] /\ n >= 1
  BY LastIs
<1> HIDE DEF v
<1>3. \A i \in 1..(n + 1) : i \in 1..n \/ i = n + 1
  BY <1>1
<1>4. \A i \in 1..Len(v) : v[i] \notin {Question, Percent}
  BY <1>1, <1>3 DEF Quiet
<1>5. ASSUME NEW i \in 1..(Len(v) - 1), v[i] = Slash
      PROVE  v[i + 1] \notin {Slash, Dot}
  <2>1. CASE i = n
    BY <1>1, <1>2, <1>5, <2>1
  <2>2. CASE i # n
    <3>1. i \in 1..(n - 1) /\ i \in 1..n /\ i + 1 \in 1..n
      BY <1>1, <1>2, <2>2
    <3> QED
      BY <1>1, <1>5, <3>1 DEF Quiet
  <2> QED
    BY <2>1, <2>2
<1> QED
  BY <1>4, <1>5 DEF Quiet, v

\* The slash alone is simple.
LEMMA QuietRoot == Quiet(<<Slash>>)
<1> DEFINE t == <<Slash>>
<1>1. Len(t) = 1 /\ t[1] = Slash
  OBVIOUS
<1> HIDE DEF t
<1>2. Quiet(t)
  BY <1>1 DEF Quiet, Slash, Question, Percent
<1> QED
  BY <1>2 DEF t

\* What a major version is.
LEMMA MajorIs ==
  ASSUME NEW v \in Seq(Chars), NEW a, NEW d, NEW n, Major(v, a, d, n)
  PROVE  /\ a \in 4..Len(v) /\ v[a] = Slash /\ IsName(v, a - 1) /\ d \in {a + 2, a + 3}
         /\ d - 1 <= Len(v) /\ Len(v) \in Nat /\ IsDigit(v[a + 1])
         /\ d = a + 3 => IsDigit(v[a + 2])
         /\ n = IF d = a + 2 THEN v[a + 1] - 48 ELSE ((v[a + 1] - 48) * 10 + v[a + 2]) - 48
<1>1. /\ a \in 4..Len(v) /\ v[a] = Slash /\ IsName(v, a - 1) /\ d \in {a + 2, a + 3}
      /\ d - 1 <= Len(v) /\ Len(v) \in Nat /\ \A i \in (a + 1)..(d - 1) : IsDigit(v[i])
      /\ n = IF d = a + 2 THEN v[a + 1] - 48 ELSE ((v[a + 1] - 48) * 10 + v[a + 2]) - 48
  BY DEF Major, Named
<1>2. a + 1 \in (a + 1)..(d - 1) /\ (d = a + 3 => a + 2 \in (a + 1)..(d - 1))
  BY <1>1
<1> QED
  BY <1>1, <1>2

\* It stays when the version grows.
LEMMA NameStays ==
  ASSUME NEW v \in Seq(Chars), NEW c \in Chars, NEW n \in Nat, n <= Len(v), IsName(v, n)
  PROVE  IsName(Append(v, c), n)
<1>1. \A i \in 1..Len(v) : Append(v, c)[i] = v[i]
  BY Appended
<1>2. n >= 3 /\ v[1] = 72 /\ v[2] = 84 /\ v[3] = 84 /\ \A i \in 4..n : v[i] = 80
  BY DEF IsName
<1>3. Len(v) \in Nat /\ 1 \in 1..Len(v) /\ 2 \in 1..Len(v) /\ 3 \in 1..Len(v)
      /\ \A i \in 4..n : i \in 1..Len(v)
  BY <1>2
<1> QED
  BY <1>1, <1>2, <1>3 DEF IsName

\* A version that goes on keeps its major number.
LEMMA MajorStays ==
  ASSUME NEW v \in Seq(Chars), NEW c \in Chars, NEW a, NEW d, NEW n, Major(v, a, d, n)
  PROVE  Major(Append(v, c), a, d, n)
<1> DEFINE y == Append(v, c)
<1>1. /\ a \in 4..Len(v) /\ v[a] = Slash /\ IsName(v, a - 1) /\ d \in {a + 2, a + 3}
      /\ d - 1 <= Len(v) /\ Len(v) \in Nat /\ \A i \in (a + 1)..(d - 1) : IsDigit(v[i])
      /\ n = IF d = a + 2 THEN v[a + 1] - 48 ELSE ((v[a + 1] - 48) * 10 + v[a + 2]) - 48
  BY DEF Major, Named
<1>2. Len(y) = Len(v) + 1 /\ \A i \in 1..Len(v) : y[i] = v[i]
  BY Appended
<1>3. IsName(y, a - 1)
  <2>1. a - 1 \in Nat /\ a - 1 <= Len(v)
    BY <1>1
  <2> QED
    BY <1>1, <2>1, NameStays
<1> HIDE DEF y
<1>4. /\ a + 1 \in 1..Len(v) /\ (d = a + 3 => a + 2 \in 1..Len(v))
      /\ \A i \in (a + 1)..(d - 1) : i \in 1..Len(v)
  BY <1>1
<1>5. a \in 4..Len(y) /\ y[a] = Slash /\ d - 1 <= Len(y)
  BY <1>1, <1>2
<1>6. \A i \in (a + 1)..(d - 1) : IsDigit(y[i])
  BY <1>1, <1>2, <1>4
<1>7. n = IF d = a + 2 THEN y[a + 1] - 48 ELSE ((y[a + 1] - 48) * 10 + y[a + 2]) - 48
  <2>1. y[a + 1] = v[a + 1] /\ (d = a + 3 => y[a + 2] = v[a + 2])
    BY <1>2, <1>4
  <2> QED
    BY <1>1, <2>1
<1>8. Major(y, a, d, n)
  BY <1>1, <1>3, <1>5, <1>6, <1>7 DEF Major, Named
<1> QED
  BY <1>8 DEF y

\* What precedes the minor digits grows to what precedes them.
LEMMA VersionGrows ==
  ASSUME NEW s \in VersionStates, NEW v \in Seq(Chars), v # <<>>, NEW k \in Int, BeforeMinor(s, v, k),
         NEW c \in Chars, NEW n, n = NextInVersion(s, c), n \in VersionStates,
         NEW m, m = IF s = "kFirstMajorDigit" THEN c - 48
                    ELSE IF n = "kVersionDot" THEN k * 10 + c - 48 ELSE k
  PROVE  BeforeMinor(n, Append(v, c), m)
<1> DEFINE y == Append(v, c)
           l == Len(v)
<1>1. /\ y \in Seq(Chars) /\ Len(y) = l + 1 /\ y[l + 1] = c /\ l \in Nat
      /\ \A i \in 1..l : y[i] = v[i]
  BY Appended
<1>2. l >= 1
  BY LastIs
<1>3. CASE s = "kHT"
  <2>1. n = "kHTT" /\ c = 84
    BY <1>3 DEF NextInVersion, LineEndStates, VersionStates
  <2>2. l = 1 /\ v[1] = 72
    BY <1>3 DEF BeforeMinor
  <2> QED
    BY <1>1, <2>1, <2>2 DEF BeforeMinor
<1>4. CASE s = "kHTT"
  <2>1. n = "kHTTP" /\ c = 84
    BY <1>4 DEF NextInVersion, LineEndStates, VersionStates
  <2>2. l = 2 /\ v[1] = 72 /\ v[2] = 84
    BY <1>4 DEF BeforeMinor
  <2> HIDE DEF y
  <2>3. IsName(y, Len(y))
    BY <1>1, <2>1, <2>2 DEF IsName
  <2> QED
    BY <2>1, <2>3 DEF BeforeMinor, y
<1>5. CASE s = "kHTTP"
  <2>1. \/ n = "kFirstMajorDigit" /\ c = Slash
        \/ n = "kHTTP" /\ c = 80
    BY <1>5 DEF NextInVersion, LineEndStates, VersionStates
  <2>2. IsName(v, l)
    BY <1>5 DEF BeforeMinor
  <2>3. IsName(y, l) /\ l >= 3
    BY <1>1, <2>2, NameStays DEF IsName
  <2> HIDE DEF y, l
  <2>4. CASE n = "kFirstMajorDigit"
    <3>1. Named(y, Len(y))
      <4>1. Len(y) - 1 = l /\ Len(y) \in 4..Len(y)
        BY <1>1, <2>3
      <4> QED
        BY <1>1, <2>1, <2>3, <2>4, <4>1 DEF Named
    <3> QED
      BY <2>4, <3>1 DEF BeforeMinor, y
  <2>5. CASE n = "kHTTP"
    <3>1. \A i \in 4..(l + 1) : i \in 4..l \/ i = l + 1
      BY <1>1
    <3>2. IsName(y, Len(y))
      BY <1>1, <2>1, <2>3, <2>5, <3>1 DEF IsName
    <3> QED
      BY <2>5, <3>2 DEF BeforeMinor, y
  <2> QED
    BY <2>1, <2>4, <2>5
<1>6. CASE s = "kFirstMajorDigit"
  <2>1. n = "kMajorDigit" /\ IsDigit(c) /\ m = c - 48
    BY <1>6 DEF NextInVersion, LineEndStates, VersionStates
  <2>2. l \in 4..l /\ v[l] = Slash /\ IsName(v, l - 1)
    BY <1>6 DEF BeforeMinor, Named
  <2>3. IsName(y, l - 1)
    <3>1. l - 1 \in Nat /\ l - 1 <= l
      BY <1>1, <2>2
    <3> QED
      BY <2>2, <3>1, NameStays
  <2> HIDE DEF y, l
  <2>4. Major(y, l, l + 2, m)
    <3>1. l \in 4..Len(y) /\ y[l] = Slash /\ (l + 2) - 1 <= Len(y)
      BY <1>1, <2>2
    <3>2. \A i \in (l + 1)..((l + 2) - 1) : i = l + 1
      BY <1>1
    <3> QED
      BY <1>1, <2>1, <2>3, <3>1, <3>2 DEF Major, Named
  <2>5. Len(y) - 1 = l /\ Len(y) + 1 = l + 2
    BY <1>1
  <2>6. Major(y, Len(y) - 1, Len(y) + 1, m)
    BY <2>4, <2>5
  <2> QED
    BY <2>1, <2>6 DEF BeforeMinor, y
<1>7. CASE s = "kMajorDigit"
  <2>1. \/ n = "kVersionDot" /\ IsDigit(c) /\ m = k * 10 + c - 48
        \/ n = "kFirstMinorDigit" /\ c = Dot /\ m = k
    BY <1>7 DEF NextInVersion, LineEndStates, VersionStates
  <2>2. Major(v, l - 1, l + 1, k)
    BY <1>7 DEF BeforeMinor
  <2>3. /\ l - 1 \in 4..l /\ v[l - 1] = Slash /\ IsName(v, (l - 1) - 1) /\ IsDigit(v[l])
        /\ k = v[l] - 48
    <3>1. (l - 1) + 1 = l /\ (l - 1) + 2 = l + 1
      BY <1>1
    <3> HIDE DEF l
    <3> DEFINE a == l - 1
               d == l + 1
    <3>2. Major(v, a, d, k)
      BY <2>2
    <3>3. a + 1 = l /\ a + 2 = d
      BY <3>1
    <3> HIDE DEF a, d
    <3>4. /\ a \in 4..Len(v) /\ v[a] = Slash /\ IsName(v, a - 1) /\ IsDigit(v[l])
          /\ k = v[l] - 48
      BY <3>2, <3>3, MajorIs
    <3> QED
      BY <3>4 DEF a, l
  <2>4. CASE n = "kFirstMinorDigit"
    <3>1. Major(y, l - 1, l + 1, k)
      BY <2>2, MajorStays
    <3> HIDE DEF y, l
    <3>2. y[Len(y)] = Dot /\ l - 1 \in 4..Len(y) /\ Len(y) = l + 1
      BY <1>1, <2>1, <2>3, <2>4
    <3>3. Major(y, l - 1, Len(y), m)
      BY <2>1, <2>4, <3>1, <3>2
    <3> QED
      BY <2>4, <3>2, <3>3 DEF BeforeMinor, y
  <2>5. CASE n = "kVersionDot"
    <3>1. IsName(y, (l - 1) - 1)
      <4> DEFINE e == (l - 1) - 1
      <4>1. e \in Nat /\ e <= Len(v) /\ IsName(v, e)
        BY <1>1, <2>3
      <4> HIDE DEF e
      <4>2. IsName(y, e)
        BY <4>1, NameStays
      <4> QED
        BY <4>2 DEF e
    <3> HIDE DEF y, l
    <3> DEFINE a == l - 1
               d == Len(y) + 1
    <3>2. /\ a \in 4..Len(y) /\ y[a] = Slash /\ d = a + 3 /\ d # a + 2 /\ a + 1 = l /\ a + 2 = l + 1
          /\ d - 1 <= Len(y) /\ Len(y) - 2 = a
      BY <1>1, <2>3
    <3>3. \A i \in (a + 1)..(d - 1) : i = l \/ i = l + 1
      BY <1>1, <3>2
    <3>4. IsDigit(y[l]) /\ IsDigit(y[l + 1]) /\ y[l] = v[l]
      BY <1>1, <1>2, <2>1, <2>3, <2>5
    <3>5. m = ((y[l] - 48) * 10 + y[l + 1]) - 48
      <4>1. m = k * 10 + c - 48 /\ y[l + 1] = c /\ k = y[l] - 48
        BY <1>1, <2>1, <2>3, <2>5, <3>4
      <4>2. c \in Int
        BY DEF Chars
      <4>3. \A x, z \in Int : x * 10 + z - 48 = ((x * 10) + z) - 48
        OBVIOUS
      <4> QED
        BY <4>1, <4>2, <4>3
    <3> HIDE DEF a, d
    <3>6. Named(y, a)
      BY <3>1, <3>2 DEF Named, a
    <3>7. \A i \in (a + 1)..(d - 1) : IsDigit(y[i])
      BY <3>3, <3>4
    <3>8. m = IF d = a + 2 THEN y[a + 1] - 48 ELSE ((y[a + 1] - 48) * 10 + y[a + 2]) - 48
      BY <3>2, <3>5
    <3>9. Major(y, a, d, m)
      BY <3>2, <3>6, <3>7, <3>8 DEF Major
    <3>10. Major(y, Len(y) - 2, Len(y) + 1, m)
      BY <3>2, <3>9 DEF d
    <3> QED
      BY <2>5, <3>10 DEF BeforeMinor, y
  <2> QED
    BY <2>1, <2>4, <2>5
<1>8. CASE s = "kVersionDot"
  <2>1. n = "kFirstMinorDigit" /\ c = Dot /\ m = k
    BY <1>8 DEF NextInVersion, LineEndStates, VersionStates
  <2>2. Major(v, l - 2, l + 1, k)
    BY <1>8 DEF BeforeMinor
  <2>3. l - 2 \in 4..l
    BY <2>2 DEF Major, Named
  <2>4. Major(y, l - 2, l + 1, k)
    BY <2>2, MajorStays
  <2> HIDE DEF y, l
  <2>5. y[Len(y)] = Dot /\ l - 2 \in 4..Len(y) /\ Len(y) = l + 1
    BY <1>1, <2>1, <2>3
  <2>6. Major(y, l - 2, Len(y), m)
    BY <2>1, <2>4, <2>5
  <2> QED
    BY <2>1, <2>5, <2>6 DEF BeforeMinor, y
<1>9. s # "kFirstMinorDigit"
  BY DEF NextInVersion, LineEndStates, VersionStates
<1> QED
  BY <1>3, <1>4, <1>5, <1>6, <1>7, <1>8, <1>9 DEF VersionStates

\* After its dot comes a digit.
LEMMA MinorFollows ==
  ASSUME NEW v \in Seq(Chars), NEW k, BeforeMinor("kFirstMinorDigit", v, k),
         NEW c \in Chars, IsDigit(c)
  PROVE  \E a \in 4..Len(Append(v, c)), d \in 1..Len(Append(v, c)) :
           Major(Append(v, c), a, d, k) /\ Minor(Append(v, c), d, c - 48)
<1> DEFINE y == Append(v, c)
           d == Len(v)
<1>1. /\ y \in Seq(Chars) /\ Len(y) = d + 1 /\ y[d + 1] = c /\ d \in Nat
      /\ \A i \in 1..d : y[i] = v[i]
  BY Appended
<1>2. v[d] = Dot
  BY DEF BeforeMinor
<1>3. PICK a \in 4..d : Major(v, a, d, k)
  BY DEF BeforeMinor
<1>4. Major(y, a, d, k)
  BY <1>3, MajorStays
<1> HIDE DEF y, d
<1>5. a \in 4..Len(y) /\ d \in 1..Len(y) /\ d \in 1..d
  BY <1>1, <1>3
<1>6. Minor(y, d, c - 48)
  BY <1>1, <1>2, <1>5 DEF Minor
<1> QED
  BY <1>4, <1>5, <1>6 DEF y

-----------------------------------------------------------------------------
(* The shape of what has been read                                         *)

\* A method and a URL have been read, and the path of the URL is where the members say.
Asked(u, r) ==
  /\ Len(WordsOf(u)) >= 2 /\ WordsOf(u)[1] = r.method
  /\ PathIs(u, WordsOf(u)[2], r.start, r.end)
  /\ ~r.complex => Quiet(SubSeq(u, r.start, r.end))

\* The version v has one minor digit, n.
VersionIs(v, m, n) == \E a \in 4..Len(v), d \in 1..Len(v) : Major(v, a, d, m) /\ Minor(v, d, n)

\* And a version with one minor digit, n.
Versioned(u, r, n) ==
  /\ u # <<>> /\ Last(u) # Space /\ Len(WordsOf(u)) = 3 /\ Asked(u, r)
  /\ VersionIs(WordsOf(u)[3], r.major, n)

\* Or that and one more character.
VersionedMore(u, r) ==
  /\ u # <<>> /\ Front(u) # <<>> /\ Last(u) \notin {CR, LF}
  /\ \E n \in 0..9 : Versioned(Front(u), r, n) /\ r.minor = (n * 10 + Last(u)) - 48

\* All but the line end.
IsBody(u, r) == u # <<>> /\ (Versioned(u, r, r.minor) \/ VersionedMore(u, r))

\* The text begins with the method, of which Parse() has found p characters read.
Chosen(p, u, r) ==
  /\ r.method \in Methods /\ p < Len(r.method) /\ Len(r.method) < Len(u)
  /\ \A i \in 1..Len(r.method) : u[i] = r.method[i]
  /\ u[Len(r.method) + 1] = Space

\* Two words, of which the second is under way; three words.
InUrl(u, r) == /\ u # <<>> /\ Last(u) # Space
               /\ Len(WordsOf(u)) = 2 /\ WordsOf(u)[1] = r.method
InVersion(u, r) == u # <<>> /\ Last(u) # Space /\ Len(WordsOf(u)) = 3 /\ Asked(u, r)

\* The path of the URL reaches to the end of the text.
InPath(s, u, r) ==
  /\ PathIs(u, WordsOf(u)[2], r.start, Len(u))
  /\ s = "kUrl" => r.complex
  /\ s # "kUrl" => (s = "kAfterSlashInUrl" <=> Last(u) = Slash)
  /\ ~r.complex => Quiet(SubSeq(u, r.start, Len(u)))

\* What the text u is that has been read from position p on when the members are r.
Shape(p, u, r) ==
  LET s == r.state
  IN /\ s = "kStart" => Len(u) = p
     /\ s = "kMethod" => p < Len(u) /\ \A i \in (p + 1)..Len(u) : IsUpperLetter(u[i])
     /\ s \notin {"kStart", "kMethod"} => Chosen(p, u, r)
     /\ s = "kSpacesBeforeUrl" => u # <<>> /\ Last(u) = Space /\ WordsOf(u) = <<r.method>>
     /\ s \in AuthorityStates => InUrl(u, r) /\ BeforePath(s, WordsOf(u)[2])
     /\ s \in PathStates => InUrl(u, r) /\ InPath(s, u, r)
     /\ s = "kH" => u # <<>> /\ Last(u) = Space /\ Len(WordsOf(u)) = 2 /\ Asked(u, r)
     /\ s \in VersionStates => InVersion(u, r) /\ BeforeMinor(s, WordsOf(u)[3], r.major)
     /\ s = "kMinorDigit" => Versioned(u, r, r.minor)
     /\ s = "kCRLFAfterMinor" => VersionedMore(u, r)
     /\ s = "kAlmostDone" => u # <<>> /\ Last(u) = CR /\ IsBody(Front(u), r)
     /\ s = "kDone" => /\ u # <<>> /\ Last(u) = LF
                       /\ \/ IsBody(Front(u), r)
                          \/ /\ Front(u) # <<>> /\ Last(Front(u)) = CR
                             /\ IsBody(Front(Front(u)), r)

\* The loop turns, and meets no error.
IsStep(p, u, c, r, n, t) ==
  /\ p \in Nat /\ u \in Seq(Chars) /\ c \in Chars /\ r \in Lines /\ r.pos = Len(u)
  /\ r.state \notin Errors \cup {"kDone"}
  /\ n = Next1(r.state, c, u) /\ n \notin Errors /\ IsTurn(r, r.state, n, c, u, t)
  /\ Shape(p, u, r)

\* The members that later states leave alone.
SameRequest(r, t) == /\ t.method = r.method /\ t.start = r.start /\ t.end = r.end
                     /\ t.complex = r.complex

\* The end of a URL is found in it.
LEMMA HIsReached ==
  ASSUME NEW s, NEW c, NEW before, Next1(s, c, before) = "kH"
  PROVE  s \in {"kAfterSlashInUrl", "kCheckUrl", "kUrl", "kH"}
<1>1. CASE s \in {"kStart", "kMethod"}
  BY <1>1 DEF Next1, NextInMethod
<1>2. CASE s \in {"kSpacesBeforeUrl", "kScheme", "kSchemeSlash", "kSchemeDoubleSlash",
                  "kHost", "kPort"}
  BY <1>2 DEF Next1, NextInAuthority
<1>3. CASE s \notin {"kStart", "kMethod", "kSpacesBeforeUrl", "kScheme", "kSchemeSlash",
                     "kSchemeDoubleSlash", "kHost", "kPort", "kAfterSlashInUrl", "kCheckUrl", "kUrl"}
  <2>1. Next1(s, c, before) = NextInVersion(s, c)
    BY <1>3 DEF Next1
  <2> QED
    BY <2>1 DEF NextInVersion, LineEndStates
<1> QED
  BY <1>1, <1>2, <1>3

\* Which members a turn sets.
LEMMA StepIs ==
  ASSUME NEW p, NEW u, NEW c, NEW r, NEW n, NEW t, IsStep(p, u, c, r, n, t)
  PROVE  /\ t.state = n /\ t.pos = r.pos + 1 /\ t \in Members /\ r \in Members
         /\ r.state # "kMethod" => t.method = r.method
         /\ ~(n = "kAfterSlashInUrl" /\ r.state \in {"kSpacesBeforeUrl", "kHost", "kPort"}) =>
              t.start = r.start
         /\ r.state \notin PathStates => t.end = r.end /\ t.complex = r.complex
         /\ r.state \notin {"kFirstMajorDigit", "kMajorDigit"} => t.major = r.major
<1>1. IsTurn(r, r.state, n, c, u, t) /\ n \notin Errors /\ n = Next1(r.state, c, u) /\ r \in Lines
      /\ r.state \notin Errors \cup {"kDone"}
  BY DEF IsStep
<1>2. r \in Members /\ r.state \in States
  BY <1>1 DEF Lines, Members
<1>3. /\ t \in Members /\ t.state = n /\ t.pos = r.pos + 1
      /\ r.state # "kMethod" => t.method = r.method
      /\ ~(n = "kAfterSlashInUrl" /\ r.state \in {"kSpacesBeforeUrl", "kHost", "kPort"}) =>
           t.start = r.start
  BY <1>1 DEF IsTurn
<1>4. r.state \notin PathStates => ComplexAt(r.state) = {}
  BY DEF ComplexAt, PathStates
<1>5. r.state \notin PathStates => t.complex = r.complex
  <2>1. t.complex = (r.complex \/ c \in ComplexAt(r.state))
    BY <1>1 DEF IsTurn
  <2>2. r.complex \in BOOLEAN
    BY <1>2 DEF Members
  <2> QED
    BY <1>4, <2>1, <2>2
<1>6. n = "kH" => r.state \in PathStates \cup {"kH"}
  <2>1. n = "kH" => r.state \in {"kAfterSlashInUrl", "kCheckUrl", "kUrl", "kH"}
    BY <1>1, HIsReached
  <2> QED
    BY <2>1 DEF PathStates
<1>7. r.state \notin PathStates => t.end = r.end
  BY <1>1, <1>6 DEF IsTurn
<1>8. n = "kVersionDot" => r.state = "kMajorDigit"
  BY <1>1, <1>2, NextIs
<1>9. r.state \notin {"kFirstMajorDigit", "kMajorDigit"} => t.major = r.major
  BY <1>1, <1>8 DEF IsTurn
<1> QED
  BY <1>2, <1>3, <1>5, <1>7, <1>9

\* The method stays what it is.
LEMMA ChosenStays ==
  ASSUME NEW p, NEW u \in Seq(Chars), NEW c \in Chars, NEW r, NEW t, Chosen(p, u, r),
         t.method = r.method
  PROVE  Chosen(p, Append(u, c), t)
<1> DEFINE m == Len(r.method)
<1>1. /\ r.method \in Methods /\ p < m /\ m < Len(u) /\ (\A i \in 1..m : u[i] = r.method[i])
      /\ u[m + 1] = Space
  BY DEF Chosen
<1>2. m \in Nat
  BY <1>1, MethodWord
<1>3. Len(Append(u, c)) = Len(u) + 1 /\ Len(u) \in Nat /\ \A i \in 1..Len(u) : Append(u, c)[i] = u[i]
  BY Appended
<1>4. m + 1 \in 1..Len(u) /\ \A i \in 1..m : i \in 1..Len(u)
  BY <1>1, <1>2, <1>3
<1> HIDE DEF m
<1>5. Append(u, c)[m + 1] = Space /\ (\A i \in 1..m : Append(u, c)[i] = r.method[i])
  BY <1>1, <1>3, <1>4
<1>6. m < Len(Append(u, c))
  BY <1>1, <1>2, <1>3
<1> QED
  BY <1>1, <1>5, <1>6 DEF Chosen, m

\* The method and the URL stay when neither grows.
LEMMA AskedStays ==
  ASSUME NEW u \in Seq(Chars), NEW c \in Chars, NEW r, NEW t, Asked(u, r), SameRequest(r, t),
         Len(WordsOf(Append(u, c))) >= 2,
         WordsOf(Append(u, c))[1] = WordsOf(u)[1], WordsOf(Append(u, c))[2] = WordsOf(u)[2]
  PROVE  Asked(Append(u, c), t)
<1>1. /\ Len(WordsOf(u)) >= 2 /\ WordsOf(u)[1] = r.method
      /\ PathIs(u, WordsOf(u)[2], r.start, r.end)
      /\ ~r.complex => Quiet(SubSeq(u, r.start, r.end))
  BY DEF Asked
<1>2. /\ PathIs(Append(u, c), WordsOf(u)[2], r.start, r.end)
      /\ SubSeq(Append(u, c), r.start, r.end) = SubSeq(u, r.start, r.end)
  <2> DEFINE x == WordsOf(u)[2]
             f == r.start
             l == r.end
  <2>1. PathIs(u, x, f, l)
    BY <1>1
  <2> HIDE DEF x, f, l
  <2>2. PathIs(Append(u, c), x, f, l)
    BY <2>1, PathIsStill
  <2>3. f \in 1..l /\ l \in 1..Len(u) /\ Len(u) \in Nat
    BY <2>1 DEF PathIs
  <2>4. SubSeq(Append(u, c), f, l) = SubSeq(u, f, l)
    BY <2>3, PartStays
  <2> QED
    BY <2>2, <2>4 DEF x, f, l
<1>3. t.method = r.method /\ t.start = r.start /\ t.end = r.end /\ t.complex = r.complex
  BY DEF SameRequest
<1> QED
  BY <1>1, <1>2, <1>3 DEF Asked

\* Nor does it matter which members hold them.
LEMMA SameBody ==
  ASSUME NEW u, NEW r, NEW t, SameRequest(r, t), t.major = r.major
  PROVE  /\ Asked(u, r) => Asked(u, t)
         /\ \A n : Versioned(u, r, n) => Versioned(u, t, n)
         /\ t.minor = r.minor => (IsBody(u, r) => IsBody(u, t))
<1>1. t.method = r.method /\ t.start = r.start /\ t.end = r.end /\ t.complex = r.complex
  BY DEF SameRequest
<1>2. \A v : Asked(v, r) => Asked(v, t)
  BY <1>1, Zenon DEF Asked
<1>3. \A v, n : Versioned(v, r, n) => Versioned(v, t, n)
  BY <1>2, Zenon DEF Versioned
<1>4. t.minor = r.minor => (VersionedMore(u, r) => VersionedMore(u, t))
  BY <1>3, Zenon DEF VersionedMore
<1> QED
  BY <1>2, <1>3, <1>4 DEF IsBody

-----------------------------------------------------------------------------
(* Every turn keeps the shape                                              *)

\* The last character alone.
LEMMA LastPartIs ==
  ASSUME NEW u \in Seq(Chars), NEW c \in Chars
  PROVE  SubSeq(Append(u, c), Len(u) + 1, Len(u) + 1) = <<c>>
<1> DEFINE v == Append(u, c)
           m == Len(u) + 1
           a == SubSeq(v, m, m)
           b == <<c>>
<1>1. v \in Seq(Chars) /\ Len(v) = m /\ v[m] = c /\ m \in Nat /\ m >= 1
  BY Appended
<1> HIDE DEF v, m
<1>2. a \in Seq(Chars) /\ Len(a) = 1 /\ a[1] = c
  BY <1>1
<1>3. b \in Seq(Chars) /\ Len(b) = 1 /\ b[1] = c
  OBVIOUS
<1> HIDE DEF a, b
<1>4. \A i \in 1..1 : a[i] = b[i]
  BY <1>2, <1>3
<1>5. a = b
  BY <1>2, <1>3, <1>4, SeqEqual
<1> QED
  BY <1>5 DEF a, b, v, m

\* In the method.
LEMMA ShapeInMethod ==
  ASSUME NEW p, NEW u, NEW c, NEW r, NEW n, NEW t, IsStep(p, u, c, r, n, t),
         r.state \in {"kStart", "kMethod"}
  PROVE  Shape(p, Append(u, c), t)
<1> DEFINE v == Append(u, c)
<1>1. /\ p \in Nat /\ u \in Seq(Chars) /\ c \in Chars /\ n = Next1(r.state, c, u) /\ n \notin Errors
      /\ Shape(p, u, r)
  BY DEF IsStep
<1>2. /\ v \in Seq(Chars) /\ v # <<>> /\ Len(v) = Len(u) + 1 /\ v[Len(u) + 1] = c /\ Len(u) \in Nat
      /\ (\A i \in 1..Len(u) : v[i] = u[i]) /\ Last(v) = c
  BY <1>1, Appended
<1>3. t.state = n
  BY StepIs
<1>4. n = NextInMethod(r.state, c, u)
  BY <1>1 DEF Next1
<1>5. \/ n = "kMethod" /\ IsUpperLetter(c)
      \/ n = "kSpacesBeforeUrl" /\ r.state = "kMethod" /\ c = Space /\ u \in Methods
  BY <1>1, <1>4 DEF NextInMethod, Errors
<1>6. /\ r.state = "kStart" => Len(u) = p
      /\ r.state = "kMethod" => p < Len(u) /\ \A i \in (p + 1)..Len(u) : IsUpperLetter(u[i])
  BY <1>1 DEF Shape
<1> HIDE DEF v
<1>7. CASE n = "kMethod"
  <2>1. p < Len(v)
    BY <1>1, <1>2, <1>6
  <2>2. ASSUME NEW i \in (p + 1)..Len(v) PROVE IsUpperLetter(v[i])
    <3>1. CASE i = Len(u) + 1
      BY <1>2, <1>5, <1>7, <3>1
    <3>2. CASE i # Len(u) + 1
      <4>1. i \in (p + 1)..Len(u) /\ i \in 1..Len(u)
        BY <1>1, <1>2, <3>2
      <4>2. r.state = "kMethod"
        BY <1>1, <1>6, <4>1
      <4> QED
        BY <1>2, <1>6, <4>1, <4>2
    <3> QED
      BY <3>1, <3>2
  <2> QED
    BY <1>3, <1>7, <2>1, <2>2 DEF Shape, AuthorityStates, PathStates, VersionStates, v
<1>8. CASE n = "kSpacesBeforeUrl"
  <2>1. r.state = "kMethod" /\ c = Space /\ u \in Methods
    BY <1>5, <1>8
  <2>2. t.method = u
    BY <1>1, <1>8, <2>1 DEF IsStep, IsTurn
  <2>3. WordsOf(u) = <<u>>
    BY <2>1, MethodWord
  <2>4. WordsOf(v) = <<t.method>>
    BY <1>1, <2>1, <2>2, <2>3, WordsIs DEF v
  <2>5. Chosen(p, v, t)
    <3>1. p < Len(u)
      BY <1>6, <2>1
    <3>2. Len(u) < Len(v) /\ v[Len(u) + 1] = Space
      BY <1>2, <2>1
    <3> QED
      BY <1>2, <2>1, <2>2, <3>1, <3>2 DEF Chosen
  <2> QED
    BY <1>2, <1>3, <1>8, <2>1, <2>4, <2>5 DEF Shape, AuthorityStates, PathStates, VersionStates, v
<1> QED
  BY <1>5, <1>7, <1>8

\* In the spaces before the URL.
LEMMA ShapeInSpaces ==
  ASSUME NEW p, NEW u, NEW c, NEW r, NEW n, NEW t, IsStep(p, u, c, r, n, t),
         r.state = "kSpacesBeforeUrl"
  PROVE  Shape(p, Append(u, c), t)
<1> DEFINE v == Append(u, c)
           w == WordsOf(u)
           x == WordsOf(v)
<1>1. /\ p \in Nat /\ u \in Seq(Chars) /\ c \in Chars /\ n = Next1(r.state, c, u) /\ n \notin Errors
      /\ Shape(p, u, r) /\ r.pos = Len(u)
  BY DEF IsStep
<1>2. /\ v \in Seq(Chars) /\ v # <<>> /\ Len(v) = Len(u) + 1 /\ Len(u) \in Nat /\ Last(v) = c
  BY <1>1, Appended
<1>3. t.state = n /\ t.method = r.method
  BY StepIs
<1>4. n = NextInAuthority("kSpacesBeforeUrl", c)
  BY <1>1 DEF Next1
<1>5. \/ n = "kSpacesBeforeUrl" /\ c = Space
      \/ n = "kAfterSlashInUrl" /\ c = Slash
      \/ n = "kScheme" /\ IsLetter(c)
  BY <1>1, <1>4 DEF NextInAuthority, Errors
<1>6. u # <<>> /\ Last(u) = Space /\ w = <<r.method>> /\ Chosen(p, u, r)
  BY <1>1 DEF Shape
<1>7. Chosen(p, v, t)
  BY <1>1, <1>3, <1>6, ChosenStays
<1>8. c # Space => Len(x) = 2 /\ x[1] = r.method /\ x[2] = <<c>>
  <2> SUFFICES ASSUME c # Space PROVE Len(x) = 2 /\ x[1] = r.method /\ x[2] = <<c>>
    OBVIOUS
  <2>1. Started(w, x, c)
    BY <1>1, <1>6, WordStarts DEF AtGap
  <2>2. Len(w) = 1 /\ w[1] = r.method
    BY <1>6
  <2> HIDE DEF w, x
  <2> QED
    BY <2>1, <2>2 DEF Started
<1> HIDE DEF v, w, x
<1>9. CASE n = "kSpacesBeforeUrl"
  <2>1. x = <<t.method>>
    BY <1>1, <1>3, <1>5, <1>6, <1>9, WordsIs DEF v, w, x
  <2> QED
    BY <1>2, <1>3, <1>5, <1>7, <1>9, <2>1 DEF Shape, AuthorityStates, PathStates, VersionStates, v, x
<1>10. CASE n = "kScheme"
  <2>1. IsLetter(c) /\ c # Space
    BY <1>5, <1>10 DEF IsLetter, IsUpperLetter, Space
  <2>2. InUrl(v, t)
    BY <1>2, <1>3, <1>8, <2>1 DEF InUrl, x
  <2>3. BeforePath("kScheme", x[2])
    <3>1. Len(x[2]) = 1 /\ x[2][1] = c
      BY <1>8, <2>1
    <3> QED
      BY <2>1, <3>1 DEF BeforePath, LettersTo
  <2> QED
    BY <1>3, <1>7, <1>10, <2>2, <2>3 DEF Shape, AuthorityStates, PathStates, VersionStates, v, x
<1>11. CASE n = "kAfterSlashInUrl"
  <2>1. c = Slash /\ c # Space
    BY <1>5, <1>11 DEF Slash, Space
  <2>2. InUrl(v, t)
    BY <1>2, <1>3, <1>8, <2>1 DEF InUrl, x
  <2>3. t.start = Len(u) + 1
    BY <1>1, <1>11 DEF IsStep, IsTurn
  <2>4. PathIs(v, x[2], t.start, Len(v))
    <3> DEFINE e == <<>>
    <3>1. e \in Seq(Chars) /\ Append(e, Slash) = <<Slash>> /\ Len(e) + 1 = 1
      OBVIOUS
    <3>2. <<Slash>> \in Seq(Chars) /\ <<Slash>>[1] = Slash
      BY DEF Slash, Chars
    <3> HIDE DEF e
    <3>3. PathStart(Append(e, Slash)) = Len(e) + 1
      BY <3>1, <3>2, PathAtFront
    <3>4. PathIs(Append(u, Slash), Append(e, Slash), Len(u) + 1, Len(u) + 1)
      BY <1>1, <3>1, <3>3, PathIsNew
    <3> QED
      BY <1>2, <1>8, <2>1, <2>3, <3>1, <3>4 DEF v
  <2>5. Quiet(SubSeq(v, t.start, Len(v)))
    BY <1>1, <1>2, <2>1, <2>3, LastPartIs, QuietRoot DEF v
  <2>6. InPath("kAfterSlashInUrl", v, t)
    BY <1>2, <2>1, <2>4, <2>5 DEF InPath, x
  <2> QED
    BY <1>3, <1>7, <1>11, <2>2, <2>6 DEF Shape, AuthorityStates, PathStates, VersionStates, v
<1> QED
  BY <1>5, <1>9, <1>10, <1>11

\* What precedes a path is not empty.
LEMMA BeforePathIsSome ==
  ASSUME NEW s \in AuthorityStates, NEW x, BeforePath(s, x)
  PROVE  x # <<>>
<1> SUFFICES ASSUME x = <<>> PROVE FALSE
  OBVIOUS
<1>1. Len(x) = 0 /\ Len(x) - 1 = -1 /\ 2..0 = {}
  OBVIOUS
<1>2. ~LettersTo(x, Len(x)) /\ ~Schemed(x, Len(x)) /\ ~(Len(x) >= 2)
  BY <1>1 DEF LettersTo, Schemed
<1>3. \A a \in 2..Len(x) : FALSE
  BY <1>1
<1> QED
  BY <1>2, <1>3 DEF BeforePath, AuthorityStates

\* The last word grows.
LEMMA LastWordGrows ==
  ASSUME NEW u \in Seq(Chars), NEW c \in Chars, c # Space, u # <<>>, Last(u) # Space,
         NEW k \in {2, 3}, Len(WordsOf(u)) = k
  PROVE  /\ Len(WordsOf(Append(u, c))) = k
         /\ WordsOf(Append(u, c))[k] = Append(WordsOf(u)[k], c)
         /\ WordsOf(Append(u, c))[1] = WordsOf(u)[1]
         /\ k = 3 => WordsOf(Append(u, c))[2] = WordsOf(u)[2]
         /\ \A i \in 1..k : WordsOf(u)[i] \in Seq(Chars)
<1> DEFINE w == WordsOf(u)
           x == WordsOf(Append(u, c))
           T == Seq(Chars)
<1>1. Grown(w, x, c)
  BY WordStarts DEF AtGap
<1>2. w \in Seq(T) /\ Len(w) = k
  BY WordsIs
<1> HIDE DEF w, x, T
<1>3. Len(x) = k /\ x[k] = Append(w[k], c) /\ x[1] = w[1] /\ (k = 3 => x[2] = w[2])
  BY <1>1, <1>2 DEF Grown
<1>4. \A i \in 1..k : w[i] \in T
  BY <1>2, ElementOfSeq
<1> QED
  BY <1>3, <1>4 DEF w, x, T

\* Before the path.
LEMMA ShapeInAuthority ==
  ASSUME NEW p, NEW u, NEW c, NEW r, NEW n, NEW t, IsStep(p, u, c, r, n, t),
         r.state \in AuthorityStates
  PROVE  Shape(p, Append(u, c), t)
<1> DEFINE v == Append(u, c)
           w == WordsOf(u)
           x == WordsOf(v)
           s == r.state
<1>1. /\ p \in Nat /\ u \in Seq(Chars) /\ c \in Chars /\ n = Next1(s, c, u) /\ n \notin Errors
      /\ Shape(p, u, r) /\ r.pos = Len(u)
  BY DEF IsStep
<1>2. /\ v \in Seq(Chars) /\ v # <<>> /\ Len(v) = Len(u) + 1 /\ Len(u) \in Nat /\ Last(v) = c
  BY <1>1, Appended
<1>3. t.state = n /\ t.method = r.method
  BY StepIs DEF AuthorityStates
<1>4. n = NextInAuthority(s, c)
  BY <1>1 DEF Next1, AuthorityStates
<1>5. \/ n \in AuthorityStates
      \/ n = "kAfterSlashInUrl" /\ c = Slash /\ s \in {"kHost", "kPort"}
  BY <1>1, <1>4 DEF NextInAuthority, Errors, AuthorityStates
<1>6. InUrl(u, r) /\ BeforePath(s, w[2]) /\ Chosen(p, u, r)
  BY <1>1 DEF Shape, AuthorityStates
<1>7. Chosen(p, v, t)
  BY <1>1, <1>3, <1>6, ChosenStays
<1>8. c # Space
  <2>1. IsHostCharacter(c) \/ IsDigit(c) \/ c \in {Colon, Slash}
    BY <1>1, <1>4 DEF NextInAuthority, Errors, AuthorityStates, IsHostCharacter
  <2>2. Colon # Space /\ Slash # Space
    BY DEF Colon, Slash, Space
  <2> QED
    BY <1>1, <2>1, <2>2, HostCharacters
<1>9. u # <<>> /\ Last(u) # Space /\ Len(w) = 2 /\ w[1] = r.method
  BY <1>6 DEF InUrl
<1>10. /\ Len(x) = 2 /\ x[1] = r.method /\ x[2] = Append(w[2], c) /\ w[2] \in Seq(Chars)
  <2>1. /\ Len(x) = 2 /\ x[2] = Append(w[2], c)
        /\ x[1] = w[1]
        /\ \A i \in 1..2 : w[i] \in Seq(Chars)
    <3> DEFINE k == 2
    <3>1. k \in {2, 3} /\ Len(w) = k
      BY <1>9
    <3> HIDE DEF k, w, x
    <3>2. /\ Len(x) = k /\ x[k] = Append(w[k], c) /\ x[1] = w[1]
          /\ \A i \in 1..k : w[i] \in Seq(Chars)
      BY <1>1, <1>8, <1>9, <3>1, LastWordGrows DEF w, x
    <3> QED
      BY <3>2 DEF k
  <2> QED
    BY <1>9, <2>1
<1> HIDE DEF w, x, v
<1>11. InUrl(v, t)
  BY <1>2, <1>3, <1>8, <1>10 DEF InUrl, x
<1>12. w[2] # <<>>
  BY <1>6, BeforePathIsSome
<1>13. CASE n \in AuthorityStates
  <2>1. BeforePath(n, x[2])
    BY <1>1, <1>4, <1>6, <1>10, <1>12, <1>13, BeforePathGrows
  <2>2. n \notin {"kStart", "kMethod", "kSpacesBeforeUrl", "kAfterSlashInUrl", "kCheckUrl", "kUrl", "kH",
                  "kMinorDigit", "kCRLFAfterMinor", "kAlmostDone", "kDone"} /\ n \notin VersionStates
    BY <1>13 DEF AuthorityStates, VersionStates
  <2> QED
    BY <1>3, <1>7, <1>11, <1>13, <2>1, <2>2 DEF Shape, PathStates, v, x
<1>14. CASE n = "kAfterSlashInUrl" /\ c = Slash /\ s \in {"kHost", "kPort"}
  <2> DEFINE k == IF s = "kHost" THEN 1 ELSE 2
             y == w[2]
  <2>1. PICK a \in 2..Len(y) : Hosted(y, a, k)
    BY <1>6, <1>14 DEF BeforePath
  <2>2. k \in 1..2 /\ y \in Seq(Chars)
    BY <1>10
  <2> HIDE DEF k, y
  <2>3. PathStart(Append(y, Slash)) = Len(y) + 1
    BY <2>1, <2>2, PathBegins
  <2>4. PathIs(Append(u, Slash), Append(y, Slash), Len(u) + 1, Len(u) + 1)
    BY <1>1, <2>2, <2>3, PathIsNew
  <2>5. t.start = Len(u) + 1
    BY <1>1, <1>14 DEF IsStep, IsTurn
  <2>6. PathIs(v, x[2], t.start, Len(v))
    BY <1>2, <1>10, <1>14, <2>4, <2>5 DEF v, y
  <2>7. Quiet(SubSeq(v, t.start, Len(v)))
    BY <1>1, <1>2, <1>14, <2>5, LastPartIs, QuietRoot DEF v
  <2>8. InPath("kAfterSlashInUrl", v, t)
    BY <1>2, <1>14, <2>6, <2>7 DEF InPath, x
  <2> QED
    BY <1>3, <1>7, <1>11, <1>14, <2>8 DEF Shape, AuthorityStates, PathStates, VersionStates, v
<1> QED
  BY <1>5, <1>13, <1>14

\* What a character in the path leads to.
LEMMA InUrlIs ==
  ASSUME NEW s \in PathStates, NEW c, NEW n, n = NextInUrl(s, c)
  PROVE  /\ c = Space => n = "kH"
         /\ c # Space => n \in PathStates
         /\ c # Space /\ n = "kUrl" => s = "kUrl" \/ c \in ComplexAt(s)
         /\ n \in PathStates \ {"kUrl"} => s # "kUrl" /\ (n = "kAfterSlashInUrl" <=> c = Slash)
         /\ s = "kAfterSlashInUrl" => ComplexAt(s) = {Question, Dot, Percent, Slash}
         /\ s = "kCheckUrl" => ComplexAt(s) = {Question, Percent}
         /\ Space \notin ComplexAt(s)
<1>1. /\ s = "kAfterSlashInUrl" => ComplexAt(s) = {Question, Dot, Percent, Slash}
      /\ s = "kCheckUrl" => ComplexAt(s) = {Question, Percent}
      /\ s = "kUrl" => ComplexAt(s) = {}
  BY DEF ComplexAt
<1>2. Space \notin ComplexAt(s)
  BY <1>1 DEF PathStates, Space, Question, Dot, Percent, Slash
<1>3. c = Space => n = "kH"
  BY DEF NextInUrl
<1>4. c # Space => \/ n = "kAfterSlashInUrl" /\ c = Slash /\ s # "kUrl"
                   \/ n = "kUrl" /\ (s = "kUrl" \/ c \in ComplexAt(s))
                   \/ n = "kCheckUrl" /\ ~(c = Slash /\ s # "kUrl") /\ s # "kUrl"
  BY DEF NextInUrl
<1>5. n \in PathStates => c # Space
  BY <1>3 DEF PathStates
<1> QED
  BY <1>1, <1>2, <1>3, <1>4, <1>5 DEF PathStates

\* In the path.
LEMMA ShapeInPath ==
  ASSUME NEW p, NEW u, NEW c, NEW r, NEW n, NEW t, IsStep(p, u, c, r, n, t),
         r.state \in PathStates
  PROVE  Shape(p, Append(u, c), t)
<1> DEFINE v == Append(u, c)
           w == WordsOf(u)
           x == WordsOf(v)
           s == r.state
           f == r.start
           m == Len(u)
<1>1. /\ p \in Nat /\ u \in Seq(Chars) /\ c \in Chars /\ n = Next1(s, c, u) /\ n \notin Errors
      /\ Shape(p, u, r) /\ r.pos = Len(u) /\ IsTurn(r, s, n, c, u, t)
  BY DEF IsStep
<1>2. /\ v \in Seq(Chars) /\ v # <<>> /\ Len(v) = m + 1 /\ m \in Nat /\ Last(v) = c
  BY <1>1, Appended
<1>3. t.state = n /\ t.method = r.method /\ t.start = r.start /\ r \in Members /\ t \in Members
  BY StepIs DEF PathStates
<1>4. n = NextInUrl(s, c) /\ s \in PathStates
  BY <1>1 DEF Next1, PathStates
<1>5. /\ InUrl(u, r) /\ InPath(s, u, r) /\ Chosen(p, u, r)
  BY <1>1 DEF Shape, PathStates
<1>6. Chosen(p, v, t)
  BY <1>1, <1>3, <1>5, ChosenStays
<1>7. u # <<>> /\ Last(u) # Space /\ Len(w) = 2 /\ w[1] = r.method
  BY <1>5 DEF InUrl
<1>8. /\ PathIs(u, w[2], f, m)
      /\ s = "kUrl" => r.complex
      /\ s # "kUrl" => (s = "kAfterSlashInUrl" <=> Last(u) = Slash)
      /\ ~r.complex => Quiet(SubSeq(u, f, m))
  BY <1>5 DEF InPath
<1>9. t.complex = (r.complex \/ c \in ComplexAt(s))
  BY <1>1 DEF IsTurn
<1>10. f \in 1..m
  BY <1>8 DEF PathIs
<1>11. w[2] \in Seq(Chars)
  <2> DEFINE T == Seq(Chars)
  <2>1. w \in Seq(T)
    BY <1>1, WordsIs
  <2> HIDE DEF T, w
  <2> QED
    BY <1>7, <2>1, 2 \in 1..2, ElementOfSeq DEF T
<1>12. r.complex \in BOOLEAN
  BY <1>3 DEF Members
<1> HIDE DEF w, x, v, m, s, f
<1>13. CASE c = Space
  <2>1. n = "kH" /\ s # "kH"
    BY <1>4, <1>13, InUrlIs DEF PathStates
  <2>2. t.end = m
    BY <1>1, <2>1 DEF IsTurn, m
  <2>3. t.complex <=> r.complex
    BY <1>4, <1>9, <1>12, <1>13, InUrlIs
  <2>4. x = w
    BY <1>1, <1>13, WordsIs DEF x, w, v
  <2>5. PathIs(v, x[2], f, m)
    BY <1>1, <1>8, <2>4, PathIsStill DEF v
  <2>6. SubSeq(v, f, m) = SubSeq(u, f, m)
    BY <1>1, <1>2, <1>10, PartStays DEF v, m
  <2>7. Asked(v, t)
    <3>1. Len(x) >= 2 /\ x[1] = t.method
      <4>1. Len(x) = 2
        BY <1>7, <2>4, Zenon
      <4>2. x[1] = t.method
        BY <1>3, <1>7, <2>4, Zenon
      <4> QED
        BY <4>1, <4>2
    <3>2. PathIs(v, x[2], t.start, t.end)
      BY <1>3, <2>2, <2>5 DEF f
    <3>3. ~t.complex => Quiet(SubSeq(v, t.start, t.end))
      BY <1>3, <1>8, <2>2, <2>3, <2>6 DEF f
    <3> QED
      BY <3>1, <3>2, <3>3 DEF Asked, x
  <2> QED
    BY <1>2, <1>3, <1>6, <1>7, <1>13, <2>1, <2>4, <2>7
       DEF Shape, AuthorityStates, PathStates, VersionStates, v, x
<1>14. CASE c # Space
  <2>1. /\ n \in PathStates
        /\ n = "kUrl" => s = "kUrl" \/ c \in ComplexAt(s)
        /\ n \in PathStates \ {"kUrl"} => s # "kUrl" /\ (n = "kAfterSlashInUrl" <=> c = Slash)
        /\ s = "kAfterSlashInUrl" => ComplexAt(s) = {Question, Dot, Percent, Slash}
        /\ s = "kCheckUrl" => ComplexAt(s) = {Question, Percent}
    BY <1>4, <1>14, InUrlIs
  <2>2. Len(x) = 2 /\ x[1] = w[1] /\ x[2] = Append(w[2], c)
    <3> DEFINE k == 2
    <3>1. k \in {2, 3} /\ Len(w) = k
      BY <1>7
    <3> HIDE DEF k
    <3>2. /\ Len(x) = k /\ x[k] = Append(w[k], c) /\ x[1] = w[1]
      BY <1>1, <1>7, <1>14, <3>1, LastWordGrows DEF w, x, v
    <3> QED
      BY <3>2 DEF k
  <2>3. InUrl(v, t)
    BY <1>2, <1>3, <1>7, <1>14, <2>2 DEF InUrl, x
  <2>4. PathIs(v, x[2], f, m + 1)
    BY <1>1, <1>8, <1>11, <2>2, PathIsMore DEF v, m
  <2>5. SubSeq(v, f, m + 1) = Append(SubSeq(u, f, m), c)
    BY <1>1, <1>2, <1>10, PartStays DEF v, m
  <2>6. ASSUME ~t.complex PROVE Quiet(SubSeq(v, f, m + 1))
    <3> DEFINE y == SubSeq(u, f, m)
    <3>1. ~r.complex /\ c \notin ComplexAt(s)
      BY <1>9, <1>12, <2>6
    <3>2. s # "kUrl" /\ Quiet(y)
      BY <1>8, <3>1
    <3>3. c \notin {Question, Percent} /\ (Last(u) = Slash => c \notin {Slash, Dot})
      BY <1>4, <1>8, <2>1, <3>1, <3>2 DEF PathStates
    <3>4. y \in Seq(Chars) /\ Len(y) = (m + 1) - f /\ \A k \in 1..((m + 1) - f) : y[k] = u[(f + k) - 1]
      BY <1>1, <1>2, <1>10, PartIs DEF m
    <3>5. y # <<>> /\ Last(y) = y[Len(y)] /\ Len(y) \in 1..((m + 1) - f)
      <4> HIDE DEF y
      <4>1. Len(y) >= 1 /\ Len(y) \in Nat
        BY <1>2, <1>10, <3>4
      <4>2. y # <<>>
        BY <4>1
      <4> QED
        BY <1>2, <1>10, <3>4, <4>1, <4>2, LastIs
    <3> HIDE DEF y
    <3>6. Last(y) = u[m]
      <4>1. (f + Len(y)) - 1 = m
        BY <1>2, <1>10, <3>4
      <4> QED
        BY <3>4, <3>5, <4>1
    <3>7. Last(u) = u[m]
      BY <1>1, <1>7, LastIs DEF m
    <3>8. Quiet(Append(y, c))
      BY <1>1, <3>2, <3>3, <3>4, <3>5, <3>6, <3>7, QuietGrows
    <3> QED
      BY <2>5, <3>8 DEF y
  <2>7. InPath(n, v, t)
    <3>1. n = "kUrl" => t.complex
      BY <1>8, <1>9, <1>12, <2>1
    <3>2. n # "kUrl" => (n = "kAfterSlashInUrl" <=> Last(v) = Slash)
      BY <1>2, <2>1
    <3> QED
      BY <1>2, <1>3, <2>4, <2>6, <3>1, <3>2 DEF InPath, x, f
  <2>8. n \notin AuthorityStates /\ n \notin VersionStates
        /\ n \notin {"kStart", "kMethod", "kSpacesBeforeUrl", "kH", "kMinorDigit", "kCRLFAfterMinor",
                     "kAlmostDone", "kDone"}
    BY <2>1 DEF AuthorityStates, PathStates, VersionStates
  <2> QED
    BY <1>3, <1>6, <2>1, <2>3, <2>7, <2>8 DEF Shape, v
<1> QED
  BY <1>13, <1>14

\* Behind the URL its members stay.
LEMMA RequestStays ==
  ASSUME NEW p, NEW u, NEW c, NEW r, NEW n, NEW t, IsStep(p, u, c, r, n, t),
         r.state \notin {"kStart", "kMethod", "kSpacesBeforeUrl"} \cup AuthorityStates \cup PathStates
  PROVE  /\ SameRequest(r, t) /\ Chosen(p, Append(u, c), t) /\ Chosen(p, u, r)
         /\ n = NextInVersion(r.state, c)
<1>1. /\ p \in Nat /\ u \in Seq(Chars) /\ c \in Chars /\ n = Next1(r.state, c, u)
      /\ Shape(p, u, r)
  BY DEF IsStep
<1>2. /\ t.method = r.method /\ t.start = r.start /\ t.end = r.end /\ t.complex = r.complex
  BY StepIs DEF AuthorityStates
<1>3. Chosen(p, u, r)
  BY <1>1 DEF Shape
<1>4. Chosen(p, Append(u, c), t)
  BY <1>1, <1>2, <1>3, ChosenStays
<1>5. n = NextInVersion(r.state, c)
  BY <1>1 DEF Next1, AuthorityStates, PathStates
<1> QED
  BY <1>2, <1>3, <1>4, <1>5 DEF SameRequest

\* In the spaces before the version.
LEMMA ShapeInH ==
  ASSUME NEW p, NEW u, NEW c, NEW r, NEW n, NEW t, IsStep(p, u, c, r, n, t), r.state = "kH"
  PROVE  Shape(p, Append(u, c), t)
<1> DEFINE v == Append(u, c)
           w == WordsOf(u)
           x == WordsOf(v)
<1>1. /\ u \in Seq(Chars) /\ c \in Chars /\ n \notin Errors /\ Shape(p, u, r)
  BY DEF IsStep
<1>2. /\ v \in Seq(Chars) /\ v # <<>> /\ Last(v) = c
  BY <1>1, Appended
<1>3. t.state = n /\ t.major = r.major
  BY StepIs
<1>4. SameRequest(r, t) /\ Chosen(p, v, t) /\ n = NextInVersion("kH", c)
  BY RequestStays DEF AuthorityStates, PathStates
<1>5. \/ n = "kH" /\ c = Space
      \/ n = "kHT" /\ c = 72
  BY <1>1, <1>4 DEF NextInVersion, LineEndStates, Errors
<1>6. u # <<>> /\ Last(u) = Space /\ Len(w) = 2 /\ Asked(u, r)
  BY <1>1 DEF Shape
<1> HIDE DEF v, w, x
<1>7. CASE n = "kH"
  <2>1. x = w
    BY <1>1, <1>5, <1>7, WordsIs DEF v, w, x
  <2>2. Asked(v, t)
    BY <1>1, <1>4, <1>6, <2>1, AskedStays DEF v, w, x
  <2> QED
    BY <1>2, <1>3, <1>4, <1>5, <1>6, <1>7, <2>1, <2>2
       DEF Shape, AuthorityStates, PathStates, VersionStates, v, x
<1>8. CASE n = "kHT"
  <2>1. c = 72 /\ c # Space
    BY <1>5, <1>8 DEF Space
  <2>2. Started(w, x, c)
    BY <1>1, <1>6, <2>1, WordStarts DEF AtGap, w, x, v
  <2>3. Len(x) = 3 /\ x[3] = <<c>> /\ x[1] = w[1] /\ x[2] = w[2]
    BY <1>6, <2>2 DEF Started
  <2>4. Asked(v, t)
    BY <1>1, <1>4, <1>6, <2>3, AskedStays DEF v, w, x
  <2>5. InVersion(v, t)
    BY <1>2, <2>1, <2>3, <2>4 DEF InVersion, x
  <2>6. BeforeMinor("kHT", x[3], t.major)
    <3>1. Len(x[3]) = 1 /\ x[3][1] = 72
      BY <2>1, <2>3
    <3> QED
      BY <3>1 DEF BeforeMinor
  <2> QED
    BY <1>3, <1>4, <1>8, <2>5, <2>6 DEF Shape, AuthorityStates, PathStates, VersionStates, v, x
<1> QED
  BY <1>5, <1>7, <1>8

\* Before the minor version.
LEMMA ShapeInVersion ==
  ASSUME NEW p, NEW u, NEW c, NEW r, NEW n, NEW t, IsStep(p, u, c, r, n, t),
         r.state \in VersionStates
  PROVE  Shape(p, Append(u, c), t)
<1> DEFINE v == Append(u, c)
           w == WordsOf(u)
           x == WordsOf(v)
           s == r.state
<1>1. /\ u \in Seq(Chars) /\ c \in Chars /\ n \notin Errors /\ Shape(p, u, r)
      /\ IsTurn(r, s, n, c, u, t) /\ r \in Members
  BY StepIs DEF IsStep
<1>2. /\ v \in Seq(Chars) /\ v # <<>> /\ Last(v) = c
  BY <1>1, Appended
<1>3. t.state = n /\ s \in VersionStates
  BY StepIs
<1>4. s \notin {"kStart", "kMethod", "kSpacesBeforeUrl"} \cup AuthorityStates \cup PathStates
  BY DEF AuthorityStates, PathStates, VersionStates
<1>5. SameRequest(r, t) /\ Chosen(p, v, t) /\ n = NextInVersion(s, c)
  BY <1>4, RequestStays
<1>6. \/ n \in VersionStates /\ (IsDigit(c) \/ c \in {72, 84, 80, Slash, Dot})
      \/ n = "kMinorDigit" /\ s = "kFirstMinorDigit" /\ IsDigit(c)
  BY <1>1, <1>3, <1>5 DEF NextInVersion, LineEndStates, Errors, VersionStates
<1>7. c # Space
  BY <1>6 DEF IsDigit, Slash, Dot, Space
<1>8. InVersion(u, r) /\ BeforeMinor(s, w[3], r.major)
  BY <1>1 DEF Shape
<1>9. u # <<>> /\ Last(u) # Space /\ Len(w) = 3 /\ Asked(u, r)
  BY <1>8 DEF InVersion
<1>10. /\ Len(x) = 3 /\ x[1] = w[1] /\ x[2] = w[2] /\ x[3] = Append(w[3], c) /\ w[3] \in Seq(Chars)
  <2> DEFINE k == 3
  <2>1. k \in {2, 3} /\ Len(w) = k
    BY <1>9
  <2> HIDE DEF k, w, x
  <2>2. /\ Len(x) = k /\ x[k] = Append(w[k], c) /\ x[1] = w[1] /\ (k = 3 => x[2] = w[2])
        /\ \A i \in 1..k : w[i] \in Seq(Chars)
    BY <1>1, <1>7, <1>9, <2>1, LastWordGrows DEF w, x
  <2> QED
    BY <2>2 DEF k
<1>11. r.major \in Int
  <2>1. r \in Members
    BY <1>1
  <2>2. r.major \in 0..99
    BY <2>1 DEF Members
  <2> QED
    BY <2>2
<1>12. w[3] # <<>>
  <2>1. CASE s = "kHT" \/ s = "kHTT"
    BY <1>8, <2>1 DEF BeforeMinor
  <2>2. CASE s = "kHTTP"
    BY <1>8, <2>2 DEF BeforeMinor, IsName
  <2>3. CASE s = "kFirstMajorDigit"
    BY <1>8, <2>3 DEF BeforeMinor, Named
  <2>4. CASE s \in {"kMajorDigit", "kVersionDot"}
    BY <1>8, <1>10, <2>4, MajorIs DEF BeforeMinor
  <2>5. CASE s = "kFirstMinorDigit"
    BY <1>8, <2>5 DEF BeforeMinor
  <2> QED
    BY <1>3, <2>1, <2>2, <2>3, <2>4, <2>5 DEF VersionStates
<1> HIDE DEF w, x, v, s
<1>13. Asked(v, t)
  BY <1>1, <1>5, <1>9, <1>10, AskedStays DEF v, w, x
<1>14. CASE n \in VersionStates
  <2>1. InVersion(v, t)
    BY <1>2, <1>7, <1>10, <1>13 DEF InVersion, x
  <2>2. t.major = IF s = "kFirstMajorDigit" THEN c - 48
                  ELSE IF n = "kVersionDot" THEN r.major * 10 + c - 48 ELSE r.major
    BY <1>1 DEF IsTurn
  <2>3. BeforeMinor(n, x[3], t.major)
    BY <1>1, <1>3, <1>5, <1>8, <1>10, <1>11, <1>12, <1>14, <2>2, VersionGrows
  <2>4. /\ n \notin AuthorityStates \cup PathStates
        /\ n \notin {"kStart", "kMethod", "kSpacesBeforeUrl", "kH", "kMinorDigit",
                     "kCRLFAfterMinor", "kAlmostDone", "kDone"}
    BY <1>14 DEF AuthorityStates, PathStates, VersionStates
  <2> QED
    BY <1>3, <1>5, <2>1, <2>3, <2>4 DEF Shape, v, x
<1>15. CASE n = "kMinorDigit" /\ s = "kFirstMinorDigit" /\ IsDigit(c)
  <2> DEFINE y == w[3]
             k == r.major
             z == Append(y, c)
             m == c - 48
  <2>1. y \in Seq(Chars) /\ BeforeMinor("kFirstMinorDigit", y, k)
    BY <1>8, <1>10, <1>15
  <2> HIDE DEF y, k
  <2>2. \E a \in 4..Len(z), d \in 1..Len(z) : Major(z, a, d, k) /\ Minor(z, d, m)
    BY <1>1, <1>15, <2>1, MinorFollows
  <2>3. t.major = k /\ t.minor = m /\ x[3] = z
    BY <1>1, <1>10, <1>15 DEF IsTurn, k, y
  <2> HIDE DEF z, m
  <2>4. VersionIs(x[3], t.major, t.minor)
    BY <2>2, <2>3 DEF VersionIs
  <2>5. Versioned(v, t, t.minor)
    BY <1>2, <1>7, <1>10, <1>13, <2>4 DEF Versioned, x
  <2> QED
    BY <1>3, <1>5, <1>15, <2>5 DEF Shape, AuthorityStates, PathStates, VersionStates, v
<1> QED
  BY <1>6, <1>14, <1>15

\* A minor digit is one.
LEMMA MinorIsDigit ==
  ASSUME NEW u, NEW r, NEW n, Versioned(u, r, n), WordsOf(u)[3] \in Seq(Chars)
  PROVE  n \in 0..9
<1>1. VersionIs(WordsOf(u)[3], r.major, n)
  BY DEF Versioned
<1>2. PICK d \in 1..Len(WordsOf(u)[3]) : Minor(WordsOf(u)[3], d, n)
  BY <1>1 DEF VersionIs
<1> QED
  BY <1>2 DEF Minor, IsDigit

\* At the end of the line.
LEMMA ShapeAtEnd ==
  ASSUME NEW p, NEW u, NEW c, NEW r, NEW n, NEW t, IsStep(p, u, c, r, n, t),
         r.state \in {"kMinorDigit", "kCRLFAfterMinor", "kAlmostDone"}
  PROVE  Shape(p, Append(u, c), t)
<1> DEFINE v == Append(u, c)
           s == r.state
<1>1. /\ u \in Seq(Chars) /\ c \in Chars /\ n \notin Errors /\ Shape(p, u, r)
      /\ IsTurn(r, s, n, c, u, t)
  BY DEF IsStep
<1>2. /\ v \in Seq(Chars) /\ v # <<>> /\ Last(v) = c /\ Front(v) = u
  BY <1>1, Appended
<1>3. t.state = n /\ t.major = r.major /\ s \in {"kMinorDigit", "kCRLFAfterMinor", "kAlmostDone"}
  BY StepIs
<1>4. SameRequest(r, t) /\ Chosen(p, v, t) /\ n = NextInVersion(s, c)
  BY RequestStays DEF AuthorityStates, PathStates
<1>5. \/ n = "kAlmostDone" /\ c = CR /\ s # "kAlmostDone"
      \/ n = "kDone" /\ c = LF
      \/ n = "kCRLFAfterMinor" /\ s = "kMinorDigit" /\ c \notin {CR, LF}
  <2>1. n = "kDone" => c = LF
    BY <1>3, <1>4 DEF NextInVersion, LineEndStates, CR, LF
  <2>2. n = "kAlmostDone" => c = CR /\ s # "kAlmostDone"
    BY <1>3, <1>4 DEF NextInVersion, LineEndStates, CR, LF
  <2>3. n = "kCRLFAfterMinor" => s = "kMinorDigit" /\ c \notin {CR, LF}
    BY <1>3, <1>4 DEF NextInVersion, LineEndStates, CR, LF
  <2>4. n \in {"kAlmostDone", "kDone", "kCRLFAfterMinor"}
    BY <1>1, <1>3, <1>4 DEF NextInVersion, LineEndStates, CR, LF, Errors
  <2> QED
    BY <2>1, <2>2, <2>3, <2>4
<1>6. /\ \A k : Versioned(u, r, k) => Versioned(u, t, k)
      /\ t.minor = r.minor => \A y : IsBody(y, r) => IsBody(y, t)
  BY <1>3, <1>4, SameBody
<1>7. n # "kCRLFAfterMinor" => t.minor = r.minor
  BY <1>1, <1>3 DEF IsTurn
<1>8. s # "kAlmostDone" => u # <<>> /\ IsBody(u, r)
  <2>1. CASE s = "kMinorDigit"
    BY <1>1, <2>1 DEF Shape, IsBody, Versioned
  <2>2. CASE s = "kCRLFAfterMinor"
    BY <1>1, <2>2 DEF Shape, IsBody, VersionedMore
  <2> QED
    BY <1>3, <2>1, <2>2
<1>9. s = "kAlmostDone" => u # <<>> /\ Last(u) = CR /\ IsBody(Front(u), r)
  BY <1>1 DEF Shape
<1> HIDE DEF v, s
<1>10. CASE n = "kAlmostDone"
  <2>1. IsBody(u, t)
    BY <1>5, <1>6, <1>7, <1>8, <1>10
  <2> QED
    BY <1>2, <1>3, <1>4, <1>5, <1>10, <2>1 DEF Shape, AuthorityStates, PathStates, VersionStates, v
<1>11. CASE n = "kDone"
  <2>1. t.minor = r.minor /\ c = LF
    BY <1>5, <1>7, <1>11
  <2>2. \/ IsBody(u, t)
        \/ u # <<>> /\ Last(u) = CR /\ IsBody(Front(u), t)
    BY <1>6, <1>8, <1>9, <2>1
  <2> QED
    BY <1>2, <1>3, <1>4, <1>11, <2>1, <2>2 DEF Shape, AuthorityStates, PathStates, VersionStates, v
<1>12. CASE n = "kCRLFAfterMinor"
  <2> DEFINE k == r.minor
             e == (k * 10 + c) - 48
  <2>1. s = "kMinorDigit" /\ c \notin {CR, LF}
    BY <1>5, <1>12
  <2>2. u # <<>> /\ Versioned(u, r, k)
    BY <1>1, <2>1 DEF Shape, Versioned, s
  <2>3. Len(WordsOf(u)) = 3
    BY <2>2 DEF Versioned
  <2>4. WordsOf(u)[3] \in Seq(Chars)
    <3> DEFINE T == Seq(Chars)
               w == WordsOf(u)
    <3>1. w \in Seq(T) /\ Len(w) = 3
      BY <1>1, <2>3, WordsIs
    <3> HIDE DEF T, w
    <3>2. w[3] \in T
      BY <3>1, 3 \in 1..3, ElementOfSeq
    <3> QED
      BY <3>2 DEF T, w
  <2>5. k \in 0..9
    BY <2>2, <2>4, MinorIsDigit
  <2>6. t.minor = k * 10 + c - 48
    BY <1>1, <1>12, <2>1 DEF IsTurn
  <2> HIDE DEF k
  <2>7. t.minor = e
    BY <1>1, <2>5, <2>6 DEF Chars
  <2> HIDE DEF e
  <2>8. Versioned(Front(v), t, k)
    BY <1>2, <1>6, <2>2
  <2>9. VersionedMore(v, t)
    BY <1>2, <2>1, <2>2, <2>5, <2>7, <2>8 DEF VersionedMore, e
  <2> QED
    BY <1>3, <1>4, <1>12, <2>9 DEF Shape, AuthorityStates, PathStates, VersionStates, v
<1> QED
  BY <1>5, <1>10, <1>11, <1>12

\* Every turn without an error keeps the shape.
LEMMA ShapeTurns ==
  ASSUME NEW p, NEW u, NEW c, NEW r, NEW n, NEW t, IsStep(p, u, c, r, n, t)
  PROVE  Shape(p, Append(u, c), t) /\ t.state = n /\ t.pos = r.pos + 1
<1>1. r.state \in States \ (Errors \cup {"kDone"})
  BY DEF IsStep, Lines, Members
<1>2. \/ r.state \in {"kStart", "kMethod"} \/ r.state = "kSpacesBeforeUrl"
      \/ r.state \in AuthorityStates \/ r.state \in PathStates \/ r.state = "kH"
      \/ r.state \in VersionStates
      \/ r.state \in {"kMinorDigit", "kCRLFAfterMinor", "kAlmostDone"}
  BY <1>1 DEF States, AuthorityStates, PathStates, VersionStates
<1>3. Shape(p, Append(u, c), t)
  BY <1>2, ShapeInMethod, ShapeInSpaces, ShapeInAuthority, ShapeInPath, ShapeInH,
     ShapeInVersion, ShapeAtEnd
<1> QED
  BY <1>3, StepIs

-----------------------------------------------------------------------------
(* What the loop has come to                                               *)

\* After m turns from position p on: an error, or a shape.
Come(p, text, m, t) ==
  \/ t.state \in Errors
  \/ /\ t.state \notin Errors /\ Shape(p, SubSeq(text, 1, t.pos), t)
     /\ t.state # "kDone" => t.pos = p + m

\* A turn comes to one or the other.
LEMMA TurnComes ==
  ASSUME NEW text \in Seq(Chars), NEW p \in Nat, NEW m \in Nat, p + m + 1 <= Len(text),
         NEW r \in Lines, r.pos <= p + m, Come(p, text, m, r),
         NEW k, k = p + m + 1, NEW t, t = Turn(r, text[k], SubSeq(text, 1, k - 1))
  PROVE  Come(p, text, m + 1, t)
<1> DEFINE c == text[k]
           u == SubSeq(text, 1, k - 1)
           s == r.state
           n == Next1(s, c, u)
<1>1. k \in 1..Len(text) /\ k - 1 = p + m /\ k - 1 \in 0..Len(text) /\ k \in Nat
  OBVIOUS
<1>2. c \in Chars /\ u \in Seq(Chars) /\ Len(u) = k - 1 /\ SubSeq(text, 1, k) = Append(u, c)
  BY <1>1, PrefixGrows
<1>3. CASE s \in Errors \cup {"kDone"}
  <2>1. t = r
    BY <1>3 DEF Turn
  <2> QED
    BY <1>3, <2>1 DEF Come, Errors
<1>4. CASE s \notin Errors \cup {"kDone"}
  <2>1. r.pos = k - 1 /\ Shape(p, u, r)
    BY <1>1, <1>4 DEF Come
  <2>2. t = Turn(r, c, u)
    OBVIOUS
  <2> HIDE DEF c, u, n
  <2>3. IsTurn(r, s, n, c, u, t)
    BY <1>2, <1>4, <2>2, TurnIs DEF n
  <2>4. CASE n \in Errors
    <3>1. t.state = n
      BY <2>1, <2>3, <2>4 DEF IsTurn
    <3> QED
      BY <2>4, <3>1 DEF Come
  <2>5. CASE n \notin Errors
    <3>1. IsStep(p, u, c, r, n, t)
      BY <1>2, <1>4, <2>1, <2>3, <2>5 DEF IsStep, n
    <3>2. Shape(p, Append(u, c), t) /\ t.state = n /\ t.pos = r.pos + 1
      BY <3>1, ShapeTurns
    <3>3. t.pos = k /\ t.pos = p + (m + 1)
      BY <1>1, <2>1, <3>2
    <3>4. Shape(p, SubSeq(text, 1, t.pos), t)
      BY <1>2, <3>2, <3>3
    <3> QED
      BY <2>5, <3>2, <3>3, <3>4 DEF Come
  <2> QED
    BY <2>4, <2>5
<1> QED
  BY <1>3, <1>4

\* And so does ParseRequestLine().
LEMMA ParseComes ==
  ASSUME NEW text \in Seq(Chars), NEW r \in Lines, r.pos <= Len(text),
         NEW t, t = ParseRequestLine(r, "kStart", text)
  PROVE  /\ t \in Lines /\ t.pos <= Len(text)
         /\ Come(r.pos, text, Len(text) - r.pos, t)
<1> DEFINE p == r.pos
           K == Len(text) - p
<1>1. p \in Nat /\ Len(text) \in Nat
  BY DEF Lines, Members
<1>2. K \in Nat
  BY <1>1
<1>3. PICK R : AreMembers(R, r, text) /\ R[K] = t
  BY ParseTurns
<1>4. /\ R[0] = [r EXCEPT !.state = "kStart"]
      /\ \A m \in 1..K : R[m] = Turn(R[m - 1], text[p + m], SubSeq(text, 1, (p + m) - 1))
      /\ \A m \in 0..K : R[m] \in Lines /\ R[m].pos <= p + m
  BY <1>3 DEF AreMembers
<1> DEFINE P == {m \in 0..K : Come(p, text, m, R[m])}
<1>5. 0 \in P
  <2>1. R[0].state = "kStart" /\ R[0].pos = p
    BY <1>4 DEF Lines, Members
  <2>2. Len(SubSeq(text, 1, p)) = p
    BY <1>1, PrefixGrows
  <2>3. Shape(p, SubSeq(text, 1, R[0].pos), R[0])
    BY <2>1, <2>2 DEF Shape, AuthorityStates, PathStates, VersionStates
  <2> QED
    BY <1>1, <1>2, <2>1, <2>3 DEF Come, Errors
<1>6. ASSUME NEW k \in 1..K, k - 1 \in P PROVE k \in P
  <2> DEFINE m == k - 1
             q == p + m + 1
  <2>1. m \in Nat /\ m \in 0..K /\ m + 1 = k /\ q = p + k /\ q <= Len(text)
    BY <1>1, <1>2
  <2>2. R[m] \in Lines /\ R[m].pos <= p + m /\ Come(p, text, m, R[m])
    BY <1>4, <1>6, <2>1
  <2>3. R[k] = Turn(R[m], text[q], SubSeq(text, 1, q - 1))
    BY <1>4, <2>1
  <2> HIDE DEF m, p, P
  <2>4. Come(p, text, m + 1, R[k])
    BY <1>1, <2>1, <2>2, <2>3, TurnComes
  <2> QED
    BY <1>2, <2>1, <2>4 DEF P
<1>7. 0..K \subseteq P
  <2> HIDE DEF P, K
  <2> QED
    BY <1>2, <1>5, <1>6, Induction
<1>8. Come(p, text, K, t)
  BY <1>2, <1>3, <1>7
<1>9. t \in Lines /\ t.pos <= Len(text)
  BY ParsedIs
<1> QED
  BY <1>8, <1>9

-----------------------------------------------------------------------------
(* What has been accepted                                                  *)

\* The slash, the dot, and one digit or two on either side.
IsParted(v, a, d) ==
  /\ a \in 4..Len(v) /\ v[a] = Slash /\ IsName(v, a - 1)
  /\ d \in {a + 2, a + 3} /\ \A i \in (a + 1)..(d - 1) : IsDigit(v[i])
  /\ d \in 1..Len(v) /\ v[d] = Dot /\ Len(v) - d \in 1..2 /\ IsDigit(v[d + 1])

\* Such a version is one but for the P and its last character.
LEMMA PartedIsNearly ==
  ASSUME NEW v \in Seq(Chars), NEW a, NEW d, IsParted(v, a, d)
  PROVE  IsNearlyVersion(v) /\ Find(v, Slash) = a /\ Find(v, Dot) = d
<1>1. /\ a \in 4..Len(v) /\ v[a] = Slash /\ IsName(v, a - 1)
      /\ d \in {a + 2, a + 3} /\ (\A i \in (a + 1)..(d - 1) : IsDigit(v[i]))
      /\ d \in 1..Len(v) /\ v[d] = Dot /\ Len(v) - d \in 1..2 /\ IsDigit(v[d + 1])
      /\ Len(v) \in Nat
  BY DEF IsParted
<1>2. v[1] = 72 /\ v[2] = 84 /\ v[3] = 84 /\ \A i \in 4..(a - 1) : v[i] = 80
  BY <1>1 DEF IsName
<1>3. \A i \in 1..(a - 1) : v[i] \in {72, 84, 80}
  <2> SUFFICES ASSUME NEW i \in 1..(a - 1) PROVE v[i] \in {72, 84, 80}
    OBVIOUS
  <2>1. i = 1 \/ i = 2 \/ i = 3 \/ i \in 4..(a - 1)
    BY <1>1
  <2> QED
    BY <1>2, <2>1
<1>4. \A i \in 1..(a - 1) : v[i] # Slash /\ v[i] # Dot
  BY <1>3 DEF Slash, Dot
<1>5. a \in 1..Len(v) /\ a \in 0..Len(v) /\ d \in Nat /\ a \in Nat
  BY <1>1
<1>6. Find(v, Slash) = a
  BY <1>1, <1>4, <1>5, FoundAt
<1> DEFINE rest == After(v, a)
           e == d - a
<1>7. /\ rest \in Seq(Chars) /\ Len(rest) = Len(v) - a
      /\ \A i \in 1..(Len(v) - a) : rest[i] = v[a + i]
  BY <1>5, BeforeAfter
<1>8. /\ e \in {2, 3} /\ e \in 1..Len(rest) /\ a + e = d /\ a + (e + 1) = d + 1
      /\ e \in 1..(Len(v) - a) /\ e + 1 \in 1..(Len(v) - a) /\ Len(rest) - e = Len(v) - d
  BY <1>1, <1>5, <1>7
<1>9. rest[e] = Dot /\ IsDigit(rest[e + 1]) /\ Len(rest) - e \in 1..2
  BY <1>1, <1>7, <1>8
<1>10. \A i \in 1..(e - 1) : IsDigit(rest[i])
  <2> SUFFICES ASSUME NEW i \in 1..(e - 1) PROVE IsDigit(rest[i])
    OBVIOUS
  <2>1. i \in 1..(Len(v) - a) /\ a + i \in (a + 1)..(d - 1)
    BY <1>1, <1>5, <1>8
  <2> QED
    BY <1>1, <1>7, <2>1
<1>11. \A i \in 1..(e - 1) : rest[i] # Dot
  BY <1>10 DEF IsDigit, Dot
<1> HIDE DEF rest, e
<1>12. Find(rest, Dot) = e
  BY <1>7, <1>8, <1>9, <1>11, FoundAt
<1>13. AreDigits(Before(rest, e), 2)
  <2> DEFINE b == Before(rest, e)
  <2>1. b \in Seq(Chars) /\ Len(b) = e - 1 /\ \A i \in 1..(e - 1) : b[i] = rest[i]
    <3>1. e \in 0..Len(rest) /\ e >= 1 /\ rest \in Seq(Chars)
      BY <1>7, <1>8
    <3> QED
      BY <3>1, BeforeAfter
  <2> HIDE DEF b
  <2>2. Len(b) \in 1..2
    BY <1>8, <2>1
  <2>3. \A c \in Range(b) : IsDigit(c)
    BY <1>10, <2>1 DEF Range
  <2> QED
    BY <2>2, <2>3 DEF AreDigits, b
<1>14. IsPrefix(<<72, 84, 84>>, v)
  <2> DEFINE h == <<72, 84, 84>>
  <2>1. h \in Seq(Chars) /\ Len(h) = 3 /\ h[1] = 72 /\ h[2] = 84 /\ h[3] = 84
    BY DEF Chars
  <2> HIDE DEF h
  <2>2. \A i \in 1..Len(h) : i = 1 \/ i = 2 \/ i = 3
    BY <2>1
  <2>3. StartsWith(v, h)
    BY <1>1, <1>2, <2>1, <2>2 DEF StartsWith
  <2> QED
    BY <2>1, <2>3, PrefixIs DEF h
<1>15. Range(SubSeq(v, 4, a - 1)) \subseteq {80}
  <2> DEFINE f == 4
             l == a - 1
             q == SubSeq(v, f, l)
  <2>1. f \in Nat /\ l \in Nat /\ f >= 1 /\ l <= Len(v) /\ f <= l + 1
    BY <1>1, <1>5
  <2>2. \A k \in 1..((l + 1) - f) : (f + k) - 1 \in 4..(a - 1)
    BY <1>5
  <2> HIDE DEF f, l
  <2>3. q \in Seq(Chars) /\ Len(q) = (l + 1) - f /\ \A k \in 1..((l + 1) - f) : q[k] = v[(f + k) - 1]
    BY <2>1, PartIs
  <2> HIDE DEF q
  <2>4. \A k \in 1..Len(q) : q[k] = 80
    BY <1>2, <2>2, <2>3
  <2>5. Range(q) \subseteq {80}
    BY <2>3, <2>4 DEF Range
  <2> QED
    BY <2>5 DEF q, f, l
<1>16. Find(v, Dot) = d
  <2>1. \A i \in 1..(d - 1) : v[i] # Dot
    <3> SUFFICES ASSUME NEW i \in 1..(d - 1) PROVE v[i] # Dot
      OBVIOUS
    <3>1. i \in 1..(a - 1) \/ i = a \/ i \in (a + 1)..(d - 1)
      BY <1>5
    <3>2. Slash # Dot /\ ~IsDigit(Dot)
      BY DEF Slash, Dot, IsDigit
    <3> QED
      BY <1>1, <1>4, <3>1, <3>2
  <2> QED
    BY <1>1, <2>1, FoundAt
<1>17. a > 3 /\ e > 0
  BY <1>1, <1>8
<1> QED
  BY <1>6, <1>9, <1>12, <1>13, <1>14, <1>15, <1>16, <1>17 DEF IsNearlyVersion, rest

\* A version with one minor digit, and what it is with one character more.
LEMMA VersionIsParted ==
  ASSUME NEW v \in Seq(Chars), NEW c \in Chars, NEW a, NEW d, NEW m, NEW n,
         Major(v, a, d, m), Minor(v, d, n)
  PROVE  IsParted(v, a, d) /\ IsParted(Append(v, c), a, d)
<1> DEFINE y == Append(v, c)
<1>1. /\ a \in 4..Len(v) /\ v[a] = Slash /\ IsName(v, a - 1) /\ d \in {a + 2, a + 3}
      /\ Len(v) \in Nat
      /\ m = IF d = a + 2 THEN v[a + 1] - 48 ELSE ((v[a + 1] - 48) * 10 + v[a + 2]) - 48
  BY MajorIs
<1>2. \A i \in (a + 1)..(d - 1) : IsDigit(v[i])
  BY DEF Major
<1>3. d + 1 = Len(v) /\ v[d] = Dot /\ IsDigit(v[d + 1])
  BY DEF Minor
<1>4. Len(y) = Len(v) + 1 /\ \A i \in 1..Len(v) : y[i] = v[i]
  BY Appended
<1>5. a - 1 \in Nat /\ a - 1 <= Len(v) /\ a \in Nat /\ d \in Nat
  BY <1>1
<1>6. IsName(y, a - 1)
  <2> DEFINE b == a - 1
  <2> HIDE DEF b
  <2>1. b \in Nat /\ b <= Len(v) /\ IsName(v, b)
    BY <1>1, <1>5 DEF b
  <2>2. IsName(Append(v, c), b)
    BY <2>1, NameStays
  <2> QED
    BY <2>2 DEF b
<1>7. d \in 1..Len(v) /\ d + 1 \in 1..Len(v) /\ Len(v) - d = 1
  BY <1>1, <1>3, <1>5
<1>8. \A i \in (a + 1)..(d - 1) : i \in 1..Len(v)
  BY <1>5, <1>7
<1> HIDE DEF y
<1>9. IsParted(v, a, d)
  BY <1>1, <1>2, <1>3, <1>7 DEF IsParted
<1>10. IsParted(y, a, d)
  <2>1. a \in 4..Len(y) /\ y[a] = Slash /\ d \in 1..Len(y) /\ y[d] = Dot /\ Len(y) - d \in 1..2
        /\ IsDigit(y[d + 1])
    BY <1>1, <1>3, <1>4, <1>5, <1>7
  <2>2. \A i \in (a + 1)..(d - 1) : IsDigit(y[i])
    BY <1>2, <1>4, <1>8
  <2> QED
    BY <1>1, <1>6, <2>1, <2>2 DEF IsParted
<1> QED
  BY <1>9, <1>10 DEF y

\* A part of a prefix.
LEMMA PartOfPrefix ==
  ASSUME NEW T, NEW t \in Seq(T), NEW n \in 0..Len(t), NEW f, f = SubSeq(t, 1, n),
         NEW i \in Nat, NEW j \in Nat, i >= 1, i <= j, j <= n
  PROVE  SubSeq(f, i, j) = SubSeq(t, i, j)
<1> DEFINE a == SubSeq(f, i, j)
           b == SubSeq(t, i, j)
           m == (j + 1) - i
<1>1. /\ f \in Seq(T) /\ Len(f) = n /\ (\A k \in 1..n : f[k] = t[k]) /\ Len(t) \in Nat /\ n \in Nat
  BY PrefixGrows
<1>2. j <= Len(f) /\ j <= Len(t) /\ i <= j + 1 /\ m \in Nat
  BY <1>1
<1>3. a \in Seq(T) /\ Len(a) = m /\ \A k \in 1..m : a[k] = f[(i + k) - 1]
  BY <1>1, <1>2, PartIs
<1>4. b \in Seq(T) /\ Len(b) = m /\ \A k \in 1..m : b[k] = t[(i + k) - 1]
  BY <1>1, <1>2, PartIs
<1>5. \A k \in 1..m : (i + k) - 1 \in 1..n
  BY <1>1
<1> HIDE DEF a, b, m
<1>6. \A k \in 1..m : a[k] = b[k]
  BY <1>1, <1>3, <1>4, <1>5
<1> QED
  BY <1>2, <1>3, <1>4, <1>6, SeqEqual DEF a, b

\* Of a line that three words begin, the method and the URL are known.
LEMMA AskedExtends ==
  ASSUME NEW t \in Seq(Chars), NEW n \in 0..Len(t), NEW f, f = SubSeq(t, 1, n), NEW r,
         Asked(f, r), Len(WordsOf(f)) = 3
  PROVE  /\ Asked(t, r) /\ WordsOf(t)[1] = WordsOf(f)[1] /\ WordsOf(t)[2] = WordsOf(f)[2]
         /\ Len(WordsOf(t)) >= 3
         /\ r.start \in 1..r.end /\ r.end \in 1..Len(f)
         /\ SubSeq(f, r.start, r.end) = SubSeq(t, r.start, r.end)
<1> DEFINE w == WordsOf(f)
           x == WordsOf(t)
           i == r.start
           j == r.end
<1>1. Begins(w, x, AtGap(f))
  BY WordsExtend
<1>2. f \in Seq(Chars) /\ Len(f) = n /\ Len(t) \in Nat /\ n \in Nat /\ n <= Len(t)
  BY PrefixGrows
<1>3. w \in Seq(Seq(Chars)) /\ x \in Seq(Seq(Chars)) /\ Len(w) = 3 /\ Len(x) \in Nat
  <2> DEFINE T == Seq(Chars)
  <2>1. w \in Seq(T) /\ x \in Seq(T) /\ Len(w) = 3
    BY <1>2, WordsIs
  <2> HIDE DEF w, x, T
  <2>2. Len(x) \in Nat
    BY <2>1
  <2> QED
    BY <2>1, <2>2 DEF T
<1> HIDE DEF w, x
<1>4. Len(x) >= 3 /\ x[1] = w[1] /\ x[2] = w[2]
  BY <1>1, <1>3 DEF Begins
<1>5. /\ w[1] = r.method /\ PathIs(f, w[2], i, j)
      /\ ~r.complex => Quiet(SubSeq(f, i, j))
  BY DEF Asked, w
<1> HIDE DEF i, j
<1>6. /\ i \in 1..j /\ j \in 1..Len(f) /\ SubSeq(f, i, j) = SubSeq(w[2], PathStart(w[2]), Len(w[2]))
      /\ PathStart(w[2]) \in 1..Len(w[2]) /\ w[2][PathStart(w[2])] = Slash
  BY <1>5 DEF PathIs
<1>7. i \in Nat /\ j \in Nat /\ i >= 1 /\ i <= j /\ j <= n /\ j \in 1..Len(t)
  BY <1>2, <1>6
<1>8. SubSeq(f, i, j) = SubSeq(t, i, j)
  BY <1>7, PartOfPrefix
<1>9. PathIs(t, x[2], i, j)
  BY <1>4, <1>6, <1>7, <1>8 DEF PathIs
<1>10. Asked(t, r)
  <2>1. Len(x) >= 2
    BY <1>3, <1>4
  <2>2. x[1] = r.method /\ (~r.complex => Quiet(SubSeq(t, i, j)))
    BY <1>4, <1>5, <1>8, Zenon
  <2> QED
    BY <1>9, <2>1, <2>2, Zenon DEF Asked, x, i, j
<1> QED
  BY <1>4, <1>6, <1>8, <1>10 DEF i, j, w, x

\* A line ends as its last word does.
LEMMA LastWordEnds ==
  ASSUME NEW b \in Seq(Chars), b # <<>>, Last(b) # Space
  PROVE  /\ Len(WordsOf(b)) >= 1 /\ WordsOf(b)[Len(WordsOf(b))] # <<>>
         /\ Last(WordsOf(b)[Len(WordsOf(b))]) = Last(b)
<1> DEFINE f == Front(b)
           c == Last(b)
           w == WordsOf(f)
           x == WordsOf(b)
           T == Seq(Chars)
<1>1. f \in Seq(Chars) /\ c \in Chars /\ b = Append(f, c)
  BY FrontLast
<1>2. Started(w, x, c) \/ Grown(w, x, c)
  <2>1. x = WordsOf(Append(f, c))
    BY <1>1
  <2> HIDE DEF f, c, x
  <2> QED
    BY <1>1, <2>1, WordStarts DEF c
<1>3. w \in Seq(T) /\ x \in Seq(T)
  BY <1>1, WordsIs
<1> HIDE DEF w, x, T, c, f
<1>4. CASE Started(w, x, c)
  <2>1. Len(x) >= 1 /\ x[Len(x)] = <<c>>
    BY <1>3, <1>4 DEF Started
  <2> DEFINE e == <<>>
  <2>2. e \in Seq(Chars)
    OBVIOUS
  <2>3. Append(e, c) = <<c>>
    OBVIOUS
  <2> HIDE DEF e
  <2>4. Append(e, c) # <<>> /\ Last(Append(e, c)) = c
    BY <1>1, <2>2, Appended
  <2> QED
    BY <2>1, <2>3, <2>4 DEF x, c
<1>5. CASE Grown(w, x, c)
  <2>1. Len(x) >= 1 /\ x[Len(x)] = Append(w[Len(w)], c) /\ Len(w) \in 1..Len(w)
    BY <1>3, <1>5 DEF Grown
  <2>2. w[Len(w)] \in T
    BY <1>3, <2>1, ElementOfSeq
  <2> DEFINE e == w[Len(w)]
  <2>3. e \in Seq(Chars) /\ x[Len(x)] = Append(e, c)
    BY <2>1, <2>2 DEF T
  <2> HIDE DEF e
  <2>4. Append(e, c) # <<>> /\ Last(Append(e, c)) = c
    BY <1>1, <2>3, Appended
  <2> QED
    BY <2>1, <2>3, <2>4 DEF x, c
<1> QED
  BY <1>2, <1>4, <1>5

\* What precedes the line end does not end with a CR.
LEMMA BodyEnds ==
  ASSUME NEW b \in Seq(Chars), NEW r, IsBody(b, r)
  PROVE  b # <<>> /\ Last(b) # CR
<1>1. b # <<>>
  BY DEF IsBody
<1>2. CASE VersionedMore(b, r)
  BY <1>1, <1>2 DEF VersionedMore
<1>3. CASE Versioned(b, r, r.minor)
  <2> DEFINE w == WordsOf(b)
             v == w[3]
  <2>1. Last(b) # Space /\ Len(w) = 3 /\ VersionIs(v, r.major, r.minor)
    BY <1>3 DEF Versioned
  <2>2. v # <<>> /\ Last(v) = Last(b)
    BY <1>1, <2>1, LastWordEnds
  <2>3. PICK d \in 1..Len(v) : Minor(v, d, r.minor)
    BY <2>1 DEF VersionIs
  <2>4. Len(v) = d + 1 /\ IsDigit(v[d + 1])
    BY <2>3 DEF Minor
  <2>5. Last(v) = v[d + 1]
    BY <2>4 DEF Last
  <2> QED
    BY <1>1, <2>2, <2>4, <2>5 DEF IsDigit, CR
<1> QED
  BY <1>2, <1>3 DEF IsBody

\* A letter of a method is no space.
LEMMA UpperLetters ==
  ASSUME NEW c, IsUpperLetter(c)
  PROVE  c # Space /\ c # CR /\ c # LF
BY DEF IsUpperLetter, Space, CR, LF

\* A method starts with one.
LEMMA MethodStarts ==
  ASSUME NEW m \in Methods
  PROVE  1 \in 1..Len(m) /\ IsUpperLetter(m[1])
<1>1. Len(m) \in 3..4 /\ \A i \in 1..Len(m) : IsUpperLetter(m[i])
  BY MethodWord
<1>2. 1 \in 1..Len(m)
  BY <1>1
<1> QED
  BY <1>1, <1>2

\* Three words are a line.
LEMMA LineIs ==
  ASSUME NEW y \in Seq(Chars), y # <<>>, y[1] # Space, Last(y) # Space, Len(WordsOf(y)) = 3,
         WordsOf(y)[1] \in Methods, PathStart(WordsOf(y)[2]) > 0, IsNearlyVersion(WordsOf(y)[3])
  PROVE  IsLineOf(y, IsNearlyVersion)
BY DEF IsLineOf

\* The words of a line with one minor digit, or with a second one at the end.
LEMMA NearlyLine ==
  ASSUME NEW b \in Seq(Chars), NEW r, NEW n, Versioned(b, r, n), r.method \in Methods, b[1] # Space,
         NEW c \in Chars, c # Space
  PROVE  IsLineOf(b, IsNearlyVersion) /\ IsLineOf(Append(b, c), IsNearlyVersion)
<1> DEFINE w == WordsOf(b)
           y == Append(b, c)
           x == WordsOf(y)
           k == 3
<1>1. /\ b # <<>> /\ Last(b) # Space /\ Len(w) = 3 /\ Asked(b, r) /\ VersionIs(w[3], r.major, n)
  BY DEF Versioned
<1>2. w[1] = r.method /\ PathStart(w[2]) > 0
  <2>1. PathStart(w[2]) \in 1..Len(w[2])
    BY <1>1 DEF Asked, PathIs
  <2> QED
    BY <1>1, <2>1 DEF Asked
<1>3. /\ Len(x) = 3 /\ x[3] = Append(w[3], c) /\ x[1] = w[1] /\ x[2] = w[2]
      /\ w[3] \in Seq(Chars)
  <2>1. k \in {2, 3} /\ Len(w) = k
    BY <1>1
  <2> HIDE DEF w, x, k
  <2>2. /\ Len(x) = k /\ x[k] = Append(w[k], c) /\ x[1] = w[1] /\ (k = 3 => x[2] = w[2])
        /\ \A i \in 1..k : w[i] \in Seq(Chars)
    BY <1>1, <2>1, LastWordGrows DEF w, x
  <2> QED
    BY <2>2 DEF k
<1>4. /\ y \in Seq(Chars) /\ y # <<>> /\ Last(y) = c /\ y[1] = b[1]
  <2>1. /\ y \in Seq(Chars) /\ y # <<>> /\ Last(y) = c /\ Len(b) \in Nat
        /\ \A i \in 1..Len(b) : y[i] = b[i]
    BY Appended
  <2>2. 1 \in 1..Len(b)
    BY <1>1
  <2> QED
    BY <2>1, <2>2
<1> DEFINE v == w[3]
<1>5. PICK a \in 4..Len(v), d \in 1..Len(v) : Major(v, a, d, r.major) /\ Minor(v, d, n)
  BY <1>1 DEF VersionIs
<1>6. v \in Seq(Chars)
  BY <1>3
<1> HIDE DEF v
<1>7. IsParted(v, a, d) /\ IsParted(Append(v, c), a, d)
  BY <1>5, <1>6, VersionIsParted
<1>8. Append(v, c) \in Seq(Chars)
  BY <1>6
<1>9. IsNearlyVersion(v) /\ IsNearlyVersion(Append(v, c))
  BY <1>6, <1>7, <1>8, PartedIsNearly
<1>10. IsLineOf(b, IsNearlyVersion)
  <2>1. IsNearlyVersion(w[3])
    BY <1>9 DEF v
  <2> HIDE DEF w
  <2>2. w[1] \in Methods
    BY <1>2
  <2> QED
    BY <1>1, <1>2, <2>1, <2>2, LineIs DEF w
<1>11. IsLineOf(y, IsNearlyVersion)
  <2>1. IsNearlyVersion(x[3]) /\ x[1] \in Methods /\ PathStart(x[2]) > 0
    BY <1>2, <1>3, <1>9 DEF v
  <2>2. y[1] # Space /\ Last(y) # Space
    BY <1>4
  <2> HIDE DEF x, y
  <2> QED
    BY <1>3, <1>4, <2>1, <2>2, LineIs DEF x
<1> QED
  BY <1>10, <1>11

\* What of an accepted line the members are.
IsAccepted(u, r) ==
  /\ IsNearlyRequestLine(u) /\ r.method = WordsOf(u)[1]
  /\ r.start \in 1..r.end /\ r.end \in 1..Len(u)
  /\ PathText(u) = SubSeq(u, r.start, r.end)
  /\ PathText(u)[1] = Slash
  /\ ~r.complex => Quiet(PathText(u))

\* Of a string, the front is a part.
LEMMA FrontIs ==
  ASSUME NEW b \in Seq(Chars), b # <<>>, NEW f, f = Front(b), f # <<>>
  PROVE  /\ f \in Seq(Chars) /\ Len(f) \in 0..Len(b) /\ f = SubSeq(b, 1, Len(f)) /\ f[1] = b[1]
         /\ Len(f) = Len(b) - 1
<1>1. f \in Seq(Chars) /\ Len(f) = Len(b) - 1 /\ Len(b) \in Nat \ {0}
  BY FrontLast
<1>2. f = SubSeq(b, 1, Len(f))
  BY <1>1 DEF Front
<1> DEFINE m == Len(f)
<1>3. m \in 0..Len(b) /\ 1 \in 1..m
  BY <1>1
<1>4. f = SubSeq(b, 1, m)
  BY <1>2
<1> HIDE DEF m
<1>5. \A i \in 1..m : SubSeq(b, 1, m)[i] = b[i]
  BY <1>3, PrefixGrows
<1>6. f[1] = b[1]
  BY <1>3, <1>4, <1>5
<1> QED
  BY <1>1, <1>2, <1>3, <1>6 DEF m

\* All but the line end begins with three words, up to m.
BodyStarts(b, r, m) ==
  /\ m \in 0..Len(b) /\ Asked(SubSeq(b, 1, m), r) /\ Len(WordsOf(SubSeq(b, 1, m))) = 3
  /\ \E d \in {Last(b), 49} : IsLineOf(Append(Front(b), d), IsNearlyVersion)

\* It does, with one minor digit or two.
LEMMA BodyBegins ==
  ASSUME NEW b \in Seq(Chars), b # <<>>, NEW r, IsBody(b, r), r.method \in Methods, b[1] # Space
  PROVE  \E m : BodyStarts(b, r, m)
<1>1. 49 \in Chars /\ 49 # Space
  BY DEF Chars, Space
<1>2. CASE Versioned(b, r, r.minor)
  <2> DEFINE m == Len(b)
  <2>1. Asked(b, r) /\ Len(WordsOf(b)) = 3
    BY <1>2 DEF Versioned
  <2>2. IsLineOf(b, IsNearlyVersion)
    BY <1>1, <1>2, NearlyLine
  <2>3. b = Append(Front(b), Last(b))
    BY FrontLast
  <2>4. b = SubSeq(b, 1, m)
    BY PrefixGrows
  <2>5. m \in 0..Len(b)
    OBVIOUS
  <2> HIDE DEF m
  <2>6. \E d \in {Last(b), 49} : IsLineOf(Append(Front(b), d), IsNearlyVersion)
    BY <2>2, <2>3
  <2>7. BodyStarts(b, r, m)
    BY <2>1, <2>4, <2>5, <2>6, Zenon DEF BodyStarts
  <2> QED
    BY <2>7
<1>3. CASE VersionedMore(b, r)
  <2> DEFINE f == Front(b)
             m == Len(f)
  <2>1. PICK k \in 0..9 : Versioned(f, r, k)
    BY <1>3 DEF VersionedMore
  <2>2. Asked(f, r) /\ Len(WordsOf(f)) = 3
    BY <2>1 DEF Versioned
  <2>3. f # <<>>
    BY <1>3 DEF VersionedMore
  <2>4. f \in Seq(Chars) /\ m \in 0..Len(b) /\ f = SubSeq(b, 1, m) /\ f[1] = b[1]
    BY <2>3, FrontIs
  <2> HIDE DEF f, m
  <2>5. IsLineOf(Append(f, 49), IsNearlyVersion)
    BY <1>1, <2>1, <2>4, NearlyLine
  <2>6. BodyStarts(b, r, m)
    BY <2>2, <2>4, <2>5, Zenon DEF BodyStarts, f
  <2> QED
    BY <2>6
<1> QED
  BY <1>2, <1>3 DEF IsBody

\* The line t has the method and the URL of its part f.
SameAsked(t, f, r) ==
  /\ Asked(t, r) /\ Len(WordsOf(t)) >= 3 /\ SubSeq(f, r.start, r.end) = SubSeq(t, r.start, r.end)
  /\ r.start \in 1..r.end /\ r.end \in 1..Len(f)

\* It has if the part has three words.
LEMMA StartsAsked ==
  ASSUME NEW t \in Seq(Chars), NEW r, NEW m \in 0..Len(t), NEW f, f = SubSeq(t, 1, m),
         Asked(f, r), Len(WordsOf(f)) = 3
  PROVE  SameAsked(t, f, r)
BY AskedExtends, ZenonT(60) DEF SameAsked

\* So does the whole line.
LEMMA BodyExtends ==
  ASSUME NEW u \in Seq(Chars), NEW n \in 0..Len(u), NEW b, b = SubSeq(u, 1, n),
         NEW r, NEW m, BodyStarts(b, r, m)
  PROVE  /\ Asked(b, r) /\ Asked(u, r) /\ SubSeq(b, r.start, r.end) = SubSeq(u, r.start, r.end)
         /\ Len(WordsOf(b)) >= 3 /\ r.start \in 1..r.end /\ r.end \in 1..Len(u)
<1> DEFINE f == SubSeq(b, 1, m)
<1>1. b \in Seq(Chars) /\ Len(b) = n /\ n \in Nat /\ Len(u) \in Nat /\ n <= Len(u)
  BY PrefixGrows
<1>2. m \in 0..Len(b) /\ Asked(f, r) /\ Len(WordsOf(f)) = 3
  BY DEF BodyStarts
<1>3. f = SubSeq(u, 1, m) /\ m \in 0..Len(u)
  <2> DEFINE o == 1
  <2>1. CASE m >= 1
    <3>1. o \in Nat /\ o >= 1 /\ o <= m /\ m <= n /\ m \in Nat
      BY <1>1, <1>2, <2>1
    <3> HIDE DEF o
    <3>2. SubSeq(b, o, m) = SubSeq(u, o, m)
      BY <3>1, PartOfPrefix
    <3> QED
      BY <1>1, <3>1, <3>2 DEF o
  <2>2. CASE m = 0
    <3>1. SubSeq(b, 1, 0) = <<>> /\ SubSeq(u, 1, 0) = <<>>
      BY <1>1, PrefixGrows
    <3> QED
      BY <1>1, <2>2, <3>1
  <2> QED
    BY <1>1, <1>2, <2>1, <2>2
<1>4. f = SubSeq(b, 1, m)
  OBVIOUS
<1> HIDE DEF f
<1>5. SameAsked(b, f, r)
  BY <1>1, <1>2, <1>4, StartsAsked
<1>6. SameAsked(u, f, r)
  BY <1>2, <1>3, StartsAsked
<1>7. r.end \in 1..Len(u)
  <2>1. Len(f) = m
    BY <1>3, PrefixGrows
  <2> QED
    BY <1>1, <1>3, <1>5, <2>1 DEF SameAsked
<1> QED
  BY <1>5, <1>6, <1>7, Zenon DEF SameAsked

\* The path in a line's second word is where the members say.
LEMMA PathTextIs ==
  ASSUME NEW u, NEW b \in Seq(Chars), b = Chop(u), NEW r, Asked(b, r)
  PROVE  /\ PathText(u) = SubSeq(b, r.start, r.end) /\ PathText(u)[1] = Slash
         /\ ~r.complex => Quiet(PathText(u))
<1> DEFINE x == WordsOf(b)[2]
           q == PathStart(x)
           i == r.start
           j == r.end
<1>1. /\ PathIs(b, x, i, j) /\ (~r.complex => Quiet(SubSeq(b, i, j))) /\ Len(WordsOf(b)) >= 2
  BY DEF Asked
<1>2. PathText(u) = SubSeq(x, q, Len(x))
  BY DEF PathText
<1>3. x \in Seq(Chars)
  <2> DEFINE T == Seq(Chars)
             w == WordsOf(b)
  <2>1. w \in Seq(T) /\ Len(w) >= 2
    BY <1>1, WordsIs
  <2> HIDE DEF T, w
  <2>2. w[2] \in T
    BY <2>1, ElementOfSeq
  <2> QED
    BY <2>2 DEF T, w
<1> HIDE DEF x, i, j
<1>4. q \in 1..Len(x) /\ x[q] = Slash /\ SubSeq(b, i, j) = SubSeq(x, q, Len(x))
  BY <1>1 DEF PathIs
<1> HIDE DEF q
<1>5. PathText(u)[1] = Slash
  <2> DEFINE l == Len(x)
  <2>1. /\ l \in Nat /\ q \in Nat /\ q >= 1 /\ q <= l + 1 /\ 1 \in 1..((l + 1) - q) /\ (q + 1) - 1 = q
        /\ l <= Len(x)
    BY <1>3, <1>4
  <2> HIDE DEF l
  <2>2. SubSeq(x, q, l)[1] = x[(q + 1) - 1]
    BY <1>3, <2>1, PartIs
  <2> QED
    BY <1>2, <1>4, <2>1, <2>2 DEF l
<1>6. PathText(u) = SubSeq(b, i, j)
  BY <1>2, <1>4
<1>7. ~r.complex => Quiet(PathText(u))
  BY <1>1, <1>6
<1> QED
  BY <1>5, <1>6, <1>7 DEF i, j

\* All but the line end makes a line accepted.
LEMMA BodyIs ==
  ASSUME NEW u \in Seq(Chars), u # <<>>, Last(u) = LF, NEW n \in 0..Len(u), NEW b, b = SubSeq(u, 1, n),
         b = Chop(u), NEW r, IsBody(b, r), r.method \in Methods, u[1] # Space
  PROVE  IsAccepted(u, r)
<1>1. /\ b \in Seq(Chars) /\ Len(b) = n /\ (\A i \in 1..n : b[i] = u[i]) /\ n \in Nat /\ Len(u) \in Nat
      /\ n <= Len(u) /\ b # <<>>
  BY PrefixGrows DEF IsBody
<1>2. b[1] # Space
  <2>1. 1 \in 1..n
    BY <1>1
  <2> QED
    BY <1>1, <2>1
<1>3. PICK m : BodyStarts(b, r, m)
  BY <1>1, <1>2, BodyBegins
<1>4. IsNearlyRequestLine(u)
  BY <1>3 DEF BodyStarts, IsNearlyRequestLine
<1>5. /\ Asked(b, r) /\ Asked(u, r) /\ SubSeq(b, r.start, r.end) = SubSeq(u, r.start, r.end)
      /\ r.start \in 1..r.end /\ r.end \in 1..Len(u)
  BY <1>3, BodyExtends, Zenon
<1>6. /\ PathText(u) = SubSeq(b, r.start, r.end) /\ PathText(u)[1] = Slash
      /\ ~r.complex => Quiet(PathText(u))
  BY <1>1, <1>5, PathTextIs, Zenon
<1>7. r.method = WordsOf(u)[1]
  BY <1>5, Zenon DEF Asked
<1> QED
  BY <1>4, <1>5, <1>6, <1>7, Zenon DEF IsAccepted

\* What the loop has taken at kDone is accepted.
LEMMA DoneIs ==
  ASSUME NEW p \in Nat, NEW u \in Seq(Chars), NEW r, r.state = "kDone", Shape(p, u, r)
  PROVE  /\ IsAccepted(u, r) /\ Chosen(p, u, r) /\ IsBody(Chop(u), r)
         /\ \E n \in 0..Len(u) : Chop(u) = SubSeq(u, 1, n)
<1>1. /\ u # <<>> /\ Last(u) = LF
      /\ \/ IsBody(Front(u), r)
         \/ /\ Front(u) # <<>> /\ Last(Front(u)) = CR
            /\ IsBody(Front(Front(u)), r)
      /\ Chosen(p, u, r)
  BY DEF Shape
<1> DEFINE f == Front(u)
           m == Len(f)
<1>2. f \in Seq(Chars) /\ m = Len(u) - 1 /\ Len(u) \in Nat /\ Len(u) >= 1 /\ m \in 0..Len(u)
  BY <1>1, FrontLast
<1>3. f = SubSeq(u, 1, m)
  BY <1>2 DEF Front
<1>4. \A i \in 1..m : f[i] = u[i]
  <2> HIDE DEF f, m
  <2> QED
    BY <1>2, <1>3, PrefixGrows
<1>5. r.method \in Methods /\ u[1] # Space
  <2>1. /\ r.method \in Methods /\ \A i \in 1..Len(r.method) : u[i] = r.method[i]
    BY <1>1 DEF Chosen
  <2>2. 1 \in 1..Len(r.method) /\ IsUpperLetter(r.method[1])
    BY <2>1, MethodStarts
  <2>3. IsUpperLetter(u[1])
    BY <2>1, <2>2
  <2>4. u[1] # Space
    BY <2>3, UpperLetters
  <2> QED
    BY <2>1, <2>4
<1>6. CASE IsBody(f, r)
  <2>1. f # <<>> /\ Last(f) # CR
    BY <1>2, <1>6, BodyEnds
  <2>2. Last(f) = u[Len(u) - 1]
    <3>1. Last(f) = f[m] /\ m \in 1..m
      BY <1>2, <2>1, LastIs
    <3> QED
      BY <1>2, <1>4, <3>1
  <2>3. Chop(u) = f
    BY <2>1, <2>2 DEF Chop
  <2>4. IsAccepted(u, r)
    BY <1>1, <1>2, <1>3, <1>5, <1>6, <2>3, BodyIs
  <2> QED
    BY <1>1, <1>2, <1>3, <1>6, <2>3, <2>4
<1>7. CASE f # <<>> /\ Last(f) = CR /\ IsBody(Front(f), r)
  <2> DEFINE g == Front(f)
             k == Len(g)
  <2>1. g \in Seq(Chars) /\ k = m - 1 /\ m \in Nat /\ m >= 1 /\ k = Len(u) - 2 /\ k \in 0..Len(u)
    BY <1>2, <1>7, FrontLast
  <2>2. Last(f) = u[Len(u) - 1]
    <3>1. Last(f) = f[m] /\ m \in 1..m
      BY <1>2, <1>7, LastIs
    <3> QED
      BY <1>2, <1>4, <3>1
  <2>3. g # <<>>
    BY <1>7 DEF IsBody
  <2>4. g = SubSeq(u, 1, k)
    <3>1. g = SubSeq(f, 1, k)
      BY <2>1 DEF Front
    <3> DEFINE o == 1
    <3>2. o \in Nat /\ o >= 1 /\ o <= k /\ k <= m /\ k \in Nat
      BY <2>1, <2>3
    <3> HIDE DEF o, m, f, k, g
    <3>3. SubSeq(f, o, k) = SubSeq(u, o, k)
      BY <1>2, <1>3, <3>2, PartOfPrefix
    <3> QED
      BY <3>1, <3>3 DEF o
  <2>5. Chop(u) = g
    <3>1. Len(u) >= 2 /\ u[Len(u) - 1] = CR
      BY <1>2, <1>7, <2>1, <2>2
    <3>2. Chop(u) = SubSeq(u, 1, Len(u) - 2)
      BY <3>1 DEF Chop
    <3> HIDE DEF g, k
    <3> QED
      BY <2>1, <2>4, <3>2
  <2> HIDE DEF f, g, k
  <2>6. IsBody(g, r)
    BY <1>7 DEF g
  <2>7. IsAccepted(u, r)
    BY <1>1, <1>5, <2>1, <2>4, <2>5, <2>6, BodyIs
  <2> QED
    BY <1>1, <2>1, <2>4, <2>5, <2>6, <2>7
<1> QED
  BY <1>1, <1>6, <1>7

-----------------------------------------------------------------------------
(* The URL of an accepted line                                             *)

\* A character is added to the URL, or a segment is taken back, or it stays.
LEMMA UrlAfter ==
  ASSUME NEW m \in Machines, NEW c \in Chars, NEW v, v = Feed(m, c).url
  PROVE  \/ v = m.url
         \/ \E x \in Chars : v = Append(m.url, x)
         \/ v = EraseSegment(m.url)
<1>1. CASE ~m.ok
  BY <1>1 DEF Feed
<1>2. CASE m.ok /\ m.state \in {"kPersentFirst", "kPersentSecond"}
  <2> DEFINE d == DigitValue(c) % 256
             code == (m.digit * 16 + DigitValue(c)) % 256
  <2>1. Feed(m, c) \in {[m EXCEPT !.ok = FALSE], [m EXCEPT !.state = "kPersentSecond", !.digit = d],
                        [m EXCEPT !.state = m.trap, !.digit = code, !.url = Append(@, code)]}
    BY <1>2 DEF Feed, FeedPercent
  <2>2. code \in Chars
    <3>1. m.digit \in Int /\ DigitValue(c) \in Int
      <4>1. m.digit \in Chars
        BY DEF Machines
      <4> QED
        BY <4>1, DigitValueIs DEF Chars
    <3>2. \A n \in Int : n % 256 \in Chars
      BY DEF Chars
    <3> QED
      BY <3>1, <3>2
  <2> HIDE DEF d, code
  <2> DEFINE a == Append(m.url, code)
  <2>3. v = m.url \/ v = a
    <3> HIDE DEF a
    <3> QED
      BY <2>1 DEF Machines, a
  <2> QED
    BY <2>2, <2>3
<1>3. CASE m.ok /\ m.state \in Places /\ c = Percent
  <2>1. Feed(m, c) = [m EXCEPT !.state = "kPersentFirst", !.trap = m.state]
    BY <1>3 DEF Feed, Places
  <2>2. Feed(m, c).url = m.url
    BY <2>1 DEF Machines
  <2> QED
    BY <2>2
<1>4. CASE m.ok /\ m.state \in Places /\ c # Percent
  <2>1. Feed(m, c) = FeedPlain(m, c)
    BY <1>4 DEF Feed, Places
  <2>2. v = IF m.state = "kDoubleDot" /\ c = Slash THEN EraseSegment(m.url)
            ELSE IF Copies(m.state, c) THEN Append(m.url, c) ELSE m.url
    BY <2>1, FeedPlainIs
  <2> QED
    BY <2>2
<1> QED
  BY <1>1, <1>2, <1>3, <1>4 DEF Machines

\* What starts with a slash does so when a segment is taken back.
LEMMA RootedErased ==
  ASSUME NEW u \in Seq(Chars), u # <<>>, u[1] = Slash
  PROVE  EraseSegment(u) # <<>> /\ EraseSegment(u)[1] = Slash
<1> DEFINE last == IF Len(u) >= 2 THEN Len(u) - 1 ELSE Len(u)
           slashes == {i \in 1..last : u[i] = Slash}
<1>1. Len(u) \in Nat \ {0}
  OBVIOUS
<1>2. last \in 1..Len(u) /\ last \in Nat
  BY <1>1
<1> HIDE DEF last
<1>3. EraseSegment(u) = SubSeq(u, 1, IF slashes = {} THEN 0 ELSE Max(slashes))
  BY DEF EraseSegment, last
<1>4. 1 \in slashes /\ slashes \in SUBSET (1..last)
  BY <1>1, <1>2
<1> HIDE DEF slashes
<1>5. PICK m \in slashes : Max(slashes) = m
  BY <1>2, <1>4, GreatestNumber
<1> DEFINE e == SubSeq(u, 1, m)
<1>6. m \in 1..Len(u) /\ EraseSegment(u) = e
  BY <1>1, <1>2, <1>3, <1>4, <1>5
<1>7. e \in Seq(Chars) /\ Len(e) = m /\ \A i \in 1..m : e[i] = u[i]
  BY <1>1, <1>6
<1> HIDE DEF e
<1> QED
  BY <1>6, <1>7

\* The result starts with the slash that the URL starts with, with an error or without.
LEMMA RunStarts ==
  ASSUME NEW text \in Seq(Chars), text # <<>>, text[1] = Slash
  PROVE  Run(text).url # <<>> /\ Run(text).url[1] = Slash
<1> DEFINE Rooted(s) == s # <<>> /\ s[1] = Slash
           P == {u \in Seq(Chars) : u # <<>> /\ u[1] = Slash => Rooted(Run(u).url)}
<1>1. <<>> \in P
  OBVIOUS
<1>2. ASSUME NEW u \in Seq(Chars), NEW c \in Chars, u \in P
      PROVE  Append(u, c) \in P
  <2> DEFINE v == Append(u, c)
             n == Run(v).url
             m == Run(u).url
  <2>1. /\ v \in Seq(Chars) /\ Len(u) \in Nat /\ Len(v) = Len(u) + 1
        /\ (\A k \in 1..Len(u) : v[k] = u[k]) /\ v[Len(u) + 1] = c
    BY AppendProperties
  <2>2. Run(v) = Feed(Run(u), c) /\ Run(u) \in Machines
    BY RunIs
  <2>3. m \in Seq(Chars)
    BY <2>2 DEF Machines
  <2> HIDE DEF v
  <2>4. ASSUME v[1] = Slash PROVE Rooted(n)
    <3>1. CASE u = <<>>
      <4>1. Run(u) = Machine0 /\ c = Slash
        BY <2>1, <2>4, <3>1, RunIs
      <4>2. Feed(Machine0, Slash) = FeedPlain(Machine0, Slash)
        BY DEF Feed, Machine0, Slash, Percent
      <4>3. FeedPlain(Machine0, Slash).url = Append(<<>>, Slash)
        BY DEF FeedPlain, Machine0, Target, Copies, Slash
      <4>4. n = <<Slash>>
        BY <2>2, <4>1, <4>2, <4>3
      <4> QED
        BY <4>4
    <3>2. CASE u # <<>>
      <4>1. 1 \in 1..Len(u)
        BY <3>2
      <4>2. Rooted(m)
        BY <1>2, <2>1, <2>4, <3>2, <4>1
      <4>3. \/ n = m
            \/ \E x \in Chars : n = Append(m, x)
            \/ n = EraseSegment(m)
        BY <2>2, UrlAfter
      <4> HIDE DEF m, n
      <4>4. \A x \in Chars : Rooted(Append(m, x))
        <5> SUFFICES ASSUME NEW x \in Chars PROVE Rooted(Append(m, x))
          OBVIOUS
        <5> DEFINE a == Append(m, x)
        <5>1. Len(a) = Len(m) + 1 /\ Len(m) \in Nat /\ a # <<>> /\ \A i \in 1..Len(m) : a[i] = m[i]
          BY <2>3, Appended
        <5>2. 1 \in 1..Len(m)
          BY <2>3, <4>2
        <5> QED
          BY <4>2, <5>1, <5>2
      <4> QED
        BY <2>3, <4>2, <4>3, <4>4, RootedErased
    <3> QED
      BY <3>1, <3>2
  <2> QED
    BY <2>1, <2>4 DEF v
<1>3. Seq(Chars) \subseteq P
  <2> HIDE DEF P
  <2> QED
    BY <1>1, <1>2, SequenceInduction
<1> QED
  BY <1>3

\* Of a path that is not complex it is the path itself.
Unchanged(u, m) == m.ok /\ m.url = u /\ m.state = IF Last(u) = Slash THEN "kSlash" ELSE "kUsual"

\* A path that is not complex was one without its last character.
LEMMA QuietStarts ==
  ASSUME NEW u \in Seq(Chars), NEW c \in Chars, Quiet(Append(u, c))
  PROVE  /\ Quiet(u) /\ c \notin {Question, Percent}
         /\ u # <<>> /\ Last(u) = Slash => c \notin {Slash, Dot}
<1> DEFINE v == Append(u, c)
           n == Len(u)
<1>1. /\ Len(v) = n + 1 /\ v[n + 1] = c /\ n \in Nat /\ (\A i \in 1..n : v[i] = u[i])
  BY Appended
<1>2. /\ \A i \in 1..Len(v) : v[i] \notin {Question, Percent}
      /\ \A i \in 1..(Len(v) - 1) : v[i] = Slash => v[i + 1] \notin {Slash, Dot}
  BY DEF Quiet
<1>3. n + 1 \in 1..Len(v) /\ (\A i \in 1..n : i \in 1..Len(v) /\ i \in 1..(Len(v) - 1))
      /\ \A i \in 1..(n - 1) : i \in 1..n /\ i + 1 \in 1..n /\ i \in 1..(Len(v) - 1)
  BY <1>1
<1> HIDE DEF v
<1>4. c \notin {Question, Percent}
  BY <1>1, <1>2, <1>3
<1>5. u # <<>> /\ Last(u) = Slash => c \notin {Slash, Dot}
  <2> SUFFICES ASSUME u # <<>>, Last(u) = Slash PROVE c \notin {Slash, Dot}
    OBVIOUS
  <2>1. n >= 1 /\ u[n] = Slash
    BY LastIs
  <2>2. n \in 1..n
    BY <1>1, <2>1
  <2> QED
    BY <1>1, <1>2, <1>3, <2>1, <2>2
<1>6. \A i \in 1..n : u[i] \notin {Question, Percent}
  BY <1>1, <1>2, <1>3
<1>7. \A i \in 1..(n - 1) : u[i] = Slash => u[i + 1] \notin {Slash, Dot}
  BY <1>1, <1>2, <1>3
<1> QED
  BY <1>4, <1>5, <1>6, <1>7 DEF Quiet

\* Each of its characters is added.
LEMMA QuietRuns ==
  ASSUME NEW text \in Seq(Chars), text # <<>>, Quiet(text)
  PROVE  Run(text).ok /\ Run(text).url = text
<1> DEFINE P == {u \in Seq(Chars) : u # <<>> /\ Quiet(u) => Unchanged(u, Run(u))}
<1>1. <<>> \in P
  OBVIOUS
<1>2. ASSUME NEW u \in Seq(Chars), NEW c \in Chars, u \in P
      PROVE  Append(u, c) \in P
  <2> DEFINE v == Append(u, c)
             m == Run(u)
             n == Run(v)
  <2>1. v \in Seq(Chars) /\ v # <<>> /\ Last(v) = c
    BY Appended
  <2>2. n = Feed(m, c) /\ m \in Machines
    BY RunIs
  <2>3. ASSUME Quiet(v) PROVE Unchanged(v, n)
    <3>1. Quiet(u) /\ c # Percent /\ (u # <<>> /\ Last(u) = Slash => c \notin {Slash, Dot})
      BY <2>3, QuietStarts
    <3>2. /\ m.ok /\ m.url = u
          /\ m.state = "kUsual" \/ (m.state = "kSlash" /\ c \notin {Slash, Dot})
      <4>1. CASE u = <<>>
        <5>1. m = Machine0
          BY <4>1, RunIs
        <5> QED
          BY <4>1, <5>1 DEF Machine0
      <4>2. CASE u # <<>>
        <5>1. Unchanged(u, m)
          BY <1>2, <3>1, <4>2
        <5> QED
          BY <3>1, <4>2, <5>1 DEF Unchanged
      <4> QED
        BY <4>1, <4>2
    <3>3. m.state \in Places
      BY <3>2 DEF Places
    <3> HIDE DEF m, n, v
    <3>4. /\ n.ok /\ n.url = Append(m.url, c)
          /\ n.state = IF c = Slash THEN "kSlash" ELSE "kUsual"
      BY <2>2, <3>1, <3>2, <3>3, FeedOther
    <3> QED
      BY <2>1, <3>2, <3>4 DEF Unchanged, v
  <2> QED
    BY <2>1, <2>3
<1>3. Seq(Chars) \subseteq P
  <2> HIDE DEF P
  <2> QED
    BY <1>1, <1>2, SequenceInduction
<1>4. Unchanged(text, Run(text))
  BY <1>3
<1> QED
  BY <1>4 DEF Unchanged

-----------------------------------------------------------------------------
(* Whatever the client sends                                               *)

\* The line l is accepted when r is stored with the URL x.
Stored(l, r, x) ==
  LET u == SubSeq(l, 1, r.pos)
  IN /\ r.state = "kDone" /\ r.pos \in 1..Len(l) /\ IsAccepted(u, r)
     /\ x = IF r.complex THEN Run(PathText(u)).url ELSE PathText(u)

\* What has been accepted by now.
Judged == phase # "kRequestLine" => Stored(input.line, line, url)

\* What is in the buffer is the front of what the client sends.
LEMMA TextIs ==
  ASSUME Fields, Typed
  PROVE  /\ input \in Inputs /\ input.line \in Seq(Chars) /\ Text \in Seq(Chars) /\ arrived \in Nat
         /\ Len(Text) \in 0..Len(input.line) /\ Len(input.line) \in Nat
         /\ Text = SubSeq(input.line, 1, Len(Text))
         /\ Len(Text) = arrived \/ (Len(Text) = Len(input.line) /\ Len(input.line) <= arrived)
         /\ \A i \in 1..Len(Text) : Text[i] = input.line[i]
<1> DEFINE n == Len(Text)
           l == Len(input.line)
<1>1. input \in Inputs /\ input.line \in Seq(Chars) /\ arrived \in Nat
  <2>1. input \in Inputs /\ arrived \in 0..Total
    BY DEF Fields
  <2>2. input.line \in Seq(Chars)
    BY <2>1, InputsAssumption DEF Chars
  <2> QED
    BY <2>1, <2>2
<1>2. Text = Sent(input, arrived) /\ Text = SubSeq(input.line, 1, IF arrived < l THEN arrived ELSE l)
  BY DEF Text, Sent
<1>3. Text \in Seq(Chars) /\ n = (IF arrived < l THEN arrived ELSE l) /\ l \in Nat
  BY <1>1, <1>2, SentIs
<1>4. n \in 0..l /\ Text = SubSeq(input.line, 1, n)
  BY <1>1, <1>2, <1>3
<1>5. n = arrived \/ (n = l /\ l <= arrived)
  BY <1>1, <1>3
<1>6. \A i \in 1..n : Text[i] = input.line[i]
  <2> HIDE DEF n
  <2> QED
    BY <1>1, <1>4, PrefixGrows
<1> QED
  BY <1>1, <1>3, <1>4, <1>5, <1>6

\* What Parse() is asked to go on with, and what it comes to.
LEMMA ParsedComes ==
  ASSUME Fields, Typed, NEW r, r = Parsed
  PROVE  /\ r \in Lines /\ r.pos <= Len(Text) /\ r.pos \in Nat /\ line.pos \in Nat
         /\ line.pos <= Len(Text) /\ Come(line.pos, Text, Len(Text) - line.pos, r)
<1>1. Text \in Seq(Chars) /\ line \in Lines /\ line.pos <= Len(Text)
  BY TextIs DEF Typed
<1>2. r = ParseRequestLine(line, "kStart", Text)
  BY DEF Parsed, StartState
<1>3. r \in Lines /\ r.pos <= Len(Text) /\ Come(line.pos, Text, Len(Text) - line.pos, r)
  BY <1>1, <1>2, ParseComes
<1>4. r.pos \in Nat /\ line.pos \in Nat
  BY <1>1, <1>3 DEF Lines, Members
<1> QED
  BY <1>1, <1>3, <1>4

\* The line is accepted with what is kept of it.
LEMMA OkStored ==
  ASSUME Fields, Typed, RequestLineOk
  PROVE  Stored(input.line, line', url')
<1> DEFINE r == Parsed
           text == SubSeq(Text, r.start, r.end)
           v == Run(text)
           k == r.pos
           l == input.line
           u == SubSeq(l, 1, k)
<1>1. /\ r.state = "kDone"
      /\ line' = IF r.complex THEN [r EXCEPT !.static = @ /\ ~v.question] ELSE r
      /\ url' = IF r.complex THEN v.url ELSE text
  BY DEF RequestLineOk
<1> HIDE DEF r
<1>2. /\ r \in Lines /\ k <= Len(Text) /\ k \in Nat /\ line.pos \in Nat
      /\ Come(line.pos, Text, Len(Text) - line.pos, r)
  BY ParsedComes DEF r
<1>3. /\ l \in Seq(Chars) /\ Text \in Seq(Chars) /\ Text = SubSeq(l, 1, Len(Text))
      /\ Len(Text) \in 0..Len(l) /\ Len(l) \in Nat
  BY TextIs
<1>4. Shape(line.pos, SubSeq(Text, 1, k), r)
  BY <1>1, <1>2 DEF Come, Errors
<1>5. k \in 1..Len(l) /\ SubSeq(Text, 1, k) = u /\ u \in Seq(Chars)
  <2>1. SubSeq(Text, 1, k) # <<>>
    BY <1>1, <1>4 DEF Shape
  <2>2. k >= 1
    BY <1>2, <1>3, <2>1
  <2> DEFINE m == Len(Text)
             o == 1
  <2>3. m \in 0..Len(l) /\ k <= m /\ o \in Nat /\ o >= 1 /\ o <= k /\ Text = SubSeq(l, 1, m)
    BY <1>2, <1>3, <2>2
  <2> HIDE DEF m, k, o, l
  <2>4. SubSeq(Text, o, k) = SubSeq(l, o, k)
    BY <1>2, <1>3, <2>3, PartOfPrefix
  <2>5. k \in 1..Len(l)
    BY <1>2, <1>3, <2>2, <2>3
  <2>6. SubSeq(l, 1, k) \in Seq(Chars)
    BY <1>3, <2>5
  <2> QED
    BY <2>4, <2>5, <2>6 DEF o, l
<1>6. IsAccepted(u, r)
  <2>1. Shape(line.pos, u, r)
    BY <1>4, <1>5
  <2> HIDE DEF u
  <2> QED
    BY <1>1, <1>2, <1>5, <2>1, DoneIs
<1>7. text = PathText(u)
  <2>1. PathText(u) = SubSeq(u, r.start, r.end) /\ r.start \in 1..r.end /\ r.end \in 1..Len(u)
    BY <1>6 DEF IsAccepted
  <2>2. Len(u) = k /\ r.start \in Nat /\ r.end \in Nat /\ k \in 0..Len(Text)
    BY <1>2, <1>3, <1>5 DEF Lines, Members
  <2>3. r.start >= 1 /\ r.start <= r.end /\ r.end <= k
    BY <2>1, <2>2
  <2> DEFINE i == r.start
             j == r.end
  <2>4. u = SubSeq(Text, 1, k)
    BY <1>5
  <2>5. i \in Nat /\ j \in Nat /\ i >= 1 /\ i <= j /\ j <= k
    BY <2>2, <2>3
  <2> HIDE DEF u, k, i, j
  <2>6. SubSeq(u, i, j) = SubSeq(Text, i, j)
    BY <1>3, <2>2, <2>4, <2>5, PartOfPrefix
  <2> QED
    BY <2>1, <2>6 DEF i, j
<1>8. /\ line'.state = r.state /\ line'.pos = r.pos /\ line'.method = r.method
      /\ line'.start = r.start /\ line'.end = r.end /\ line'.complex = r.complex
  <2> HIDE DEF v
  <2>1. r \in Members
    BY <1>2 DEF Lines
  <2> QED
    BY <1>1, <2>1 DEF Members
<1>9. url' = IF line'.complex THEN Run(PathText(u)).url ELSE PathText(u)
  BY <1>1, <1>7, <1>8
<1> HIDE DEF u, text
<1>10. IsAccepted(u, line')
  BY <1>6, <1>8 DEF IsAccepted
<1>11. line'.state = "kDone" /\ line'.pos = k
  BY <1>1, <1>8
<1> QED
  BY <1>5, <1>9, <1>10, <1>11 DEF Stored, u

\* What the parser has accepted, in every state.
LEMMA JudgedHolds == Spec => [](Fields /\ Typed /\ Judged)
<1>1. Init => Judged
  BY DEF Init, Judged
<1>2. Fields /\ Typed /\ Judged /\ [Next]_vars => Judged'
  <2> SUFFICES ASSUME Fields, Typed, Judged, [Next]_vars PROVE Judged'
    OBVIOUS
  <2>1. CASE RequestLineOk
    <3>1. UNCHANGED input
      BY <2>1 DEF RequestLineOk
    <3> QED
      BY <2>1, <3>1, OkStored DEF Judged
  <2>2. CASE OnMessage \/ RequestLineShort \/ RequestLineBad
    <3>1. UNCHANGED <<input, phase, url>> /\ (phase = "kRequestLine" \/ UNCHANGED line)
      BY <2>2 DEF OnMessage, RequestLineShort, RequestLineBad, Return
    <3> QED
      BY <3>1 DEF Judged
  <2>3. CASE HeaderField \/ HeaderBad \/ HeaderShort \/ HeaderEnd \/ Body \/ Complete
    <3>1. UNCHANGED <<input, line, url>> /\ phase # "kRequestLine"
      BY <2>3 DEF HeaderField, HeaderBad, HeaderShort, HeaderEnd, Body, Complete, Return
    <3> QED
      BY <3>1 DEF Judged
  <2>4. CASE UNCHANGED vars
    <3>1. UNCHANGED <<input, phase, line, url>>
      BY <2>4 DEF vars
    <3> QED
      BY <3>1 DEF Judged
  <2> QED
    BY <2>1, <2>2, <2>3, <2>4 DEF Next
<1> QED
  BY <1>1, <1>2, FieldsHold, TypedHolds, PTL DEF Spec

\* What is accepted is a request line but for the liberties the code takes, and its
\* first word is the method, whatever the client sends and however it is cut.
THEOREM AcceptedIsAlwaysRequestLine == Spec => []AcceptedIsRequestLine
<1>1. Judged => AcceptedIsRequestLine
  <2> SUFFICES ASSUME Judged, Accepted PROVE AcceptedIsRequestLine
    BY DEF AcceptedIsRequestLine
  <2>1. Stored(input.line, line, url)
    BY DEF Judged, Accepted
  <2>2. IsAccepted(Taken, line)
    BY <2>1 DEF Stored, Taken
  <2> QED
    BY <2>1, <2>2 DEF AcceptedIsRequestLine, IsAccepted
<1> QED
  BY <1>1, JudgedHolds, PTL

\* The URL that is stored starts with a slash, has no two in a row if its escapes are
\* made of digits, and is the path with its dots resolved if it is made of plain names,
\* whether the parser has found it complex and decoded it or has left it alone.
THEOREM UrlIsAlwaysNormal == Spec => []UrlIsNormal
<1>1. Fields /\ Typed /\ Judged => UrlIsNormal
  <2> SUFFICES ASSUME Fields, Typed, Judged, Accepted PROVE UrlIsNormal
    BY DEF UrlIsNormal
  <2> DEFINE u == Taken
             x == PathText(u)
  <2>1. Stored(input.line, line, url)
    BY DEF Judged, Accepted
  <2>2. /\ line.pos \in 1..Len(input.line) /\ IsAccepted(u, line)
        /\ url = IF line.complex THEN Run(x).url ELSE x
    BY <2>1 DEF Stored, Taken
  <2>3. input.line \in Seq(Chars) /\ Len(input.line) \in Nat
    BY TextIs
  <2>4. u \in Seq(Chars)
    BY <2>2, <2>3 DEF Taken
  <2>5. /\ line.start \in 1..line.end /\ line.end \in 1..Len(u) /\ x = SubSeq(u, line.start, line.end)
        /\ x[1] = Slash
        /\ ~line.complex => Quiet(x)
    BY <2>2 DEF IsAccepted
  <2> HIDE DEF u
  <2>6. x \in Seq(Chars) /\ x # <<>>
    <3>1. Len(u) \in Nat /\ line.start \in Nat /\ line.end \in Nat /\ line.start >= 1
          /\ line.start <= line.end /\ line.end <= Len(u)
      <4>1. line.start \in Nat /\ line.end \in Nat
        BY DEF Typed, Lines, Members
      <4> QED
        BY <2>4, <2>5, <4>1
    <3> DEFINE i == line.start
               j == line.end
               n == Len(u)
    <3>2. x = SubSeq(u, i, j)
      BY <2>5
    <3>3. n \in Nat /\ i \in Nat /\ j \in Nat /\ i >= 1 /\ i <= j /\ j <= n
      BY <3>1
    <3> HIDE DEF x, i, j
    <3>4. x \in Seq(Chars) /\ Len(x) = (j - i) + 1
      BY <2>4, <3>2, <3>3
    <3> QED
      BY <3>3, <3>4
  <2> HIDE DEF x
  <2>7. url = Run(x).url
    <3>1. ~line.complex => Run(x).url = x
      BY <2>5, <2>6, QuietRuns
    <3> QED
      BY <2>2, <3>1
  <2>8. url[1] = Slash
    BY <2>5, <2>6, <2>7, RunStarts
  <2>9. OnlyDigits(x) => NoTwoSlashes(url)
    BY <2>5, <2>6, <2>7, RunIsNormal DEF IsNormal
  <2>10. IsPlain(x) => url = Resolved(x)
    BY <2>6, <2>7, PlainIsResolved
  <2> QED
    BY <2>8, <2>9, <2>10 DEF UrlIsNormal, x, u
<1> QED
  BY <1>1, JudgedHolds, PTL

-----------------------------------------------------------------------------
(* The character that a line goes on with                                  *)

\* The words p of the front u are followed by c in a line whose words are q.
Continues(p, q, u, c) ==
  /\ Len(p) <= Len(q) /\ Len(p) \in Nat /\ Len(q) \in Nat
  /\ \A i \in 1..(Len(p) - 1) : q[i] = p[i]
  /\ (AtGap(u) \/ c = Space) /\ Len(p) >= 1 => q[Len(p)] = p[Len(p)]
  /\ c # Space /\ AtGap(u) => Len(q) >= Len(p) + 1 /\ StartsWith(q[Len(p) + 1], <<c>>)
  /\ c # Space /\ ~AtGap(u) => Len(p) >= 1 /\ StartsWith(q[Len(p)], Append(p[Len(p)], c))

\* They do.
LEMMA WordContinues ==
  ASSUME NEW b \in Seq(Chars), NEW n \in 1..Len(b), NEW u, u = SubSeq(b, 1, n - 1), NEW c, c = b[n]
  PROVE  Continues(WordsOf(u), WordsOf(b), u, c)
<1> DEFINE p == WordsOf(u)
           q == WordsOf(b)
           v == SubSeq(b, 1, n)
           x == WordsOf(v)
<1>1. Len(b) \in Nat /\ n - 1 \in 0..Len(b) /\ n \in 0..Len(b)
  OBVIOUS
<1>2. u \in Seq(Chars) /\ c \in Chars /\ v = Append(u, c)
  BY <1>1, PrefixGrows
<1>3. p \in Seq(Seq(Chars)) /\ q \in Seq(Seq(Chars)) /\ x \in Seq(Seq(Chars))
  <2>1. v \in Seq(Chars)
    BY <1>2, Appended
  <2> HIDE DEF v
  <2> QED
    BY <1>2, <2>1, WordsIs
<1>4. Begins(p, q, AtGap(u)) /\ Begins(x, q, AtGap(v))
  BY <1>1, WordsExtend
<1>5. c = Space => x = p /\ AtGap(v)
  <2>1. WordsOf(Append(u, Space)) = WordsOf(u)
    BY <1>2, WordsIs
  <2>2. v = Append(u, c) /\ Last(Append(u, c)) = c
    BY <1>2, Appended, ZenonT(60)
  <2> HIDE DEF v
  <2> QED
    BY <2>1, <2>2 DEF AtGap
<1>6. c # Space => /\ AtGap(u) => Started(p, x, c)
                   /\ ~AtGap(u) => Grown(p, x, c)
  BY <1>2, WordStarts
<1> HIDE DEF p, q, v, x
<1>7. Len(p) \in Nat /\ Len(q) \in Nat /\ Len(x) \in Nat
  BY <1>3
<1>8. /\ Len(p) <= Len(q) /\ \A i \in 1..(Len(p) - 1) : q[i] = p[i]
      /\ AtGap(u) /\ Len(p) >= 1 => q[Len(p)] = p[Len(p)]
  BY <1>4, Zenon DEF Begins
<1>9. ASSUME c = Space PROVE Continues(p, q, u, c)
  <2>1. Len(p) >= 1 => q[Len(p)] = p[Len(p)]
    BY <1>4, <1>5, <1>9 DEF Begins
  <2> QED
    BY <1>7, <1>8, <1>9, <2>1 DEF Continues
<1>10. ASSUME c # Space /\ AtGap(u) PROVE Continues(p, q, u, c)
  <2>1. Len(x) = Len(p) + 1 /\ x[Len(p) + 1] = <<c>>
    BY <1>6, <1>10 DEF Started
  <2>2. Len(x) <= Len(q) /\ (Len(x) >= 1 => StartsWith(q[Len(x)], x[Len(x)]))
    BY <1>4 DEF Begins
  <2>3. Len(q) >= Len(p) + 1 /\ StartsWith(q[Len(p) + 1], <<c>>)
    BY <1>7, <2>1, <2>2
  <2> QED
    BY <1>7, <1>8, <1>10, <2>3, Zenon DEF Continues
<1>11. ASSUME c # Space /\ ~AtGap(u) PROVE Continues(p, q, u, c)
  <2>1. Len(p) >= 1 /\ Len(x) = Len(p) /\ x[Len(p)] = Append(p[Len(p)], c)
    BY <1>6, <1>11 DEF Grown
  <2>2. StartsWith(q[Len(p)], Append(p[Len(p)], c))
    BY <1>4, <2>1 DEF Begins
  <2> QED
    BY <1>7, <1>8, <1>11, <2>1, <2>2, Zenon DEF Continues
<1> QED
  BY <1>9, <1>10, <1>11 DEF p, q

\* The second part of what Continues() says, for sequences that are split at c.
SplitBegins(p, q) ==
  /\ Len(p) <= Len(q)
  /\ \A i \in 1..(Len(p) - 1) : q[i] = p[i]
  /\ StartsWith(q[Len(p)], p[Len(p)])

\* The parts begin with those of every front.
LEMMA SplitExtends ==
  ASSUME NEW b \in Seq(Chars), NEW n \in 0..Len(b), NEW u, u = SubSeq(b, 1, n), NEW x \in Chars
  PROVE  SplitBegins(Split(u, x), Split(b, x))
<1> DEFINE z(k) == SubSeq(b, 1, n + k)
           p == Split(u, x)
           m == Len(b) - n
           P == {k \in 0..m : SplitBegins(p, Split(z(k), x))}
<1>1. Len(b) \in Nat /\ n \in Nat /\ m \in Nat /\ n + 0 = n /\ n + m = Len(b)
  OBVIOUS
<1>2. u \in Seq(Chars) /\ p \in Seq(Seq(Chars)) /\ Len(p) >= 1
  BY PrefixGrows, SplitGrows
<1>3. 0 \in P
  <2>1. z(0) = u
    BY <1>1
  <2>2. SplitBegins(p, p)
    <3> HIDE DEF p
    <3>1. Len(p) \in Nat /\ \A i \in 1..Len(p) : p[i] \in Seq(Chars)
      BY <1>2, ElementOfSeq
    <3> QED
      BY <1>2, <3>1 DEF SplitBegins, StartsWith
  <2>3. 0 \in 0..m
    BY <1>1
  <2> QED
    BY <2>1, <2>2, <2>3
<1>4. ASSUME NEW k \in 1..m, k - 1 \in P
      PROVE  k \in P
  <2> DEFINE s == z(k - 1)
             c == b[n + k]
             q == Split(s, x)
             y == Split(Append(s, c), x)
  <2>1. n + k \in 1..Len(b) /\ (n + k) - 1 = n + (k - 1) /\ n + (k - 1) \in 0..Len(b) /\ k \in 0..m
    BY <1>1
  <2>2. z(k) = Append(s, c) /\ c \in Chars /\ s \in Seq(Chars)
    <3> HIDE DEF m
    <3>1. n + k \in 0..Len(b)
      BY <1>1, <2>1
    <3> QED
      BY <2>1, <3>1, PrefixGrows
  <2>3. SplitBegins(p, q)
    BY <1>4
  <2> HIDE DEF z, s, c, p, m
  <2>4. /\ q \in Seq(Seq(Chars)) /\ Len(q) >= 1
        /\ c # x => Grown(q, y, c)
        /\ c = x => y = Append(q, <<>>)
    BY <2>2, SplitGrows
  <2>5. y \in Seq(Seq(Chars))
    <3>1. Append(s, c) \in Seq(Chars)
      BY <2>2
    <3> QED
      BY <3>1, SplitGrows
  <2> HIDE DEF q, y
  <2>6. SplitBegins(p, y)
    <3>1. Len(p) \in Nat /\ Len(q) \in Nat /\ Len(y) \in Nat
      BY <1>2, <2>4, <2>5
    <3>2. CASE c = x
      <4>1. Len(y) = Len(q) + 1 /\ \A i \in 1..Len(q) : y[i] = q[i]
        <5> DEFINE T == Seq(Chars)
                   e == <<>>
        <5>1. e \in T /\ q \in Seq(T) /\ y = Append(q, e)
          BY <2>4, <3>2
        <5> HIDE DEF T, e
        <5> QED
          BY <5>1, Appended
      <4>2. Len(p) <= Len(q)
        BY <2>3 DEF SplitBegins
      <4>3. \A i \in 1..Len(p) : y[i] = q[i]
        BY <3>1, <4>1, <4>2
      <4> QED
        BY <1>2, <2>3, <3>1, <4>1, <4>2, <4>3 DEF SplitBegins
    <3>3. CASE c # x
      <4> DEFINE gap == FALSE
                 open == FALSE
      <4>1. Begins(p, q, gap)
        BY <2>3, <3>1 DEF SplitBegins, Begins
      <4>2. (gap => open \/ Len(q) > Len(p)) /\ (IF open THEN Started(q, y, c) ELSE Grown(q, y, c))
        BY <2>4, <3>3
      <4> HIDE DEF gap, open
      <4>3. Begins(p, y, gap)
        BY <1>2, <2>2, <2>4, <2>5, <4>1, <4>2, BeginsGrows
      <4> QED
        BY <1>2, <3>1, <4>3 DEF SplitBegins, Begins
    <3> QED
      BY <3>2, <3>3
  <2> QED
    BY <2>1, <2>2, <2>6 DEF y
<1>5. 0..m \subseteq P
  <2> HIDE DEF P, m
  <2> QED
    BY <1>1, <1>3, <1>4, Induction
<1>6. m \in P
  <2> HIDE DEF P, m
  <2>1. m \in 0..m
    BY <1>1
  <2> QED
    BY <1>5, <2>1
<1>7. z(m) = b
  BY <1>1, PrefixGrows
<1> QED
  BY <1>6, <1>7

-----------------------------------------------------------------------------
(* The version of a request line                                           *)

\* HTTP/, one digit or two up to the dot at d, and a digit.
StrictTo(v, d) ==
  /\ d \in {7, 8} /\ d + 1 <= Len(v)
  /\ v[1] = 72 /\ v[2] = 84 /\ v[3] = 84 /\ v[4] = 80 /\ v[5] = Slash
  /\ IsDigit(v[6]) /\ (d = 8 => IsDigit(v[7])) /\ v[d] = Dot /\ IsDigit(v[d + 1])

\* And nothing after it but a second digit.
IsStrict(v, d) == /\ StrictTo(v, d) /\ Len(v) <= d + 2
                  /\ Len(v) = d + 2 => IsDigit(v[d + 2])

\* That is what the version of a request line is.
LEMMA VersionWordIs ==
  ASSUME NEW v \in Seq(Chars), IsVersionWord(v)
  PROVE  IsStrict(v, Find(v, Dot))
<1> DEFINE d == Find(v, Dot)
           s == SubSeq(v, 6, d - 1)
           t == After(v, d)
<1>1. IsPrefix(HTTPSlash, v) /\ d > 0 /\ AreDigits(s, 2) /\ AreDigits(t, 2)
  BY DEF IsVersionWord
<1>2. d \in 1..Len(v) /\ v[d] = Dot /\ Len(v) \in Nat
  <2>1. \/ d = 0
        \/ d \in 1..Len(v) /\ v[d] = Dot
    BY FindIs
  <2> QED
    BY <1>1, <2>1
<1>3. /\ Len(v) >= 5 /\ v[1] = 72 /\ v[2] = 84 /\ v[3] = 84 /\ v[4] = 80 /\ v[5] = 47
  <2>1. HTTPSlash \in Seq(Chars) /\ Len(HTTPSlash) = 5
        /\ HTTPSlash[1] = 72 /\ HTTPSlash[2] = 84 /\ HTTPSlash[3] = 84 /\ HTTPSlash[4] = 80 /\ HTTPSlash[5] = 47
    BY DEF HTTPSlash, Chars
  <2>2. StartsWith(v, HTTPSlash)
    BY <1>1, <2>1, PrefixIs
  <2> QED
    BY <1>2, <2>1, <2>2 DEF StartsWith
<1>4. d \in {7, 8} /\ \A i \in 1..(d - 6) : s[i] = v[i + 5]
  <2> DEFINE a == 6
             e == d - 1
  <2>1. Len(s) \in 1..2
    BY <1>1 DEF AreDigits
  <2>2. d >= 6
    <3>1. d \notin 1..5
      BY <1>2, <1>3 DEF Dot
    <3> QED
      BY <1>2, <3>1
  <2>3. a \in Nat /\ e \in Nat /\ a >= 1 /\ e <= Len(v) /\ a <= e + 1
    BY <1>2, <2>2
  <2>4. s = SubSeq(v, a, e)
    OBVIOUS
  <2> HIDE DEF a, e, s, d
  <2>5. Len(s) = (e + 1) - a /\ \A k \in 1..((e + 1) - a) : s[k] = v[(a + k) - 1]
    BY <2>3, <2>4, PartIs
  <2>6. Len(s) = d - 6 /\ \A k \in 1..(d - 6) : s[k] = v[k + 5]
    BY <1>2, <2>5 DEF a, e
  <2> QED
    BY <1>2, <2>1, <2>6
<1>5. Len(v) - d \in 1..2 /\ \A i \in 1..(Len(v) - d) : t[i] = v[d + i]
  <2>1. Len(t) \in 1..2
    BY <1>1 DEF AreDigits
  <2>2. d \in 0..Len(v)
    BY <1>2
  <2> HIDE DEF d, t
  <2>3. Len(t) = Len(v) - d /\ \A i \in 1..(Len(v) - d) : t[i] = v[d + i]
    BY <2>2, BeforeAfter DEF t
  <2> QED
    BY <2>1, <2>3
<1>6. \A i \in 1..(d - 6) : IsDigit(v[i + 5])
  <2>1. s \in Seq(Chars) /\ Len(s) = d - 6
    <3> DEFINE a == 6
               e == d - 1
    <3>1. d \in {7, 8} /\ d \in 1..Len(v)
      BY <1>2, <1>4
    <3>2. a \in Nat /\ e \in Nat /\ a >= 1 /\ e <= Len(v) /\ a <= e + 1 /\ (e + 1) - a = d - 6
      <4> HIDE DEF d
      <4> QED
        BY <1>2, <3>1
    <3>3. s = SubSeq(v, a, e)
      OBVIOUS
    <3> HIDE DEF a, e, s, d
    <3> QED
      BY <3>2, <3>3, PartIs
  <2> HIDE DEF s, d
  <2>2. \A i \in 1..(d - 6) : s[i] \in Range(s)
    BY <2>1 DEF Range
  <2>3. \A c \in Range(s) : IsDigit(c)
    BY <1>1 DEF AreDigits
  <2>4. \A i \in 1..(d - 6) : IsDigit(s[i])
    BY <2>2, <2>3
  <2> QED
    BY <1>4, <2>4
<1>7. \A i \in 1..(Len(v) - d) : IsDigit(v[d + i])
  <2>1. t \in Seq(Chars) /\ Len(t) = Len(v) - d
    <3>1. d \in 0..Len(v)
      BY <1>2
    <3> HIDE DEF d, t
    <3> QED
      BY <3>1, BeforeAfter DEF t
  <2> HIDE DEF t, d
  <2>2. \A i \in 1..(Len(v) - d) : t[i] \in Range(t)
    BY <2>1 DEF Range
  <2>3. \A c \in Range(t) : IsDigit(c)
    BY <1>1 DEF AreDigits
  <2>4. \A i \in 1..(Len(v) - d) : IsDigit(t[i])
    BY <2>2, <2>3
  <2> QED
    BY <1>5, <2>4
<1> HIDE DEF d, s, t
<1>8. IsDigit(v[6]) /\ (d = 8 => IsDigit(v[7]))
  <2>1. 1 \in 1..(d - 6) /\ (d = 8 => 2 \in 1..(d - 6)) /\ 1 + 5 = 6 /\ 2 + 5 = 7
    BY <1>4
  <2> QED
    BY <1>6, <2>1
<1>9. IsDigit(v[d + 1]) /\ (Len(v) = d + 2 => IsDigit(v[d + 2]))
  <2>1. 1 \in 1..(Len(v) - d) /\ (Len(v) = d + 2 => 2 \in 1..(Len(v) - d))
    BY <1>2, <1>5
  <2> QED
    BY <1>7, <2>1
<1> QED
  BY <1>2, <1>3, <1>4, <1>5, <1>8, <1>9 DEF IsStrict, StrictTo, d, Slash

\* What the loop makes of the characters of such a version.
LEMMA NextOfVersion ==
  /\ NextInVersion("kHT", 84) = "kHTT" /\ NextInVersion("kHTT", 84) = "kHTTP"
  /\ NextInVersion("kHTTP", 80) = "kHTTP" /\ NextInVersion("kHTTP", Slash) = "kFirstMajorDigit"
  /\ \A c : IsDigit(c) => /\ NextInVersion("kFirstMajorDigit", c) = "kMajorDigit"
                          /\ NextInVersion("kMajorDigit", c) = "kVersionDot"
                          /\ NextInVersion("kFirstMinorDigit", c) = "kMinorDigit"
  /\ NextInVersion("kMajorDigit", Dot) = "kFirstMinorDigit"
  /\ NextInVersion("kVersionDot", Dot) = "kFirstMinorDigit"
<1>1. Dot = 46 /\ Slash = 47 /\ Space = 32 /\ CR = 13 /\ LF = 10 /\ ~IsDigit(Dot)
  BY DEF Dot, Slash, Space, CR, LF, IsDigit
<1> QED
  BY <1>1 DEF NextInVersion, LineEndStates

\* A slash in the beginning of such a version is its only one.
LEMMA SlashPlace ==
  ASSUME NEW x \in Seq(Chars), NEW y \in Seq(Chars), StartsWith(y, x), NEW d, StrictTo(y, d),
         NEW a, a \in 4..Len(x), x[a] = Slash, IsName(x, a - 1)
  PROVE  a = 5
<1>1. Len(x) \in Nat /\ Len(x) <= Len(y) /\ \A i \in 1..Len(x) : x[i] = y[i]
  BY DEF StartsWith
<1>2. y[4] = 80 /\ y[5] = 47 /\ Slash = 47
  BY DEF StrictTo, Slash
<1>3. a # 4
  BY <1>1, <1>2
<1>4. ~(a > 5)
  <2> SUFFICES ASSUME a > 5 PROVE FALSE
    OBVIOUS
  <2>1. 5 \in 4..(a - 1) /\ 5 \in 1..Len(x)
    BY <1>1
  <2>2. x[5] = 80
    BY <2>1 DEF IsName
  <2> QED
    BY <1>1, <1>2, <2>1, <2>2
<1> QED
  BY <1>3, <1>4

\* Before the minor digits a version goes on with a character that the loop takes.
LEMMA VersionPlace ==
  ASSUME NEW s \in VersionStates, NEW x \in Seq(Chars), NEW n, BeforeMinor(s, x, n),
         NEW y \in Seq(Chars), StartsWith(y, x), NEW d, StrictTo(y, d)
  PROVE  /\ Len(x) < Len(y)
         /\ NextInVersion(s, y[Len(x) + 1]) \notin Errors \cup {"kDone"}
<1> DEFINE k == Len(x)
<1>1. k \in Nat /\ k <= Len(y) /\ Len(y) \in Nat /\ \A i \in 1..k : x[i] = y[i]
  BY DEF StartsWith
<1>2. /\ d \in {7, 8} /\ d + 1 <= Len(y)
      /\ y[1] = 72 /\ y[2] = 84 /\ y[3] = 84 /\ y[4] = 80 /\ y[5] = Slash
      /\ IsDigit(y[6]) /\ (d = 8 => IsDigit(y[7])) /\ y[d] = Dot /\ IsDigit(y[d + 1])
  BY DEF StrictTo
<1>3. ~IsDigit(Dot) /\ 80 # Slash
  BY DEF IsDigit, Dot, Slash
<1>4. CASE s = "kHT"
  <2>1. k = 1
    BY <1>4 DEF BeforeMinor
  <2> QED
    BY <1>1, <1>2, <1>4, <2>1, NextOfVersion DEF Errors
<1>5. CASE s = "kHTT"
  <2>1. k = 2
    BY <1>5 DEF BeforeMinor
  <2> QED
    BY <1>1, <1>2, <1>5, <2>1, NextOfVersion DEF Errors
<1>6. CASE s = "kHTTP"
  <2>1. k >= 3 /\ \A i \in 4..k : x[i] = 80
    BY <1>6 DEF BeforeMinor, IsName
  <2>2. ~(k >= 5)
    <3> SUFFICES ASSUME k >= 5 PROVE FALSE
      OBVIOUS
    <3>1. 5 \in 4..k /\ 5 \in 1..k
      BY <1>1
    <3>2. x[5] = 80 /\ x[5] = y[5]
      BY <1>1, <2>1, <3>1
    <3> QED
      BY <1>2, <1>3, <3>2
  <2>3. k \in {3, 4}
    <3>1. k \in Nat /\ k >= 3 /\ ~(k >= 5)
      BY <1>1, <2>1, <2>2
    <3> HIDE DEF k
    <3> QED
      BY <3>1
  <2> HIDE DEF k
  <2>4. k = 3 \/ k = 4
    BY <2>3
  <2>5. y[k + 1] = 80 \/ y[k + 1] = Slash
    BY <1>2, <2>4
  <2>6. NextInVersion(s, y[k + 1]) \in {"kHTTP", "kFirstMajorDigit"}
    BY <1>6, <2>5, NextOfVersion
  <2>7. k < Len(y)
    BY <1>1, <1>2, <2>4
  <2> QED
    BY <2>6, <2>7 DEF Errors, k
<1>7. CASE s = "kFirstMajorDigit"
  <2>1. k \in 4..Len(x) /\ x[k] = Slash /\ IsName(x, k - 1)
    BY <1>7 DEF BeforeMinor, Named
  <2>2. k = 5
    <3> HIDE DEF k
    <3> QED
      BY <2>1, SlashPlace
  <2> QED
    BY SMTT(30), <1>1, <1>2, <1>7, <2>2, NextOfVersion DEF Errors
<1>8. CASE s = "kMajorDigit"
  <2> DEFINE a == k - 1
  <2>1. a \in 4..Len(x) /\ x[a] = Slash /\ IsName(x, a - 1)
    BY <1>8 DEF BeforeMinor, Major, Named
  <2>2. a = 5
    <3> HIDE DEF a
    <3> QED
      BY <2>1, SlashPlace
  <2>3. k = 6
    BY <1>1, <2>2
  <2> QED
    BY <1>1, <1>2, <1>8, <2>3, NextOfVersion DEF Errors
<1>9. CASE s = "kVersionDot"
  <2> DEFINE a == k - 2
  <2>1. a \in 4..Len(x) /\ x[a] = Slash /\ IsName(x, a - 1)
        /\ \A i \in (a + 1)..k : IsDigit(x[i])
    BY <1>1, <1>9 DEF BeforeMinor, Major, Named
  <2>2. a = 5
    <3> HIDE DEF a
    <3> QED
      BY <2>1, SlashPlace
  <2>3. k = 7
    BY <1>1, <2>2
  <2>4. IsDigit(y[7])
    BY <1>1, <2>1, <2>2, <2>3
  <2>5. d = 8
    BY <1>2, <1>3, <2>4
  <2> QED
    BY <1>1, <1>2, <1>9, <2>3, <2>5, NextOfVersion DEF Errors
<1>10. CASE s = "kFirstMinorDigit"
  <2>1. x[k] = Dot /\ \E a \in 4..k : Major(x, a, k, n)
    BY <1>10 DEF BeforeMinor
  <2>2. PICK a \in 4..k : Major(x, a, k, n)
    BY <2>1
  <2>3. a \in 4..Len(x) /\ x[a] = Slash /\ IsName(x, a - 1) /\ k \in {a + 2, a + 3}
        /\ \A i \in (a + 1)..(k - 1) : IsDigit(x[i])
    BY <2>2 DEF Major, Named
  <2>4. a = 5
    <3> HIDE DEF k
    <3> QED
      BY <2>3, SlashPlace
  <2>5. k \in {7, 8} /\ (k = 8 => IsDigit(x[7]))
    <3> HIDE DEF k
    <3>1. k \in {7, 8} /\ \A i \in 6..(k - 1) : IsDigit(x[i])
      BY <2>3, <2>4
    <3>2. k = 8 => 7 \in 6..(k - 1)
      OBVIOUS
    <3> QED
      BY <3>1, <3>2
  <2>6. d = k
    <3>1. CASE k = 7
      BY <1>1, <1>2, <1>3, <2>1, <3>1
    <3>2. CASE k = 8
      <4>1. IsDigit(y[7])
        BY <1>1, <2>5, <3>2
      <4>2. y[7] # Dot
        BY <1>3, <4>1
      <4> QED
        BY <1>2, <3>2, <4>2
    <3> QED
      BY <2>5, <3>1, <3>2
  <2> QED
    BY SMTT(30), <1>1, <1>2, <1>10, <2>6, NextOfVersion DEF Errors
<1> QED
  BY <1>4, <1>5, <1>6, <1>7, <1>8, <1>9, <1>10 DEF VersionStates

\* The minor digit is where it must be.
LEMMA MinorPlace ==
  ASSUME NEW x \in Seq(Chars), NEW a, NEW e, NEW m, NEW n, Major(x, a, e, m), Minor(x, e, n),
         NEW y \in Seq(Chars), StartsWith(y, x), NEW d, StrictTo(y, d)
  PROVE  a = 5 /\ e = d /\ Len(x) = d + 1
<1>1. /\ a \in 4..Len(x) /\ x[a] = Slash /\ IsName(x, a - 1) /\ e \in {a + 2, a + 3}
      /\ \A i \in (a + 1)..(e - 1) : IsDigit(x[i])
  BY DEF Major, Named
<1>2. e + 1 = Len(x) /\ x[e] = Dot /\ Len(x) \in Nat
  BY DEF Minor
<1>3. a = 5
  BY <1>1, SlashPlace
<1>4. Len(x) <= Len(y) /\ \A i \in 1..Len(x) : x[i] = y[i]
  BY DEF StartsWith
<1>5. d \in {7, 8} /\ (d = 8 => IsDigit(y[7])) /\ y[d] = Dot /\ ~IsDigit(Dot)
  BY DEF StrictTo, IsDigit, Dot
<1>6. e \in {7, 8} /\ (e = 8 => IsDigit(x[7]))
  BY <1>1, <1>3
<1>7. e = d
  BY <1>2, <1>4, <1>5, <1>6
<1> QED
  BY <1>2, <1>3, <1>7

-----------------------------------------------------------------------------
(* The URL of a request line                                               *)

\* A sequence that another one starts with is a front of it.
LEMMA StartIs ==
  ASSUME NEW T, NEW s \in Seq(T), NEW t \in Seq(T), StartsWith(t, s)
  PROVE  Len(s) \in 0..Len(t) /\ s = SubSeq(t, 1, Len(s))
<1> DEFINE n == Len(s)
           u == SubSeq(t, 1, n)
<1>1. n \in Nat /\ Len(t) \in Nat /\ n <= Len(t) /\ \A i \in 1..n : s[i] = t[i]
  BY DEF StartsWith
<1>2. n \in 0..Len(t)
  BY <1>1
<1> HIDE DEF n
<1>3. u \in Seq(T) /\ Len(u) = n /\ \A i \in 1..n : u[i] = t[i]
  BY <1>2, PrefixGrows
<1>4. s = u
  <2> HIDE DEF u
  <2> QED
    BY <1>1, <1>3, SeqEqual DEF n
<1> QED
  BY <1>2, <1>4 DEF n

\* The parts of an authority.
AreParts(p) == /\ \A c \in Range(p[1]) : IsHostCharacter(c)
               /\ Len(p) <= 2
               /\ Len(p) = 2 => \A c \in Range(p[2]) : IsDigit(c)

\* A character that is in a sequence which another one starts with is in that.
LEMMA InRange ==
  ASSUME NEW s \in Seq(Chars), NEW t \in Seq(Chars), NEW c \in Chars, StartsWith(t, Append(s, c))
  PROVE  c \in Range(t) /\ Len(s) + 1 \in 1..Len(t) /\ t[Len(s) + 1] = c
<1> DEFINE n == Len(s) + 1
           v == Append(s, c)
<1>1. n \in Nat /\ n >= 1 /\ Len(v) = n /\ v[n] = c
  BY Appended
<1>2. n <= Len(t) /\ v[n] = t[n] /\ Len(t) \in Nat
  <2>1. Len(v) <= Len(t) /\ \A i \in 1..Len(v) : v[i] = t[i]
    BY DEF StartsWith
  <2> HIDE DEF n, v
  <2> QED
    BY <1>1, <2>1
<1>3. n \in 1..Len(t) /\ t[n] = c
  BY <1>1, <1>2
<1> QED
  BY <1>3 DEF Range

\* An authority goes on with a character that the loop takes.
LEMMA AuthorityPlace ==
  ASSUME NEW h \in Seq(Chars), NEW k \in 1..2, IsAuthority(h, k), NEW c \in Chars,
         NEW t \in Seq(Chars), StartsWith(t, Append(h, c)), AreParts(Split(t, Colon))
  PROVE  IF k = 1 THEN c = Colon \/ IsHostCharacter(c) ELSE IsDigit(c)
<1> DEFINE q == Split(h, Colon)
           v == Append(h, c)
           x == Split(v, Colon)
           p == Split(t, Colon)
<1>1. Len(q) = k
  BY DEF IsAuthority
<1>2. v \in Seq(Chars) /\ Colon \in Chars
  BY Appended DEF Colon, Chars
<1>3. SplitBegins(x, p)
  <2>1. Len(v) \in 0..Len(t) /\ v = SubSeq(t, 1, Len(v))
    BY <1>2, StartIs
  <2> HIDE DEF v
  <2> QED
    BY <1>2, <2>1, SplitExtends
<1>4. /\ q \in Seq(Seq(Chars)) /\ Len(q) >= 1
      /\ c # Colon => Grown(q, x, c)
      /\ c = Colon => x = Append(q, <<>>)
  BY SplitGrows
<1>5. p \in Seq(Seq(Chars)) /\ x \in Seq(Seq(Chars))
  <2> HIDE DEF v
  <2> QED
    BY <1>2, SplitGrows
<1> HIDE DEF q, v, x, p
<1>6. Len(p) \in Nat /\ Len(x) \in Nat /\ Len(x) <= Len(p) /\ StartsWith(p[Len(x)], x[Len(x)])
  BY <1>3, <1>5 DEF SplitBegins
<1>7. AreParts(p)
  BY DEF p
<1>8. CASE c = Colon
  <2>1. Len(x) = k + 1
    <3> DEFINE T == Seq(Chars)
               e == <<>>
    <3>1. e \in T /\ q \in Seq(T) /\ x = Append(q, e)
      BY <1>4, <1>8
    <3> HIDE DEF T, e
    <3> QED
      BY <1>1, <3>1, Appended
  <2> QED
    BY <1>6, <1>7, <1>8, <2>1 DEF AreParts
<1>9. CASE c # Colon
  <2>1. Len(x) = k /\ x[k] = Append(q[k], c)
    BY <1>1, <1>4, <1>9 DEF Grown
  <2>2. q[k] \in Seq(Chars) /\ p[k] \in Seq(Chars)
    <3>1. k \in 1..Len(q) /\ k \in 1..Len(p)
      BY <1>1, <1>6, <2>1
    <3> QED
      BY <1>4, <1>5, <3>1, ElementOfSeq
  <2>3. StartsWith(p[k], Append(q[k], c))
    BY <1>6, <2>1
  <2>4. c \in Range(p[k])
    BY <2>2, <2>3, InRange
  <2>5. CASE k = 1
    BY <1>7, <2>4, <2>5 DEF AreParts
  <2>6. CASE k = 2
    <3>1. Len(p) = 2
      <4>1. Len(p) <= 2
        BY <1>7 DEF AreParts
      <4> DEFINE l == Len(p)
                 j == Len(x)
      <4>2. l \in Nat /\ j <= l /\ j = k
        BY <1>6, <2>1
      <4>3. l <= 2
        BY <4>1
      <4> HIDE DEF l, j
      <4>4. l = 2
        BY <2>6, <4>2, <4>3
      <4> QED
        BY <4>4 DEF l
    <3> QED
      BY <1>7, <2>4, <2>6, <3>1 DEF AreParts
  <2> QED
    BY <2>5, <2>6
<1> QED
  BY <1>8, <1>9

\* What precedes the path of a URL: a scheme up to the colon at e, and an authority
\* up to the slash at g of the rest.
IsUrl(y, e, rest, g) ==
  /\ e \in 2..Len(y) /\ y[e] = Colon /\ (\A i \in 1..(e - 1) : IsLetter(y[i]))
  /\ e + 2 <= Len(y) /\ y[e + 1] = Slash /\ y[e + 2] = Slash
  /\ rest \in Seq(Chars) /\ rest = After(y, e + 2) /\ Len(rest) = Len(y) - (e + 2)
  /\ g \in 1..Len(rest) /\ rest[g] = Slash
  /\ AreParts(Split(Before(rest, g), Colon))

\* A URL that does not start with a slash has that.
LEMMA UrlIs ==
  ASSUME NEW y \in Seq(Chars), PathStart(y) > 0, y[1] # Slash
  PROVE  \E e, rest, g : IsUrl(y, e, rest, g)
<1> DEFINE e == Find(y, Colon)
           rest == After(y, e + 2)
           g == Find(rest, Slash)
           p == Split(Before(rest, g), Colon)
<1>1. AreHostParts(y, e, rest, g, p)
  BY DEF AreHostParts
<1>2. HasHost(y, e, rest, g, p)
  <2> SUFFICES ASSUME ~HasHost(y, e, rest, g, p) PROVE FALSE
    OBVIOUS
  <2>1. PathStart(y) = 0
    <3> HIDE DEF e, rest, g, p
    <3> QED
      BY <1>1, PathStartIs
  <2> QED
    BY <2>1
<1>3. /\ e > 1 /\ \A i \in 1..(e - 1) : IsLetter(y[i])
      /\ IsPrefix(<<Slash, Slash>>, After(y, e)) /\ g > 0 /\ AreParts(p)
  BY <1>2 DEF HasHost, AreParts, IsHostCharacter
<1>4. e \in 2..Len(y) /\ y[e] = Colon /\ Len(y) \in Nat
  <2>1. \/ e = 0
        \/ e \in 1..Len(y) /\ y[e] = Colon
    BY FindIs
  <2> QED
    BY <1>3, <2>1
<1> HIDE DEF e
<1>5. e + 2 <= Len(y) /\ y[e + 1] = Slash /\ y[e + 2] = Slash
  <2> DEFINE a == After(y, e)
  <2>1. e \in 0..Len(y)
    BY <1>4
  <2>2. a \in Seq(Chars) /\ Len(a) = Len(y) - e /\ \A i \in 1..(Len(y) - e) : a[i] = y[e + i]
    BY <2>1, BeforeAfter
  <2> HIDE DEF a
  <2>3. Len(a) >= 2 /\ a[1] = Slash /\ a[2] = Slash
    BY <1>3, <2>2, TwoSlashes DEF a
  <2> QED
    BY <1>4, <2>2, <2>3
<1>6. rest \in Seq(Chars) /\ Len(rest) = Len(y) - (e + 2)
  <2> DEFINE m == e + 2
  <2>1. m \in 0..Len(y)
    BY <1>4, <1>5
  <2> HIDE DEF m
  <2> QED
    BY <2>1, BeforeAfter DEF m
<1>7. g \in 1..Len(rest) /\ rest[g] = Slash
  <2> HIDE DEF rest
  <2>1. \/ g = 0
        \/ g \in 1..Len(rest) /\ rest[g] = Slash
    BY <1>6, FindIs
  <2> QED
    BY <1>3, <2>1
<1> HIDE DEF g
<1>8. IsUrl(y, e, rest, g)
  BY <1>3, <1>4, <1>5, <1>6, <1>7 DEF IsUrl
<1> QED
  BY <1>8

\* The colon of a scheme is the one of the URL.
LEMMA ColonPlace ==
  ASSUME NEW x \in Seq(Chars), NEW y \in Seq(Chars), StartsWith(y, x),
         NEW a, Schemed(x, a), NEW e, NEW rest, NEW g, IsUrl(y, e, rest, g)
  PROVE  e = a
<1>1. /\ Len(x) \in Nat /\ Len(x) <= Len(y) /\ Len(y) \in Nat /\ \A i \in 1..Len(x) : x[i] = y[i]
  BY DEF StartsWith
<1>2. a \in 2..Len(x) /\ x[a] = Colon /\ \A i \in 1..(a - 1) : IsLetter(x[i])
  BY DEF Schemed, LettersTo
<1>3. e \in 2..Len(y) /\ y[e] = Colon /\ \A i \in 1..(e - 1) : IsLetter(y[i])
  BY DEF IsUrl
<1>4. ~IsLetter(Colon)
  BY DEF IsLetter, IsUpperLetter, Colon
<1>5. y[a] = Colon /\ \A i \in 1..(a - 1) : IsLetter(y[i])
  BY <1>1, <1>2
<1>6. ~(e < a) /\ ~(a < e)
  BY <1>1, <1>2, <1>3, <1>4, <1>5
<1> QED
  BY <1>1, <1>2, <1>3, <1>6

\* What the loop makes of the characters of an authority.
LEMMA NextOfAuthority ==
  /\ \A c : IsLetter(c) => NextInAuthority("kScheme", c) = "kScheme"
  /\ NextInAuthority("kScheme", Colon) = "kSchemeSlash"
  /\ NextInAuthority("kSchemeSlash", Slash) = "kSchemeDoubleSlash"
  /\ NextInAuthority("kSchemeDoubleSlash", Slash) = "kHost"
  /\ NextInAuthority("kHost", Slash) = "kAfterSlashInUrl"
  /\ NextInAuthority("kPort", Slash) = "kAfterSlashInUrl"
  /\ NextInAuthority("kHost", Colon) = "kPort"
  /\ \A c : c # Slash /\ c # Colon /\ IsHostCharacter(c) => NextInAuthority("kHost", c) = "kHost"
  /\ \A c : c # Slash /\ IsDigit(c) => NextInAuthority("kPort", c) = "kPort"
<1>1. Colon # Slash /\ ~IsLetter(Colon) /\ ~IsLetter(Slash) /\ ~IsDigit(Colon)
  BY DEF Colon, Slash, IsLetter, IsUpperLetter, IsDigit
<1>2. \A c : IsLetter(c) => NextInAuthority("kScheme", c) = "kScheme"
  BY <1>1 DEF NextInAuthority
<1>3. /\ NextInAuthority("kScheme", Colon) = "kSchemeSlash"
      /\ NextInAuthority("kSchemeSlash", Slash) = "kSchemeDoubleSlash"
      /\ NextInAuthority("kSchemeDoubleSlash", Slash) = "kHost"
  BY <1>1 DEF NextInAuthority
<1>4. /\ NextInAuthority("kHost", Slash) = "kAfterSlashInUrl"
      /\ NextInAuthority("kPort", Slash) = "kAfterSlashInUrl"
  BY <1>1 DEF NextInAuthority, Dot, Hyphen, IsDigit, Slash, Colon
<1>5. NextInAuthority("kHost", Colon) = "kPort"
  BY <1>1 DEF NextInAuthority, Dot, Hyphen, Colon
<1>6. \A c : c # Slash /\ c # Colon /\ IsHostCharacter(c) => NextInAuthority("kHost", c) = "kHost"
  BY DEF NextInAuthority, IsHostCharacter
<1>7. \A c : c # Slash /\ IsDigit(c) => NextInAuthority("kPort", c) = "kPort"
  BY DEF NextInAuthority
<1> QED
  BY <1>2, <1>3, <1>4, <1>5, <1>6, <1>7

\* In the authority of a URL.
LEMMA HostPlace ==
  ASSUME NEW s \in {"kHost", "kPort"}, NEW x \in Seq(Chars), BeforePath(s, x),
         NEW y \in Seq(Chars), StartsWith(y, x), NEW e, NEW rest, NEW g, IsUrl(y, e, rest, g)
  PROVE  /\ Len(x) < Len(y)
         /\ NextInAuthority(s, y[Len(x) + 1]) \notin Errors
<1> DEFINE k == IF s = "kHost" THEN 1 ELSE 2
<1>1. k \in 1..2 /\ \E a \in 2..Len(x) : Hosted(x, a, k)
  BY DEF BeforePath
<1>2. PICK a \in 2..Len(x) : Hosted(x, a, k)
  BY <1>1
<1> HIDE DEF k
<1> DEFINE m == a + 2
           h == After(x, m)
           n == Len(h)
           c == y[Len(x) + 1]
           t == Before(rest, g)
<1>3. Schemed(x, a) /\ m <= Len(x) /\ IsAuthority(h, k) /\ a \in Nat /\ Len(x) \in Nat
  BY <1>2 DEF Hosted
<1>4. e = a
  BY <1>3, ColonPlace
<1>5. /\ rest \in Seq(Chars) /\ rest = After(y, m) /\ Len(rest) = Len(y) - m
      /\ g \in 1..Len(rest) /\ rest[g] = Slash
      /\ AreParts(Split(t, Colon)) /\ Len(y) \in Nat
  BY <1>4 DEF IsUrl
<1>6. m \in 0..Len(x) /\ Len(x) <= Len(y) /\ m \in 0..Len(y) /\ m \in Nat
  <2>1. Len(x) <= Len(y)
    BY DEF StartsWith
  <2> QED
    BY <1>3, <1>5, <2>1
<1> HIDE DEF m
<1>7. h \in Seq(Chars) /\ n = Len(x) - m /\ StartsWith(rest, h) /\ n \in Nat
  <2>1. h \in Seq(Chars) /\ n = Len(x) - m
    BY <1>6, BeforeAfter
  <2>2. StartsWith(After(y, m), h)
    BY <1>6, AfterStarts
  <2> QED
    BY <1>5, <2>1, <2>2
<1>8. n < g
  <2>1. \A i \in 1..n : h[i] = rest[i] /\ h[i] # Slash
    <3>1. Slash \notin Range(h)
      BY <1>3 DEF IsAuthority
    <3> HIDE DEF h
    <3> QED
      BY <1>7, <3>1 DEF StartsWith, Range
  <2> HIDE DEF n
  <2> QED
    BY <1>5, <1>7, <2>1
<1>9. Len(x) < Len(y)
  BY <1>5, <1>6, <1>7, <1>8
<1>10. c = rest[n + 1] /\ c \in Chars
  <2>1. \A i \in 1..(Len(y) - m) : After(y, m)[i] = y[m + i]
    BY <1>6, BeforeAfter
  <2>2. n + 1 \in 1..(Len(y) - m) /\ m + (n + 1) = Len(x) + 1 /\ Len(x) + 1 \in 1..Len(y)
    BY <1>5, <1>6, <1>7, <1>9
  <2> HIDE DEF n
  <2>3. rest[n + 1] = c
    BY <1>5, <2>1, <2>2
  <2>4. c \in Chars
    BY <2>2, ElementOfSeq
  <2> QED
    BY <2>3, <2>4
<1>11. CASE c = Slash
  <2> HIDE DEF c
  <2>1. NextInAuthority(s, c) = "kAfterSlashInUrl"
    BY <1>11, NextOfAuthority
  <2> QED
    BY <1>9, <2>1 DEF Errors, c
<1>12. CASE c # Slash
  <2>1. t \in Seq(Chars) /\ Len(t) = g - 1 /\ \A i \in 1..(g - 1) : t[i] = rest[i]
    <3>1. g \in 0..Len(rest) /\ g >= 1
      BY <1>5
    <3> QED
      BY <1>5, <3>1, BeforeAfter
  <2>2. n + 1 <= g - 1
    <3>1. g # n + 1
      BY <1>5, <1>10, <1>12
    <3> HIDE DEF n
    <3> QED
      BY <1>5, <1>7, <1>8, <3>1
  <2> HIDE DEF n, t, h, c
  <2>3. StartsWith(t, Append(h, c))
    <3>1. /\ Len(Append(h, c)) = n + 1 /\ Append(h, c)[n + 1] = c
          /\ \A i \in 1..n : Append(h, c)[i] = h[i]
      BY <1>7, <1>10, Appended DEF n
    <3>2. \A i \in 1..n : h[i] = rest[i]
      BY <1>7 DEF StartsWith, n
    <3>3. \A i \in 1..(n + 1) : Append(h, c)[i] = t[i]
      <4> SUFFICES ASSUME NEW i \in 1..(n + 1) PROVE Append(h, c)[i] = t[i]
        OBVIOUS
      <4>1. i \in 1..(g - 1) /\ t[i] = rest[i]
        BY <1>5, <1>7, <2>1, <2>2
      <4>2. CASE i = n + 1
        BY <1>10, <3>1, <4>1, <4>2
      <4>3. CASE i # n + 1
        <5>1. i \in 1..n
          BY <1>7, <4>3
        <5> QED
          BY <3>1, <3>2, <4>1, <5>1
      <4> QED
        BY <4>2, <4>3
    <3> QED
      BY <1>5, <1>7, <2>1, <2>2, <3>1, <3>3 DEF StartsWith
  <2>4. IF k = 1 THEN c = Colon \/ IsHostCharacter(c) ELSE IsDigit(c)
    BY <1>1, <1>3, <1>5, <1>7, <1>10, <2>1, <2>3, AuthorityPlace
  <2>5. NextInAuthority(s, c) \in {"kPort", "kHost"}
    <3>1. CASE s = "kHost"
      <4>1. c = Colon \/ IsHostCharacter(c)
        BY <2>4, <3>1 DEF k
      <4> QED
        BY <1>10, <1>12, <3>1, <4>1, NextOfAuthority DEF c
    <3>2. CASE s = "kPort"
      <4>1. IsDigit(c)
        BY <2>4, <3>2 DEF k
      <4> QED
        BY <1>10, <1>12, <3>2, <4>1, NextOfAuthority DEF c
    <3> QED
      BY <3>1, <3>2
  <2> QED
    BY <1>9, <2>5 DEF Errors, c
<1> QED
  BY <1>11, <1>12

\* Before its path a URL goes on with a character that the loop takes.
LEMMA UrlPlace ==
  ASSUME NEW s \in AuthorityStates, NEW x \in Seq(Chars), x # <<>>, BeforePath(s, x),
         NEW y \in Seq(Chars), StartsWith(y, x), PathStart(y) > 0
  PROVE  /\ Len(x) < Len(y)
         /\ NextInAuthority(s, y[Len(x) + 1]) \notin Errors
<1> DEFINE k == Len(x)
<1>1. k \in Nat /\ k >= 1 /\ k <= Len(y) /\ Len(y) \in Nat /\ \A i \in 1..k : x[i] = y[i]
  BY DEF StartsWith
<1>2. IsLetter(x[1])
  <2>1. CASE s \in {"kHost", "kPort"}
    <3>1. \E a \in 2..Len(x) : Schemed(x, a)
      BY <2>1 DEF BeforePath, Hosted
    <3>2. PICK a \in 2..Len(x) : Schemed(x, a)
      BY <3>1
    <3>3. 1 \in 1..(a - 1)
      BY <3>2
    <3> QED
      BY <3>2, <3>3 DEF Schemed, LettersTo
  <2>2. CASE s \notin {"kHost", "kPort"}
    <3>1. s \in {"kScheme", "kSchemeSlash", "kSchemeDoubleSlash"}
      BY <2>2 DEF AuthorityStates
    <3>2. \E n \in Nat : LettersTo(x, n)
      BY <1>1, <3>1 DEF BeforePath, Schemed
    <3>3. PICK n \in Nat : LettersTo(x, n)
      BY <3>2
    <3>4. 1 \in 1..n
      BY <3>3 DEF LettersTo
    <3> QED
      BY <3>3, <3>4 DEF LettersTo
  <2> QED
    BY <2>1, <2>2
<1>3. y[1] # Slash
  <2>1. ~IsLetter(Slash)
    BY DEF IsLetter, IsUpperLetter, Slash
  <2> QED
    BY <1>1, <1>2, <2>1
<1>4. PICK e, rest, g : IsUrl(y, e, rest, g)
  BY <1>3, UrlIs
<1>5. /\ e \in 2..Len(y) /\ y[e] = Colon /\ (\A i \in 1..(e - 1) : IsLetter(y[i]))
      /\ e + 2 <= Len(y) /\ y[e + 1] = Slash /\ y[e + 2] = Slash
  BY <1>4 DEF IsUrl
<1>6. CASE s = "kScheme"
  <2>1. \A i \in 1..k : IsLetter(x[i])
    BY <1>6 DEF BeforePath, LettersTo
  <2>2. ~IsLetter(Colon)
    BY DEF IsLetter, IsUpperLetter, Colon
  <2>3. e > k
    BY <1>1, <1>5, <2>1, <2>2
  <2> DEFINE c == y[k + 1]
  <2>4. c = Colon \/ IsLetter(c)
    BY <1>1, <1>5, <2>3
  <2> HIDE DEF c
  <2>5. NextInAuthority(s, c) \in {"kScheme", "kSchemeSlash"}
    BY <1>6, <2>4, NextOfAuthority
  <2> QED
    BY <1>1, <1>5, <2>3, <2>5 DEF Errors, c
<1>7. CASE s = "kSchemeSlash"
  <2>1. Schemed(x, k)
    BY <1>7 DEF BeforePath
  <2>2. e = k
    <3> HIDE DEF k
    <3> QED
      BY <1>4, <2>1, ColonPlace
  <2> QED
    BY <1>1, <1>5, <1>7, <2>2, NextOfAuthority DEF Errors
<1>8. CASE s = "kSchemeDoubleSlash"
  <2> DEFINE a == k - 1
  <2>1. Schemed(x, a)
    BY <1>8 DEF BeforePath
  <2>2. e = a
    <3> HIDE DEF a
    <3> QED
      BY <1>4, <2>1, ColonPlace
  <2>3. k + 1 = e + 2
    BY <1>1, <2>2
  <2> QED
    BY <1>1, <1>5, <1>8, <2>3, NextOfAuthority DEF Errors
<1>9. CASE s \in {"kHost", "kPort"}
  BY <1>4, <1>9, HostPlace
<1> QED
  BY <1>6, <1>7, <1>8, <1>9 DEF AuthorityStates

-----------------------------------------------------------------------------
(* A request line, character by character                                  *)

\* A request line without its line end.
Whole(b) ==
  /\ b \in Seq(Chars) /\ b # <<>> /\ b[1] # Space /\ Last(b) # Space
  /\ Len(WordsOf(b)) = 3 /\ WordsOf(b)[1] \in Methods
  /\ PathStart(WordsOf(b)[2]) > 0 /\ WordsOf(b)[2] \in Seq(Chars)
  /\ WordsOf(b)[3] \in Seq(Chars) /\ IsStrict(WordsOf(b)[3], Find(WordsOf(b)[3], Dot))

\* It is.
LEMMA WholeIs ==
  ASSUME NEW b \in Seq(Chars), b # <<>>, IsLineOf(b, IsVersionWord)
  PROVE  Whole(b)
<1> DEFINE w == WordsOf(b)
<1>1. /\ Len(w) = 3 /\ b[1] # Space /\ Last(b) # Space /\ w[1] \in Methods /\ PathStart(w[2]) > 0
      /\ IsVersionWord(w[3])
  BY DEF IsLineOf
<1>2. w[2] \in Seq(Chars) /\ w[3] \in Seq(Chars)
  <2> DEFINE T == Seq(Chars)
             i == 2
             j == 3
  <2>1. w \in Seq(T) /\ i \in 1..Len(w) /\ j \in 1..Len(w)
    BY <1>1, WordsIs
  <2> HIDE DEF w, T, i, j
  <2>2. w[i] \in T /\ w[j] \in T
    BY <2>1, ElementOfSeq
  <2> QED
    BY <2>2 DEF T, i, j
<1> HIDE DEF w
<1>3. IsStrict(w[3], Find(w[3], Dot))
  <2> DEFINE v == w[3]
  <2>1. v \in Seq(Chars) /\ IsVersionWord(v)
    BY <1>1, <1>2
  <2> HIDE DEF v
  <2>2. IsStrict(v, Find(v, Dot))
    BY <2>1, VersionWordIs
  <2> QED
    BY <2>2 DEF v
<1> QED
  BY <1>1, <1>2, <1>3 DEF Whole, w

\* When three words have begun, the line goes on with a character of the third.
LEMMA InThird ==
  ASSUME NEW b, Whole(b), NEW n \in 1..Len(b), NEW u, u = SubSeq(b, 1, n - 1), NEW c, c = b[n],
         Len(WordsOf(u)) >= 3
  PROVE  /\ Len(WordsOf(u)) = 3 /\ WordsOf(u)[3] \in Seq(Chars)
         /\ StartsWith(WordsOf(b)[3], Append(WordsOf(u)[3], c))
<1> DEFINE p == WordsOf(u)
           q == WordsOf(b)
           v == SubSeq(b, 1, n)
<1>1. b \in Seq(Chars) /\ b # <<>> /\ Last(b) # Space /\ Len(q) = 3
  BY DEF Whole
<1>2. Len(b) \in Nat /\ n - 1 \in 0..Len(b) /\ n \in 0..Len(b)
  BY <1>1
<1>3. u \in Seq(Chars) /\ c \in Chars /\ v = Append(u, c) /\ v \in Seq(Chars)
      /\ Last(Append(u, c)) = c
  <2>1. u \in Seq(Chars) /\ c \in Chars /\ v = Append(u, c) /\ v \in Seq(Chars)
    BY <1>1, <1>2, PrefixGrows
  <2>2. \A x \in Seq(Chars) : \A y \in Chars : Last(Append(x, y)) = y
    BY Appended
  <2> QED
    BY <2>1, <2>2
<1>4. Continues(p, q, u, c)
  BY <1>1, WordContinues
<1>5. ~AtGap(b)
  BY <1>1 DEF AtGap
<1>6. Len(p) = 3
  <2> DEFINE l == Len(p)
             k == Len(q)
  <2>1. l >= 3 /\ k = 3
    BY <1>1
  <2>2. l \in Nat /\ l <= k
    BY <1>4 DEF Continues
  <2> HIDE DEF l, k
  <2>3. l = 3
    BY <2>1, <2>2
  <2> QED
    BY <2>3 DEF l
<1>7. ~AtGap(u)
  <2>1. AtGap(u) => AtGap(b) \/ Len(q) > Len(p)
    BY <1>1, <1>2, WordsGoOn
  <2> HIDE DEF p, q
  <2> QED
    BY <1>1, <1>5, <1>6, <2>1
<1>8. c # Space
  <2> SUFFICES ASSUME c = Space PROVE FALSE
    OBVIOUS
  <2>1. Last(Append(u, c)) = c
    BY <1>3
  <2>2. AtGap(v)
    BY <1>3, <2>1 DEF AtGap
  <2>3. WordsOf(v) = p
    BY <1>3, WordsIs
  <2>4. AtGap(v) => AtGap(b) \/ Len(q) > Len(WordsOf(v))
    BY <1>1, <1>2, WordsGoOn
  <2>5. ~(Len(q) > Len(WordsOf(v)))
    <3> DEFINE l == Len(WordsOf(v))
               k == Len(q)
    <3>1. k = 3 /\ l = 3
      BY <1>1, <1>6, <2>3
    <3> HIDE DEF l, k
    <3>2. ~(k > l)
      BY <3>1
    <3> QED
      BY <3>2 DEF l, k
  <2> QED
    BY <1>5, <2>2, <2>4, <2>5, Zenon
<1>9. p[3] \in Seq(Chars)
  <2> DEFINE T == Seq(Chars)
             i == 3
  <2>1. p \in Seq(T)
    BY <1>3, WordsIs
  <2>2. i \in 1..Len(p)
    BY <1>6
  <2> HIDE DEF p, T, i
  <2>3. p[i] \in T
    BY <2>1, <2>2, ElementOfSeq
  <2> QED
    BY <2>3 DEF T, i
<1> HIDE DEF p, q
<1>10. StartsWith(q[3], Append(p[3], c))
  BY <1>4, <1>6, <1>7, <1>8 DEF Continues
<1> QED
  BY <1>6, <1>9, <1>10 DEF p, q

\* Of the version: no character of it is a line end.
LEMMA NoLineEnd ==
  ASSUME NEW v \in Seq(Chars), NEW d, IsStrict(v, d)
  PROVE  \A i \in 1..Len(v) : v[i] \notin {CR, LF}
<1>1. /\ d \in {7, 8} /\ d + 1 <= Len(v) /\ Len(v) \in Nat /\ Len(v) <= d + 2
      /\ v[1] = 72 /\ v[2] = 84 /\ v[3] = 84 /\ v[4] = 80 /\ v[5] = 47
      /\ IsDigit(v[6]) /\ (d = 8 => IsDigit(v[7])) /\ v[d] = 46 /\ IsDigit(v[d + 1])
      /\ Len(v) = d + 2 => IsDigit(v[d + 2])
  BY DEF IsStrict, StrictTo, Dot, Slash
<1>2. \A c : IsDigit(c) => c \notin {CR, LF}
  BY DEF IsDigit, CR, LF
<1> SUFFICES ASSUME NEW i \in 1..Len(v) PROVE v[i] \notin {CR, LF}
  OBVIOUS
<1>3. i \in 1..8 \/ i = d + 1 \/ i = d + 2
  BY <1>1
<1>4. CASE i \in 1..5
  <2>1. i = 1 \/ i = 2 \/ i = 3 \/ i = 4 \/ i = 5
    BY <1>4
  <2>2. v[i] \in {72, 84, 80, 47}
    BY SMTT(30), <1>1, <2>1
  <2> QED
    BY <2>2 DEF CR, LF
<1>5. CASE i \in {6, 7, 8} /\ i <= d
  <2>1. IsDigit(v[i]) \/ v[i] = 46
    BY <1>1, <1>5
  <2> QED
    BY <1>2, <2>1 DEF CR, LF
<1>6. CASE i = d + 1 \/ i = d + 2
  <2>1. IsDigit(v[i])
    BY <1>1, <1>6
  <2> QED
    BY <1>2, <2>1
<1> QED
  BY <1>1, <1>3, <1>4, <1>5, <1>6

\* The front u of the line b is followed by c.
AtPlace(b, n, u, c) == Whole(b) /\ n \in 1..Len(b) /\ u = SubSeq(b, 1, n - 1) /\ c = b[n]

\* The loop goes on, and is not through.
Goes(s, c, u) == Next1(s, c, u) \notin Errors \cup {"kDone"}

\* What follows of it.
LEMMA PlaceIs ==
  ASSUME NEW b, NEW n, NEW u, NEW c, AtPlace(b, n, u, c)
  PROVE  /\ u \in Seq(Chars) /\ c \in Chars /\ Len(u) = n - 1 /\ n \in Nat /\ n >= 1
         /\ Continues(WordsOf(u), WordsOf(b), u, c)
         /\ \A i \in 1..(n - 1) : u[i] = b[i]
<1>1. b \in Seq(Chars) /\ n \in 1..Len(b) /\ u = SubSeq(b, 1, n - 1) /\ c = b[n]
  BY DEF AtPlace, Whole
<1>2. Len(b) \in Nat /\ n - 1 \in 0..Len(b) /\ n \in Nat /\ n >= 1
  BY <1>1
<1>3. u \in Seq(Chars) /\ Len(u) = n - 1 /\ c \in Chars /\ \A i \in 1..(n - 1) : u[i] = b[i]
  <2> DEFINE m == n - 1
  <2>1. m \in 0..Len(b) /\ u = SubSeq(b, 1, m)
    BY <1>1, <1>2
  <2> HIDE DEF m
  <2>2. u \in Seq(Chars) /\ Len(u) = m /\ \A i \in 1..m : u[i] = b[i]
    BY <1>1, <2>1, PrefixGrows
  <2> QED
    BY <1>1, <2>2, ElementOfSeq DEF m
<1>4. Continues(WordsOf(u), WordsOf(b), u, c)
  BY <1>1, WordContinues
<1> QED
  BY <1>2, <1>3, <1>4

\* A string that starts with one character.
LEMMA HeadIs ==
  ASSUME NEW t \in Seq(Chars), NEW c \in Chars, StartsWith(t, <<c>>)
  PROVE  Len(t) >= 1 /\ t[1] = c
BY DEF StartsWith

\* The first character is one of a method.
LEMMA StartGoes ==
  ASSUME NEW b, NEW n, NEW u, NEW c, AtPlace(b, n, u, c), Len(u) = 0
  PROVE  Goes("kStart", c, u)
<1> DEFINE p == WordsOf(u)
           q == WordsOf(b)
<1>1. u \in Seq(Chars) /\ c \in Chars /\ n = 1 /\ Continues(p, q, u, c)
  BY PlaceIs
<1>2. u = <<>> /\ p = <<>> /\ AtGap(u)
  BY <1>1, WordsIs DEF AtGap
<1>3. c # Space /\ q[1] \in Methods
  BY <1>1 DEF AtPlace, Whole
<1> HIDE DEF p, q
<1>4. StartsWith(q[1], <<c>>)
  <2>1. Len(p) = 0
    BY <1>2
  <2>2. StartsWith(q[Len(p) + 1], <<c>>)
    BY <1>1, <1>2, <1>3 DEF Continues
  <2> QED
    BY <2>1, <2>2
<1>5. IsUpperLetter(c)
  <2>1. q[1] \in Seq(Chars) /\ IsUpperLetter(q[1][1])
    BY <1>3, MethodWord, MethodStarts
  <2>2. q[1][1] = c
    BY <1>1, <1>4, <2>1, HeadIs
  <2> QED
    BY <2>1, <2>2
<1>6. c # CR /\ c # LF
  BY <1>5, UpperLetters
<1>7. Next1("kStart", c, u) = "kMethod"
  BY <1>5, <1>6 DEF Next1, NextInMethod
<1> QED
  BY <1>7 DEF Goes, Errors

\* A method goes on with a letter, or is one.
LEMMA MethodGoes ==
  ASSUME NEW b, NEW n, NEW u, NEW c, AtPlace(b, n, u, c), Len(u) > 0,
         \A i \in 1..Len(u) : IsUpperLetter(u[i])
  PROVE  Goes("kMethod", c, u)
<1> DEFINE p == WordsOf(u)
           q == WordsOf(b)
<1>1. u \in Seq(Chars) /\ c \in Chars /\ Continues(p, q, u, c)
  BY PlaceIs
<1>2. u # <<>> /\ \A i \in 1..Len(u) : u[i] # Space
  BY <1>1, UpperLetters
<1>3. p = <<u>>
  BY <1>1, <1>2, OneWord
<1>4. ~AtGap(u)
  <2>1. Last(u) = u[Len(u)] /\ Len(u) \in 1..Len(u)
    BY <1>1, <1>2, LastIs
  <2> QED
    BY <1>2, <2>1 DEF AtGap
<1>5. q[1] \in Methods
  BY DEF AtPlace, Whole
<1>6. Len(p) = 1 /\ p[1] = u
  BY <1>3
<1> HIDE DEF p, q
<1>7. CASE c = Space
  <2>1. q[1] = u
    BY <1>1, <1>6, <1>7 DEF Continues
  <2>2. Next1("kMethod", c, u) = "kSpacesBeforeUrl"
    <3>1. ~IsUpperLetter(Space) /\ u \in Methods
      BY <1>5, <2>1 DEF IsUpperLetter, Space
    <3> QED
      BY <1>7, <3>1 DEF Next1, NextInMethod
  <2> QED
    BY <2>2 DEF Goes, Errors
<1>8. CASE c # Space
  <2>1. StartsWith(q[1], Append(u, c))
    BY <1>1, <1>4, <1>6, <1>8 DEF Continues
  <2>2. q[1] \in Seq(Chars) /\ \A i \in 1..Len(q[1]) : IsUpperLetter(q[1][i])
    BY <1>5, MethodWord
  <2>3. Len(u) + 1 \in 1..Len(q[1]) /\ q[1][Len(u) + 1] = c
    BY <1>1, <2>1, <2>2, InRange
  <2>4. IsUpperLetter(c)
    BY <2>2, <2>3
  <2>5. Next1("kMethod", c, u) = "kMethod"
    BY <1>8, <2>4 DEF Next1, NextInMethod
  <2> QED
    BY <2>5 DEF Goes, Errors
<1> QED
  BY <1>7, <1>8

\* Spaces end with the first character of a URL.
LEMMA SpacesGo ==
  ASSUME NEW b, NEW n, NEW u, NEW c, AtPlace(b, n, u, c), AtGap(u), Len(WordsOf(u)) = 1
  PROVE  Goes("kSpacesBeforeUrl", c, u)
<1> DEFINE p == WordsOf(u)
           q == WordsOf(b)
           y == q[2]
<1>1. c \in Chars /\ Continues(p, q, u, c)
  BY PlaceIs
<1>2. PathStart(y) > 0 /\ y \in Seq(Chars)
  BY DEF AtPlace, Whole
<1>3. Len(p) = 1
  OBVIOUS
<1> HIDE DEF p, q
<1>4. CASE c = Space
  <2>1. Next1("kSpacesBeforeUrl", c, u) = "kSpacesBeforeUrl"
    BY <1>4 DEF Next1, NextInAuthority, Space, Slash, IsLetter, IsUpperLetter
  <2> QED
    BY <2>1 DEF Goes, Errors
<1>5. CASE c # Space
  <2>1. StartsWith(y, <<c>>)
    <3>1. StartsWith(q[Len(p) + 1], <<c>>)
      BY <1>1, <1>5 DEF Continues
    <3> QED
      BY <1>3, <3>1
  <2> HIDE DEF y
  <2>2. y[1] = c
    BY <1>1, <1>2, <2>1, HeadIs
  <2>3. c = Slash \/ IsLetter(c)
    <3> SUFFICES ASSUME c # Slash PROVE IsLetter(c)
      OBVIOUS
    <3>1. \E e, rest, g : IsUrl(y, e, rest, g)
      BY <1>2, <2>2, UrlIs
    <3>2. PICK e, rest, g : IsUrl(y, e, rest, g)
      BY <3>1
    <3>3. 1 \in 1..(e - 1) /\ \A i \in 1..(e - 1) : IsLetter(y[i])
      BY <3>2 DEF IsUrl
    <3> QED
      BY <2>2, <3>3
  <2>4. Next1("kSpacesBeforeUrl", c, u) \in {"kAfterSlashInUrl", "kScheme"}
    <3>1. Next1("kSpacesBeforeUrl", c, u) = NextInAuthority("kSpacesBeforeUrl", c)
      BY DEF Next1
    <3>2. Slash # Space /\ ~IsLetter(Slash)
      BY DEF Slash, Space, IsLetter, IsUpperLetter
    <3> QED
      BY <1>5, <2>3, <3>1, <3>2 DEF NextInAuthority
  <2> QED
    BY <2>4 DEF Goes, Errors
<1> QED
  BY <1>4, <1>5

\* What precedes the path goes on.
LEMMA AuthorityGoes ==
  ASSUME NEW b, NEW n, NEW u, NEW c, AtPlace(b, n, u, c), ~AtGap(u), Len(WordsOf(u)) = 2,
         NEW s \in AuthorityStates, BeforePath(s, WordsOf(u)[2])
  PROVE  Goes(s, c, u)
<1> DEFINE p == WordsOf(u)
           q == WordsOf(b)
           x == p[2]
           y == q[2]
           k == 2
<1>1. c \in Chars /\ u \in Seq(Chars) /\ Continues(p, q, u, c)
  BY PlaceIs
<1>2. PathStart(y) > 0 /\ y \in Seq(Chars)
  BY DEF AtPlace, Whole
<1>3. Len(p) = k /\ k = 2 /\ BeforePath(s, x)
  OBVIOUS
<1>4. x \in Seq(Chars) /\ x # <<>>
  <2> DEFINE T == Seq(Chars)
  <2>1. p \in Seq(T)
    BY <1>1, WordsIs
  <2>2. k \in 1..Len(p)
    BY <1>3
  <2> HIDE DEF p, T, k
  <2>3. p[k] \in T
    BY <2>1, <2>2, ElementOfSeq
  <2>4. x \in Seq(Chars)
    BY <2>3 DEF T, k
  <2> HIDE DEF x
  <2> QED
    BY <1>3, <2>4, BeforePathIsSome
<1> HIDE DEF p, q
<1>5. c # Space
  <2> SUFFICES ASSUME c = Space PROVE FALSE
    OBVIOUS
  <2>1. y = x
    BY <1>1, <1>3 DEF Continues
  <2> HIDE DEF x, y
  <2>2. StartsWith(y, x) /\ Len(x) \in Nat
    BY <1>4, <2>1 DEF StartsWith
  <2>3. Len(x) < Len(y)
    BY <1>2, <1>3, <1>4, <2>2, UrlPlace
  <2> QED
    BY <2>1, <2>2, <2>3
<1>6. StartsWith(y, Append(x, c))
  BY <1>1, <1>3, <1>5 DEF Continues
<1> HIDE DEF x, y
<1>7. y[Len(x) + 1] = c
  BY <1>1, <1>2, <1>4, <1>6, InRange
<1>8. StartsWith(y, x)
  <2>1. Len(x) \in Nat /\ Len(Append(x, c)) = Len(x) + 1 /\ \A i \in 1..Len(x) : Append(x, c)[i] = x[i]
    BY <1>1, <1>4, Appended
  <2>2. Len(y) \in Nat
    BY <1>2
  <2>3. Len(Append(x, c)) <= Len(y) /\ \A i \in 1..Len(Append(x, c)) : Append(x, c)[i] = y[i]
    BY <1>6 DEF StartsWith
  <2>4. Len(x) <= Len(y) /\ \A i \in 1..Len(x) : i \in 1..Len(Append(x, c))
    BY <2>1, <2>2, <2>3
  <2> QED
    BY <2>1, <2>3, <2>4 DEF StartsWith
<1>9. NextInAuthority(s, c) \notin Errors
  BY <1>2, <1>3, <1>4, <1>7, <1>8, UrlPlace
<1>10. NextInAuthority(s, c) # "kDone"
  BY DEF NextInAuthority, AuthorityStates
<1>11. Next1(s, c, u) = NextInAuthority(s, c)
  BY DEF Next1, AuthorityStates
<1> QED
  BY <1>9, <1>10, <1>11 DEF Goes

\* A path goes on, or ends.
LEMMA PathGoes ==
  ASSUME NEW s \in PathStates, NEW c, NEW u
  PROVE  Goes(s, c, u)
<1>1. Next1(s, c, u) = NextInUrl(s, c)
  BY DEF Next1, PathStates
<1>2. NextInUrl(s, c) \in {"kH", "kAfterSlashInUrl", "kUrl", "kCheckUrl"}
  BY DEF NextInUrl
<1> QED
  BY <1>1, <1>2 DEF Goes, Errors

\* In the version the state is what NextInVersion() says.
LEMMA VersionNext ==
  ASSUME NEW s \in VersionStates \cup {"kH", "kMinorDigit", "kCRLFAfterMinor", "kAlmostDone"},
         NEW c, NEW u
  PROVE  Next1(s, c, u) = NextInVersion(s, c)
BY DEF Next1, VersionStates

\* Spaces end with the H of HTTP.
LEMMA HGoes ==
  ASSUME NEW b, NEW n, NEW u, NEW c, AtPlace(b, n, u, c), AtGap(u), Len(WordsOf(u)) = 2
  PROVE  Goes("kH", c, u)
<1> DEFINE p == WordsOf(u)
           q == WordsOf(b)
           y == q[3]
<1>1. c \in Chars /\ Continues(p, q, u, c)
  BY PlaceIs
<1>2. y \in Seq(Chars) /\ y[1] = 72
  BY DEF AtPlace, Whole, IsStrict, StrictTo
<1>3. Len(p) = 2
  OBVIOUS
<1> HIDE DEF p, q
<1>4. Next1("kH", c, u) = NextInVersion("kH", c)
  BY VersionNext
<1>5. CASE c = Space
  <2>1. NextInVersion("kH", c) = "kH"
    BY <1>5 DEF NextInVersion, LineEndStates, Space
  <2> QED
    BY <1>4, <2>1 DEF Goes, Errors
<1>6. CASE c # Space
  <2>1. StartsWith(y, <<c>>)
    <3>1. StartsWith(q[Len(p) + 1], <<c>>)
      BY <1>1, <1>6 DEF Continues
    <3> QED
      BY <1>3, <3>1
  <2> HIDE DEF y
  <2>2. c = 72
    BY <1>1, <1>2, <2>1, HeadIs
  <2>3. NextInVersion("kH", c) = "kHT"
    BY <2>2 DEF NextInVersion, LineEndStates, Space
  <2> QED
    BY <1>4, <2>3 DEF Goes, Errors
<1> QED
  BY <1>5, <1>6

\* What a string starts with when it starts with that and one more.
LEMMA StartsLess ==
  ASSUME NEW x \in Seq(Chars), NEW c \in Chars, NEW y \in Seq(Chars), StartsWith(y, Append(x, c))
  PROVE  StartsWith(y, x) /\ y[Len(x) + 1] = c /\ Len(x) + 1 \in 1..Len(y)
<1>1. y[Len(x) + 1] = c /\ Len(x) + 1 \in 1..Len(y)
  BY InRange
<1>2. Len(x) \in Nat /\ Len(Append(x, c)) = Len(x) + 1 /\ \A i \in 1..Len(x) : Append(x, c)[i] = x[i]
  BY Appended
<1>3. Len(y) \in Nat /\ Len(x) <= Len(y)
  BY <1>1, <1>2
<1>4. Len(Append(x, c)) <= Len(y) /\ \A i \in 1..Len(Append(x, c)) : Append(x, c)[i] = y[i]
  BY DEF StartsWith
<1>5. \A i \in 1..Len(x) : i \in 1..Len(Append(x, c))
  BY <1>2
<1> QED
  BY <1>1, <1>2, <1>3, <1>4, <1>5 DEF StartsWith

\* What a third word that goes on is a part of.
LEMMA ThirdIs ==
  ASSUME NEW b, NEW n, NEW u, NEW c, AtPlace(b, n, u, c), Len(WordsOf(u)) >= 3
  PROVE  \E x \in Seq(Chars), y \in Seq(Chars), d \in {7, 8} :
           /\ Len(WordsOf(u)) = 3 /\ x = WordsOf(u)[3] /\ y = WordsOf(b)[3] /\ IsStrict(y, d)
           /\ StartsWith(y, x) /\ y[Len(x) + 1] = c /\ Len(x) + 1 \in 1..Len(y)
<1> DEFINE x == WordsOf(u)[3]
           y == WordsOf(b)[3]
           d == Find(y, Dot)
<1>1. Whole(b) /\ n \in 1..Len(b) /\ u = SubSeq(b, 1, n - 1) /\ c = b[n]
  BY DEF AtPlace
<1>2. Len(WordsOf(u)) = 3 /\ x \in Seq(Chars) /\ StartsWith(y, Append(x, c))
  BY <1>1, InThird
<1>3. y \in Seq(Chars) /\ IsStrict(y, d)
  BY <1>1 DEF Whole
<1>4. c \in Chars /\ d \in {7, 8}
  <2>1. d \in {7, 8}
    BY <1>3 DEF IsStrict, StrictTo
  <2> QED
    BY <2>1, PlaceIs
<1> HIDE DEF x, y, d
<1>5. StartsWith(y, x) /\ y[Len(x) + 1] = c /\ Len(x) + 1 \in 1..Len(y)
  BY <1>2, <1>3, <1>4, StartsLess
<1> QED
  BY <1>2, <1>3, <1>4, <1>5 DEF x, y

\* A version goes on.
LEMMA VersionGoes ==
  ASSUME NEW b, NEW n, NEW u, NEW c, AtPlace(b, n, u, c), Len(WordsOf(u)) = 3,
         NEW s \in VersionStates, NEW m, BeforeMinor(s, WordsOf(u)[3], m)
  PROVE  Goes(s, c, u)
<1>1. Len(WordsOf(u)) >= 3
  OBVIOUS
<1>2. PICK x \in Seq(Chars), y \in Seq(Chars), d \in {7, 8} :
         /\ x = WordsOf(u)[3] /\ IsStrict(y, d)
         /\ StartsWith(y, x) /\ y[Len(x) + 1] = c
  BY <1>1, ThirdIs
<1>3. BeforeMinor(s, x, m) /\ StrictTo(y, d)
  BY <1>2 DEF IsStrict
<1>4. NextInVersion(s, y[Len(x) + 1]) \notin Errors \cup {"kDone"}
  BY <1>2, <1>3, VersionPlace
<1>5. Next1(s, c, u) = NextInVersion(s, c)
  BY VersionNext
<1> QED
  BY <1>2, <1>4, <1>5 DEF Goes

\* After the first minor digit a digit may follow, no line end.
LEMMA MinorGoes ==
  ASSUME NEW b, NEW n, NEW u, NEW c, AtPlace(b, n, u, c), Len(WordsOf(u)) = 3
  PROVE  Goes("kMinorDigit", c, u)
<1>1. Len(WordsOf(u)) >= 3
  OBVIOUS
<1>2. PICK x \in Seq(Chars), y \in Seq(Chars), d \in {7, 8} :
         /\ IsStrict(y, d) /\ y[Len(x) + 1] = c /\ Len(x) + 1 \in 1..Len(y)
  BY SMTT(30), <1>1, ThirdIs
<1>3. c \notin {CR, LF}
  BY <1>2, NoLineEnd
<1>4. NextInVersion("kMinorDigit", c) = "kCRLFAfterMinor"
  BY <1>3 DEF NextInVersion, LineEndStates
<1>5. Next1("kMinorDigit", c, u) = NextInVersion("kMinorDigit", c)
  BY VersionNext
<1> QED
  BY <1>4, <1>5 DEF Goes, Errors

\* The last of what has been read is a place too.
LEMMA PlaceBefore ==
  ASSUME NEW b, NEW n, NEW u, NEW c, AtPlace(b, n, u, c), u # <<>>
  PROVE  AtPlace(b, n - 1, Front(u), Last(u)) /\ u = Append(Front(u), Last(u))
<1> DEFINE m == n - 1
           f == SubSeq(b, 1, m - 1)
<1>1. b \in Seq(Chars) /\ n \in 1..Len(b) /\ u = SubSeq(b, 1, m) /\ Whole(b)
  BY DEF AtPlace, Whole
<1>2. u \in Seq(Chars) /\ Len(u) = n - 1 /\ n \in Nat
  BY PlaceIs
<1>3. m \in 1..Len(b) /\ m \in 0..Len(b) /\ m - 1 \in 0..Len(b)
  <2>1. Len(u) # 0
    BY <1>2
  <2> QED
    BY <1>1, <1>2, <2>1
<1> HIDE DEF m
<1>4. f \in Seq(Chars) /\ b[m] \in Chars /\ u = Append(f, b[m])
  BY <1>1, <1>3, PrefixGrows
<1> HIDE DEF f
<1>5. Front(u) = f /\ Last(u) = b[m]
  BY <1>4, Appended
<1> QED
  BY <1>1, <1>3, <1>4, <1>5 DEF AtPlace, m, f

\* What follows the third word when it has begun belongs to it, so that two minor
\* digits are not followed by anything in the line.
LEMMA MoreIsLast ==
  ASSUME NEW b, NEW n, NEW u, NEW c, AtPlace(b, n, u, c), NEW r, VersionedMore(u, r)
  PROVE  FALSE
<1> DEFINE f == Front(u)
           l == Last(u)
           v == WordsOf(f)[3]
           w == WordsOf(u)[3]
<1>1. u # <<>> /\ \E i \in 0..9 : Versioned(f, r, i)
  BY DEF VersionedMore
<1>2. PICK i \in 0..9 : Versioned(f, r, i)
  BY <1>1
<1>3. f # <<>> /\ Last(f) # Space /\ Len(WordsOf(f)) = 3 /\ VersionIs(v, r.major, i)
  BY <1>2 DEF Versioned
<1>4. AtPlace(b, n - 1, f, l) /\ u = Append(f, l)
  BY <1>1, PlaceBefore
<1>5. f \in Seq(Chars) /\ l \in Chars /\ Continues(WordsOf(f), WordsOf(b), f, l) /\ ~AtGap(f)
  <2> HIDE DEF f, l
  <2> QED
    BY <1>3, <1>4, PlaceIs DEF AtGap
<1>6. Len(WordsOf(f)) >= 3
  BY <1>3
<1> HIDE DEF f, l
<1>7. PICK x \in Seq(Chars), y \in Seq(Chars), d \in {7, 8} :
         /\ x = v /\ y = WordsOf(b)[3] /\ IsStrict(y, d)
         /\ StartsWith(y, x) /\ y[Len(x) + 1] = l /\ Len(x) + 1 \in 1..Len(y)
  BY <1>4, <1>6, ThirdIs
<1>8. Len(x) = d + 1 /\ d \in {7, 8} /\ Len(y) <= d + 2
  <2>1. \E a \in 4..Len(x), e \in 1..Len(x) : Major(x, a, e, r.major) /\ Minor(x, e, i)
    BY <1>3, <1>7 DEF VersionIs
  <2>2. StrictTo(y, d) /\ Len(y) <= d + 2 /\ d \in {7, 8}
    BY <1>7 DEF IsStrict, StrictTo
  <2> QED
    BY <1>7, <2>1, <2>2, MinorPlace
<1>9. l # Space
  <2> SUFFICES ASSUME l = Space PROVE FALSE
    OBVIOUS
  <2>1. ~IsDigit(Space)
    BY DEF IsDigit, Space
  <2>2. Len(y) = d + 2
    BY <1>7, <1>8
  <2>3. IsDigit(y[d + 2])
    BY <1>7, <2>2 DEF IsStrict
  <2>4. Len(x) + 1 = d + 2
    BY <1>8
  <2> QED
    BY <1>7, <2>1, <2>3, <2>4
<1>10. WordsOf(u)[3] = Append(v, l) /\ Len(WordsOf(u)) = 3
  <2> DEFINE p == WordsOf(f)
             q == WordsOf(u)
  <2>1. Grown(p, q, l)
    BY <1>4, <1>5, <1>9, WordStarts
  <2> HIDE DEF q
  <2>2. Len(q) = Len(p) /\ q[Len(p)] = Append(p[Len(p)], l)
    BY <2>1 DEF Grown
  <2> QED
    BY <1>3, <2>2 DEF q
<1>11. Len(WordsOf(u)) >= 3
  BY <1>10
<1>12. PICK z \in Seq(Chars), t \in Seq(Chars), e \in {7, 8} :
         /\ z = w /\ t = WordsOf(b)[3] /\ Len(z) + 1 \in 1..Len(t)
  BY <1>11, ThirdIs
<1>13. z = Append(x, l) /\ t = y
  BY <1>7, <1>10, <1>12
<1>14. Len(z) = Len(x) + 1
  BY <1>5, <1>13, Appended
<1> QED
  BY <1>7, <1>8, <1>12, <1>13, <1>14

\* No CR is met in the line.
LEMMA NoReturn ==
  ASSUME NEW b, NEW n, NEW u, NEW c, AtPlace(b, n, u, c), NEW r,
         u # <<>>, Last(u) = CR, IsBody(Front(u), r)
  PROVE  FALSE
<1> DEFINE f == Front(u)
           l == Last(u)
<1>1. AtPlace(b, n - 1, f, l)
  BY PlaceBefore
<1>2. IsBody(f, r) /\ l = CR
  OBVIOUS
<1> HIDE DEF f, l
<1>3. CASE VersionedMore(f, r)
  BY <1>1, <1>3, MoreIsLast
<1>4. CASE Versioned(f, r, r.minor)
  <2>1. Len(WordsOf(f)) >= 3
    BY <1>4 DEF Versioned
  <2>2. PICK x \in Seq(Chars), y \in Seq(Chars), d \in {7, 8} :
           IsStrict(y, d) /\ y[Len(x) + 1] = l /\ Len(x) + 1 \in 1..Len(y)
    BY <1>1, <2>1, ThirdIs
  <2>3. l \notin {CR, LF}
    BY <2>2, NoLineEnd
  <2> QED
    BY <1>2, <2>3
<1> QED
  BY <1>2, <1>3, <1>4 DEF IsBody

\* Wherever the loop is in a request line, it goes on.
LEMMA InsideGoes ==
  ASSUME NEW b, NEW n, NEW u, NEW c, AtPlace(b, n, u, c), NEW r, r.state \in States,
         r.state \notin Errors \cup {"kDone"}, Shape(0, u, r)
  PROVE  Goes(r.state, c, u)
<1> DEFINE s == r.state
<1>1. u \in Seq(Chars) /\ Len(u) \in Nat
  BY PlaceIs
<1>2. CASE s = "kStart"
  BY <1>2, StartGoes DEF Shape
<1>3. CASE s = "kMethod"
  <2>1. 0 < Len(u) /\ \A i \in (0 + 1)..Len(u) : IsUpperLetter(u[i])
    BY <1>3 DEF Shape
  <2>2. Len(u) > 0 /\ \A i \in 1..Len(u) : IsUpperLetter(u[i])
    BY <2>1
  <2> QED
    BY <1>3, <2>2, MethodGoes
<1>4. CASE s = "kSpacesBeforeUrl"
  <2>1. Last(u) = Space /\ WordsOf(u) = <<r.method>>
    BY <1>4 DEF Shape
  <2>2. AtGap(u) /\ Len(WordsOf(u)) = 1
    BY <2>1 DEF AtGap
  <2> QED
    BY <1>4, <2>2, SpacesGo
<1>5. CASE s \in AuthorityStates
  <2>1. InUrl(u, r) /\ BeforePath(s, WordsOf(u)[2])
    BY <1>5 DEF Shape
  <2>2. ~AtGap(u) /\ Len(WordsOf(u)) = 2
    BY <2>1 DEF AtGap, InUrl
  <2> HIDE DEF s
  <2>3. Goes(s, c, u)
    BY <1>5, <2>1, <2>2, AuthorityGoes
  <2> QED
    BY <2>3 DEF s
<1>6. CASE s \in PathStates
  BY <1>6, PathGoes
<1>7. CASE s = "kH"
  <2>1. AtGap(u) /\ Len(WordsOf(u)) = 2
    BY <1>7 DEF Shape, AtGap
  <2> QED
    BY <1>7, <2>1, HGoes
<1>8. CASE s \in VersionStates
  <2>1. Len(WordsOf(u)) = 3 /\ BeforeMinor(s, WordsOf(u)[3], r.major)
    BY <1>8 DEF Shape, InVersion
  <2> HIDE DEF s
  <2>2. Goes(s, c, u)
    BY <1>8, <2>1, VersionGoes
  <2> QED
    BY <2>2 DEF s
<1>9. CASE s = "kMinorDigit"
  <2>1. Len(WordsOf(u)) = 3
    BY <1>9 DEF Shape, Versioned
  <2> QED
    BY <1>9, <2>1, MinorGoes
<1>10. CASE s = "kCRLFAfterMinor"
  <2>1. VersionedMore(u, r)
    BY <1>10 DEF Shape
  <2> QED
    BY <2>1, MoreIsLast
<1>11. CASE s = "kAlmostDone"
  <2>1. u # <<>> /\ Last(u) = CR /\ IsBody(Front(u), r)
    BY <1>11 DEF Shape
  <2> QED
    BY <2>1, NoReturn
<1> QED
  BY <1>2, <1>3, <1>4, <1>5, <1>6, <1>7, <1>8, <1>9, <1>10, <1>11
     DEF States, Errors, AuthorityStates, PathStates, VersionStates

\* At the end of a request line the loop has read a minor digit, or a second one.
LEMMA EndIs ==
  ASSUME NEW b, Whole(b), NEW r, r.state \in States, r.state \notin Errors \cup {"kDone"},
         Shape(0, b, r)
  PROVE  r.state \in {"kMinorDigit", "kCRLFAfterMinor"}
<1> DEFINE s == r.state
           w == WordsOf(b)
<1>1. b \in Seq(Chars) /\ b # <<>> /\ Last(b) # Space /\ Len(w) = 3
  BY DEF Whole
<1>2. s # "kStart"
  <2>1. s = "kStart" => Len(b) = 0
    BY DEF Shape
  <2> QED
    BY <1>1, <2>1
<1>3. s # "kMethod"
  <2> SUFFICES ASSUME s = "kMethod" PROVE FALSE
    OBVIOUS
  <2>1. \A i \in (0 + 1)..Len(b) : IsUpperLetter(b[i])
    BY DEF Shape
  <2>2. \A i \in 1..Len(b) : b[i] # Space
    BY <2>1, UpperLetters
  <2>3. w = <<b>>
    BY <1>1, <2>2, OneWord
  <2> QED
    BY <1>1, <2>3
<1>4. s # "kSpacesBeforeUrl"
  <2>1. s = "kSpacesBeforeUrl" => w = <<r.method>>
    BY DEF Shape
  <2>2. Len(<<r.method>>) = 1
    OBVIOUS
  <2> HIDE DEF w
  <2> QED
    BY <1>1, <2>1, <2>2
<1>5. s \notin AuthorityStates /\ s \notin PathStates /\ s # "kH"
  <2>1. s \in AuthorityStates \/ s \in PathStates => InUrl(b, r)
    BY DEF Shape
  <2>2. s = "kH" => Len(w) = 2
    BY DEF Shape
  <2> QED
    BY <1>1, <2>1, <2>2 DEF InUrl
<1>6. s \notin VersionStates
  <2> SUFFICES ASSUME s \in VersionStates PROVE FALSE
    OBVIOUS
  <2> DEFINE y == w[3]
             d == Find(y, Dot)
  <2>1. BeforeMinor(s, y, r.major)
    BY DEF Shape
  <2>2. y \in Seq(Chars) /\ StrictTo(y, d)
    BY DEF Whole, IsStrict
  <2>3. StartsWith(y, y) /\ Len(y) \in Nat
    BY <2>2 DEF StartsWith
  <2> HIDE DEF s, y, d
  <2>4. Len(y) < Len(y)
    BY <2>1, <2>2, <2>3, VersionPlace
  <2> QED
    BY <2>3, <2>4
<1>7. s # "kAlmostDone"
  <2> DEFINE y == w[3]
             d == Find(y, Dot)
  <2>1. y \in Seq(Chars) /\ IsStrict(y, d)
    BY DEF Whole
  <2>2. y # <<>> /\ Last(y) = Last(b)
    BY <1>1, LastWordEnds
  <2>3. s = "kAlmostDone" => Last(b) = CR
    BY DEF Shape
  <2> HIDE DEF s, y, d
  <2>4. Len(y) \in 1..Len(y) /\ Last(y) = y[Len(y)]
    BY <2>1, <2>2, LastIs
  <2>5. y[Len(y)] # CR
    BY <2>1, <2>4, NoLineEnd
  <2> QED
    BY <2>2, <2>3, <2>4, <2>5
<1> QED
  BY <1>2, <1>3, <1>4, <1>5, <1>6, <1>7 DEF States, AuthorityStates, PathStates, VersionStates, Errors

\* What the loop makes of a line end.
LEMMA NextOfEnd ==
  ASSUME NEW s \in {"kMinorDigit", "kCRLFAfterMinor"}
  PROVE  /\ \A u : Next1(s, LF, u) = "kDone" /\ Next1(s, CR, u) = "kAlmostDone"
         /\ \A u : Next1("kAlmostDone", LF, u) = "kDone"
<1>1. NextInVersion(s, LF) = "kDone"
  BY DEF NextInVersion, LineEndStates, CR, LF
<1>2. NextInVersion(s, CR) = "kAlmostDone"
  BY DEF NextInVersion, LineEndStates, CR, LF
<1>3. NextInVersion("kAlmostDone", LF) = "kDone"
  BY DEF NextInVersion, LineEndStates, CR, LF
<1>4. \A c, u : Next1(s, c, u) = NextInVersion(s, c)
  BY VersionNext
<1>5. \A c, u : Next1("kAlmostDone", c, u) = NextInVersion("kAlmostDone", c)
  BY VersionNext
<1> QED
  BY <1>1, <1>2, <1>3, <1>4, <1>5

\* Every turn of the loop from the start of a text has come to a shape or an error, and
\* the last one to what ParseRequestLine() returns.
AllCome(R, text) ==
  /\ R[Len(text)] = ParseRequestLine(Line0, "kStart", text)
  /\ R[0].state = "kStart" /\ R[0].pos = 0
  /\ \A m \in 1..Len(text) : R[m] = Turn(R[m - 1], text[m], SubSeq(text, 1, m - 1))
  /\ \A m \in 0..Len(text) : R[m] \in Lines /\ R[m].pos <= m /\ Come(0, text, m, R[m])

\* They have.
LEMMA FromStart ==
  ASSUME NEW text \in Seq(Chars)
  PROVE  \E R : AllCome(R, text)
<1> DEFINE r == Line0
           K == Len(text)
<1>1. r \in Lines /\ r.pos = 0
  BY DEF Line0, Lines, Members, States, Begun
<1>2. K \in Nat
  OBVIOUS
<1>3. PICK R : AreMembers(R, r, text) /\ R[K - r.pos] = ParseRequestLine(r, "kStart", text)
  BY <1>1, <1>2, ParseTurns
<1>4. /\ R[0] = [r EXCEPT !.state = "kStart"]
      /\ \A m \in 1..(K - r.pos) : R[m] = Turn(R[m - 1], text[r.pos + m], SubSeq(text, 1, (r.pos + m) - 1))
      /\ \A m \in 0..(K - r.pos) : R[m] \in Lines /\ R[m].pos <= r.pos + m
  BY <1>3 DEF AreMembers
<1>5. R[0].state = "kStart" /\ R[0].pos = 0
  BY <1>4 DEF Line0
<1> HIDE DEF r
<1>6. K - r.pos = K /\ \A m \in 0..K : r.pos + m = m /\ (r.pos + m) - 1 = m - 1
  BY <1>1, <1>2
<1>7. \A m \in 1..K : R[m] = Turn(R[m - 1], text[m], SubSeq(text, 1, m - 1))
  BY <1>1, <1>4, <1>6
<1>8. \A m \in 0..K : R[m] \in Lines /\ R[m].pos <= m
  BY <1>1, <1>4, <1>6
<1> DEFINE P == {m \in 0..K : Come(0, text, m, R[m])}
<1>9. 0 \in P
  <2>1. Len(SubSeq(text, 1, 0)) = 0
    BY <1>2, PrefixGrows
  <2>2. Shape(0, SubSeq(text, 1, R[0].pos), R[0])
    BY <1>5, <2>1 DEF Shape, AuthorityStates, PathStates, VersionStates
  <2> QED
    BY <1>2, <1>5, <2>2 DEF Come, Errors
<1>10. ASSUME NEW k \in 1..K, k - 1 \in P PROVE k \in P
  <2> DEFINE m == k - 1
             q == 0 + m + 1
  <2>1. m \in Nat /\ m \in 0..K /\ m + 1 = k /\ q = k /\ q <= Len(text) /\ 0 + m = m
    BY <1>2
  <2>2. R[m] \in Lines /\ R[m].pos <= 0 + m /\ Come(0, text, m, R[m])
    BY <1>8, <1>10, <2>1
  <2>3. R[k] = Turn(R[m], text[q], SubSeq(text, 1, q - 1))
    BY <1>7, <2>1
  <2> HIDE DEF m, P
  <2>4. Come(0, text, m + 1, R[k])
    BY <2>1, <2>2, <2>3, TurnComes
  <2> QED
    BY <1>2, <2>1, <2>4 DEF P
<1>11. 0..K \subseteq P
  <2> HIDE DEF P, K
  <2> QED
    BY <1>2, <1>9, <1>10, Induction
<1> QED
  BY <1>3, <1>5, <1>6, <1>7, <1>8, <1>11 DEF AllCome, r

\* A line and what it is without its end.
LEMMA ChopLine ==
  ASSUME NEW l \in Seq(Chars), l # <<>>, Last(l) = LF, NEW b, b = Chop(l)
  PROVE  /\ b \in Seq(Chars) /\ Len(b) \in Nat /\ Len(l) \in Nat /\ Len(b) < Len(l)
         /\ b = SubSeq(l, 1, Len(b)) /\ \A i \in 1..Len(b) : b[i] = l[i]
         /\ l[Len(l)] = LF
         /\ \/ Len(l) = Len(b) + 1
            \/ Len(l) = Len(b) + 2 /\ l[Len(b) + 1] = CR
<1> DEFINE n == Len(l)
<1>1. n \in Nat /\ n >= 1 /\ l[n] = LF
  BY LastIs
<1>2. CASE n >= 2 /\ l[n - 1] = CR
  <2> DEFINE k == n - 2
  <2>1. b = SubSeq(l, 1, k)
    BY <1>2 DEF Chop
  <2>2. k \in 0..n /\ n = k + 2 /\ n - 1 = k + 1 /\ k \in Nat
    BY <1>1, <1>2
  <2> HIDE DEF k
  <2>3. b \in Seq(Chars) /\ Len(b) = k /\ \A i \in 1..k : b[i] = l[i]
    BY <1>1, <2>1, <2>2, PrefixGrows
  <2> QED
    BY <1>1, <1>2, <2>1, <2>2, <2>3
<1>3. CASE ~(n >= 2 /\ l[n - 1] = CR)
  <2> DEFINE k == n - 1
  <2>1. b = SubSeq(l, 1, k)
    BY <1>3 DEF Chop, Front
  <2>2. k \in 0..n /\ n = k + 1 /\ k \in Nat
    BY <1>1
  <2> HIDE DEF k
  <2>3. b \in Seq(Chars) /\ Len(b) = k /\ \A i \in 1..k : b[i] = l[i]
    BY <1>1, <2>1, <2>2, PrefixGrows
  <2> QED
    BY <1>1, <2>1, <2>2, <2>3
<1> QED
  BY <1>2, <1>3

\* A request line without its end is one.
LEMMA RequestIsWhole ==
  ASSUME NEW l \in Seq(Chars), l # <<>>, IsRequestLine(l)
  PROVE  Whole(Chop(l)) /\ Last(l) = LF
<1> DEFINE b == Chop(l)
<1>1. Last(l) = LF /\ IsLineOf(b, IsVersionWord)
  BY DEF IsRequestLine
<1>2. b \in Seq(Chars)
  BY <1>1, ChopLine
<1>3. Len(WordsOf(b)) = 3
  BY <1>1 DEF IsLineOf
<1> HIDE DEF b
<1>4. b # <<>>
  <2> SUFFICES ASSUME b = <<>> PROVE FALSE
    OBVIOUS
  <2> DEFINE w == WordsOf(b)
  <2>1. w = <<>>
    BY WordsIs
  <2>2. Len(w) = 3
    BY <1>3
  <2> HIDE DEF w
  <2> QED
    BY <2>1, <2>2
<1> QED
  BY <1>1, <1>2, <1>4, WholeIs DEF b

\* The turn from the members r at character c, where u has been read.
TurnsTo(R, m, r, c, u) ==
  /\ r.state \in States /\ Shape(0, u, r)
  /\ Next1(r.state, c, u) \notin Errors => R[m].state = Next1(r.state, c, u) /\ R[m].pos = m

\* That is what every turn does.
LEMMA OneTurn ==
  ASSUME NEW text \in Seq(Chars), NEW R, AllCome(R, text), NEW m \in 1..Len(text),
         NEW r, r = R[m - 1], r.pos = m - 1, r.state \notin Errors \cup {"kDone"},
         NEW u, u = SubSeq(text, 1, m - 1)
  PROVE  TurnsTo(R, m, r, text[m], u)
<1> DEFINE s == r.state
           c == text[m]
           n == Next1(s, c, u)
           t == R[m]
<1>1. m - 1 \in 0..Len(text) /\ m = (m - 1) + 1
  OBVIOUS
<1>2. r \in Lines /\ Come(0, text, m - 1, r) /\ t = Turn(r, c, u)
  BY <1>1 DEF AllCome
<1>3. Shape(0, u, r)
  BY <1>2 DEF Come
<1>4. s \in States
  BY <1>2 DEF Lines, Members
<1>5. c \in Chars
  BY PrefixGrows
<1> HIDE DEF c, t
<1>6. IsTurn(r, s, n, c, u, t)
  BY <1>2, <1>5, TurnIs
<1>7. n \notin Errors => t.state = n /\ t.pos = m
  BY <1>1, <1>6 DEF IsTurn
<1> QED
  BY <1>3, <1>4, <1>7 DEF c, t, TurnsTo

\* The loop reads all of a request line but its end.
LEMMA LineRuns ==
  ASSUME NEW l \in Seq(Chars), l # <<>>, IsRequestLine(l), NEW R, AllCome(R, l),
         NEW b, b = Chop(l)
  PROVE  \A m \in 0..Len(b) : R[m].state \notin Errors \cup {"kDone"} /\ R[m].pos = m
<1> DEFINE K == Len(b)
           P == {m \in 0..K : R[m].state \notin Errors \cup {"kDone"} /\ R[m].pos = m}
<1>1. Whole(b) /\ Last(l) = LF
  BY RequestIsWhole
<1>2. /\ b \in Seq(Chars) /\ K \in Nat /\ Len(l) \in Nat /\ K < Len(l)
      /\ b = SubSeq(l, 1, K) /\ \A i \in 1..K : b[i] = l[i]
  BY <1>1, ChopLine
<1>3. 0 \in P
  <2>1. R[0].state = "kStart" /\ R[0].pos = 0
    BY DEF AllCome
  <2> QED
    BY <1>2, <2>1 DEF Errors
<1>4. ASSUME NEW k \in 1..K, k - 1 \in P PROVE k \in P
  <2> DEFINE m == k - 1
             r == R[m]
             u == SubSeq(l, 1, m)
             c == l[k]
             n == Next1(r.state, c, u)
  <2>1. r.pos = m /\ r.state \notin Errors \cup {"kDone"}
    BY <1>4
  <2>2. k \in 1..Len(l) /\ m \in 0..K
    BY <1>2
  <2> HIDE DEF P
  <2>3. TurnsTo(R, k, r, c, u)
    BY <2>1, <2>2, OneTurn
  <2>4. AtPlace(b, k, u, c)
    <3>1. \A i \in 1..m : i \in 1..K
      BY <1>2
    <3>2. SubSeq(b, 1, m) = u
      <4>1. /\ SubSeq(b, 1, m) \in Seq(Chars) /\ Len(SubSeq(b, 1, m)) = m
            /\ \A i \in 1..m : SubSeq(b, 1, m)[i] = b[i]
        BY <1>2, <2>2, PrefixGrows
      <4>2. m \in 0..Len(l)
        BY <1>2
      <4>3. u \in Seq(Chars) /\ Len(u) = m /\ \A i \in 1..m : u[i] = l[i]
        BY <4>2, PrefixGrows
      <4> HIDE DEF u, m
      <4> DEFINE v == SubSeq(b, 1, m)
      <4> HIDE DEF v
      <4>4. \A i \in 1..m : v[i] = u[i]
        BY <1>2, <3>1, <4>1, <4>3 DEF v
      <4>5. v = u
        BY <4>1, <4>3, <4>4 DEF v
      <4> QED
        BY <4>5 DEF v
    <3> QED
      BY <1>1, <1>2, <3>2 DEF AtPlace
  <2> HIDE DEF r, u, c, m
  <2>5. Goes(r.state, c, u)
    BY <2>1, <2>3, <2>4, InsideGoes DEF TurnsTo
  <2>6. R[k].state \notin Errors \cup {"kDone"} /\ R[k].pos = k
    BY <2>3, <2>5 DEF Goes, TurnsTo
  <2> QED
    BY <2>6 DEF P
<1>5. 0..K \subseteq P
  <2> HIDE DEF P, K
  <2> QED
    BY <1>2, <1>3, <1>4, Induction
<1> QED
  BY <1>5

\* And then its end: every request line is read to its end.
LEMMA RequestIsRead ==
  ASSUME NEW l \in Seq(Chars), l # <<>>, IsRequestLine(l),
         NEW t, t = ParseRequestLine(Line0, "kStart", l)
  PROVE  t.state = "kDone" /\ t.pos = Len(l)
<1> DEFINE b == Chop(l)
           K == Len(b)
<1>1. Whole(b) /\ Last(l) = LF
  BY RequestIsWhole
<1>2. /\ b \in Seq(Chars) /\ K \in Nat /\ Len(l) \in Nat /\ K < Len(l)
      /\ b = SubSeq(l, 1, K) /\ l[Len(l)] = LF
      /\ Len(l) = K + 1 \/ (Len(l) = K + 2 /\ l[K + 1] = CR)
  BY <1>1, ChopLine
<1>3. PICK R : AllCome(R, l)
  BY FromStart
<1>4. R[Len(l)] = t
  BY <1>3 DEF AllCome
<1>5. K \in 0..K
  BY <1>2
<1>6. R[K].state \notin Errors \cup {"kDone"} /\ R[K].pos = K
  <2> HIDE DEF K, b
  <2>1. \A m \in 0..Len(b) : R[m].state \notin Errors \cup {"kDone"} /\ R[m].pos = m
    BY <1>3, LineRuns DEF b
  <2> QED
    BY <1>5, <2>1 DEF K
<1> DEFINE k == K + 1
           u == SubSeq(l, 1, k - 1)
           r == R[k - 1]
<1>7. k - 1 = K /\ k \in 1..Len(l)
  BY <1>2
<1>8. r.pos = k - 1 /\ r.state \notin Errors \cup {"kDone"} /\ u = b
  BY <1>2, <1>6, <1>7
<1> HIDE DEF K, k, u, r
<1>9. TurnsTo(R, k, r, l[k], u)
  BY <1>3, <1>7, <1>8, OneTurn DEF u, r
<1> HIDE DEF b
<1>10. r.state \in {"kMinorDigit", "kCRLFAfterMinor"}
  BY <1>1, <1>8, <1>9, EndIs DEF TurnsTo
<1>11. CASE Len(l) = K + 1
  <2>1. l[k] = LF
    BY <1>2, <1>11 DEF k
  <2>2. Next1(r.state, LF, u) = "kDone" /\ "kDone" \notin Errors
    BY <1>10, NextOfEnd DEF Errors
  <2> QED
    BY <1>4, <1>9, <1>11, <2>1, <2>2 DEF k, TurnsTo
<1>12. CASE Len(l) = K + 2 /\ l[K + 1] = CR
  <2> DEFINE j == k + 1
             v == SubSeq(l, 1, j - 1)
             q == R[j - 1]
  <2>1. j \in 1..Len(l) /\ j = Len(l) /\ j - 1 = k /\ l[j] = LF
    BY <1>2, <1>12 DEF k
  <2>2. l[k] = CR
    BY <1>12 DEF k
  <2>3. Next1(r.state, CR, u) = "kAlmostDone" /\ "kAlmostDone" \notin Errors \cup {"kDone"}
    BY <1>10, NextOfEnd DEF Errors
  <2>4. q.state = "kAlmostDone" /\ q.pos = j - 1
    BY <1>9, <2>1, <2>2, <2>3 DEF TurnsTo
  <2>5. q.state \notin Errors \cup {"kDone"}
    BY <2>3, <2>4
  <2> HIDE DEF j, v, q
  <2>6. TurnsTo(R, j, q, l[j], v)
    BY <1>3, <2>1, <2>4, <2>5, OneTurn DEF v, q
  <2>7. Next1("kAlmostDone", LF, v) = "kDone" /\ "kDone" \notin Errors
    BY NextOfEnd DEF Errors
  <2> QED
    BY <1>4, <2>1, <2>4, <2>6, <2>7 DEF TurnsTo
<1> QED
  BY <1>2, <1>11, <1>12

-----------------------------------------------------------------------------
(* The version of an accepted line                                         *)

\* One turn of Number().
NumberTurn(n, c) == n * 10 + c - 48

\* It takes a number to a number.
LEMMA NumberTurnType ==
  ASSUME NEW n \in Int, NEW c \in Chars
  PROVE  NumberTurn(n, c) \in Int
BY DEF NumberTurn, Chars

\* Function h is the table of the fold Number().
NumberOf(h, s) ==
  h = [d \in SUBSET DOMAIN s |->
         IF d = {} THEN 0 ELSE NumberTurn(h[d \ {Max(d)}], s[Max(d)])]

\* Number() is a fold.
LEMMA NumberTurns ==
  ASSUME NEW s \in Seq(Chars), NEW step,
         step = [p \in Int \X Chars |-> NumberTurn(p[1], p[2])]
  PROVE  /\ 0 \in Int /\ step \in [Int \X Chars -> Int]
         /\ \E h : AreTurns(h, 0, step, s, Int) /\ Number(s) = h[1..Len(s)]
<1>1. /\ step \in [Int \X Chars -> Int]
      /\ \A a \in Int : \A x \in Chars : step[<<a, x>>] = NumberTurn(a, x)
  BY NumberTurnType
<1>2. 0 \in Int
  OBVIOUS
<1>3. DOMAIN s = 1..Len(s) /\ Len(s) \in Nat /\ \A i \in 1..Len(s) : s[i] \in Chars
  OBVIOUS
<1>4. PICK h \in [SUBSET (1..Len(s)) -> Int] : IsFoldTable(h, 0, step, s)
  BY <1>1, <1>2, FoldTable
<1>5. ASSUME NEW d \in SUBSET DOMAIN s
      PROVE  h[d] = IF d = {} THEN 0 ELSE NumberTurn(h[d \ {Max(d)}], s[Max(d)])
  <2>1. CASE d = {}
    BY <1>3, <1>4, <2>1 DEF IsFoldTable
  <2>2. CASE d # {}
    <3>1. PICK m \in d : Max(d) = m
      BY <1>3, <2>2, GreatestNumber
    <3>2. h[d \ {Max(d)}] \in Int /\ s[Max(d)] \in Chars
      BY <1>3, <3>1
    <3> QED
      BY <1>1, <1>3, <1>4, <2>2, <3>2 DEF IsFoldTable
  <2> QED
    BY <2>1, <2>2
<1>6. NumberOf(h, s)
  BY <1>3, <1>5 DEF NumberOf
<1>7. PICK t : t = CHOOSE g : NumberOf(g, s)
  OBVIOUS
<1>8. NumberOf(t, s)
  BY <1>6, <1>7
<1>9. Number(s) = t[1..Len(s)]
  <2>1. Number(s) = (CHOOSE g : NumberOf(g, s))[DOMAIN s]
    BY Zenon DEF Number, NumberTurn, FoldLeft, MapThenFoldSet, NumberOf
  <2> QED
    BY <1>3, <1>7, <2>1
<1>10. AreTurns(t, 0, step, s, Int)
  <2>1. \A d \in SUBSET DOMAIN s :
          t[d] = IF d = {} THEN 0 ELSE NumberTurn(t[d \ {Max(d)}], s[Max(d)])
    BY <1>8 DEF NumberOf
  <2>2. \A k \in 1..Len(s) : t[1..k] = NumberTurn(t[1..(k - 1)], s[k])
    BY <1>3, <2>1, Segments1
  <2>3. t[1..0] = 0
    <3>1. 1..0 = {} /\ {} \in SUBSET DOMAIN s
      OBVIOUS
    <3> QED
      BY <2>1, <3>1, Zenon
  <2> QED
    BY <1>1, <1>3, <2>2, <2>3 DEF AreTurns
<1> QED
  BY <1>1, <1>2, <1>9, <1>10

\* The number of no digit, and of one more.
LEMMA NumberIs ==
  /\ Number(<<>>) = 0
  /\ \A s \in Seq(Chars) :
       /\ Number(s) \in Int
       /\ \A c \in Chars : Number(Append(s, c)) = NumberTurn(Number(s), c)
<1> DEFINE step == [p \in Int \X Chars |-> NumberTurn(p[1], p[2])]
           f == [s \in Seq(Chars) |-> Number(s)]
<1>1. \A s \in Seq(Chars) :
        /\ 0 \in Int /\ step \in [Int \X Chars -> Int]
        /\ \E h : AreTurns(h, 0, step, s, Int) /\ f[s] = h[1..Len(s)]
  BY NumberTurns
<1>2. IsFoldOf(f, 0, step, Int, Chars)
  <2>1. <<>> \in Seq(Chars)
    OBVIOUS
  <2> HIDE DEF f, step
  <2> QED
    BY <1>1, <2>1 DEF IsFoldOf
<1>3. /\ f[<<>>] = 0
      /\ \A s \in Seq(Chars) : f[s] \in Int /\ \A x \in Chars : f[Append(s, x)] = step[<<f[s], x>>]
  <2> HIDE DEF f, step
  <2> QED
    BY <1>2, FoldLaws
<1>4. \A a \in Int : \A x \in Chars : step[<<a, x>>] = NumberTurn(a, x)
  OBVIOUS
<1>5. /\ <<>> \in Seq(Chars)
      /\ \A s \in Seq(Chars) : f[s] = Number(s) /\ \A x \in Chars : f[Append(s, x)] = Number(Append(s, x))
  BY AppendProperties
<1> HIDE DEF f, step
<1> QED
  BY <1>3, <1>4, <1>5

\* The numbers of one digit and of two.
LEMMA NumbersAre ==
  ASSUME NEW c \in Chars, NEW d \in Chars
  PROVE  Number(<<c>>) = c - 48 /\ Number(<<c, d>>) = ((c - 48) * 10 + d) - 48
<1>1. /\ <<>> \in Seq(Chars) /\ <<c>> = Append(<<>>, c) /\ <<c>> \in Seq(Chars)
      /\ <<c, d>> = Append(<<c>>, d)
  OBVIOUS
<1>2. c \in Int /\ d \in Int
  BY DEF Chars
<1> DEFINE a == Number(<<c>>)
           b == Number(<<c, d>>)
<1>3. a = NumberTurn(0, c)
  BY <1>1, NumberIs
<1>4. b = NumberTurn(a, d)
  BY <1>1, NumberIs
<1> HIDE DEF a, b
<1>5. a = c - 48
  BY <1>2, <1>3 DEF NumberTurn
<1>6. b = ((c - 48) * 10 + d) - 48
  BY <1>2, <1>4, <1>5 DEF NumberTurn
<1> QED
  BY <1>5, <1>6 DEF a, b

\* Strings of one character and of two.
LEMMA OneOrTwo ==
  ASSUME NEW s \in Seq(Chars)
  PROVE  /\ Len(s) = 1 => s = <<s[1]>>
         /\ Len(s) = 2 => s = <<s[1], s[2]>>
OBVIOUS

\* The digits on either side of the dot of a version, as numbers.
LEMMA StrictNumbers ==
  ASSUME NEW v \in Seq(Chars), NEW d, IsStrict(v, d)
  PROVE  /\ Number(SubSeq(v, 6, d - 1)) = IF d = 7 THEN v[6] - 48 ELSE ((v[6] - 48) * 10 + v[7]) - 48
         /\ Number(After(v, d)) = IF Len(v) = d + 1 THEN v[d + 1] - 48
                                  ELSE ((v[d + 1] - 48) * 10 + v[d + 2]) - 48
<1> DEFINE x == SubSeq(v, 6, d - 1)
           y == After(v, d)
           n == Len(v)
<1>1. d \in {7, 8} /\ d + 1 <= n /\ n <= d + 2 /\ n \in Nat
  BY DEF IsStrict, StrictTo
<1>2. x \in Seq(Chars) /\ Len(x) = d - 6 /\ x[1] = v[6] /\ (d = 8 => x[2] = v[7])
  <2>1. d - 1 \in Nat /\ 6 \in Nat /\ d - 1 <= n /\ 6 <= (d - 1) + 1 /\ ((d - 1) + 1) - 6 = d - 6
    BY <1>1
  <2>2. x \in Seq(Chars) /\ Len(x) = d - 6 /\ \A k \in 1..(d - 6) : x[k] = v[(6 + k) - 1]
    BY <2>1, PartIs
  <2> HIDE DEF x, n
  <2>3. x[1] = v[6]
    BY <1>1, <2>2
  <2>4. d = 8 => x[2] = v[7]
    BY <1>1, <2>2
  <2> QED
    BY <2>2, <2>3, <2>4
<1>3. y \in Seq(Chars) /\ Len(y) = n - d /\ y[1] = v[d + 1] /\ (n = d + 2 => y[2] = v[d + 2])
  <2>1. d + 1 \in Nat /\ n <= Len(v) /\ d + 1 <= n + 1 /\ (n + 1) - (d + 1) = n - d /\ d + 1 >= 1
    BY <1>1
  <2>2. y = SubSeq(v, d + 1, n)
    BY DEF After
  <2>3. y \in Seq(Chars) /\ Len(y) = n - d /\ \A k \in 1..(n - d) : y[k] = v[((d + 1) + k) - 1]
    BY <1>1, <2>1, <2>2, PartIs
  <2> HIDE DEF y, n
  <2>4. y[1] = v[d + 1]
    BY <1>1, <2>3
  <2>5. n = d + 2 => y[2] = v[d + 2]
    BY <1>1, <2>3
  <2> QED
    BY <2>3, <2>4, <2>5
<1>4. v[6] \in Chars /\ v[7] \in Chars /\ v[d + 1] \in Chars /\ (n = d + 2 => v[d + 2] \in Chars)
  <2>1. 6 \in 1..n /\ 7 \in 1..n /\ d + 1 \in 1..n /\ (n = d + 2 => d + 2 \in 1..n)
    BY <1>1
  <2>2. \A i \in 1..n : v[i] \in Chars
    OBVIOUS
  <2> HIDE DEF n
  <2> QED
    BY <2>1, <2>2
<1> HIDE DEF x, y, n
<1>5. x = IF d = 7 THEN <<v[6]>> ELSE <<v[6], v[7]>>
  <2>1. CASE d = 7
    <3>1. Len(x) = 1
      BY <1>2, <2>1
    <3> QED
      BY <1>2, <2>1, <3>1, OneOrTwo
  <2>2. CASE d = 8
    <3>1. Len(x) = 2
      BY <1>2, <2>2
    <3> QED
      BY <1>2, <2>2, <3>1, OneOrTwo
  <2> QED
    BY <1>1, <2>1, <2>2
<1>6. y = IF n = d + 1 THEN <<v[d + 1]>> ELSE <<v[d + 1], v[d + 2]>>
  <2>1. CASE n = d + 1
    <3>1. Len(y) = 1
      BY <1>1, <1>3, <2>1
    <3> QED
      BY <1>3, <2>1, <3>1, OneOrTwo
  <2>2. CASE n = d + 2
    <3>1. Len(y) = 2 /\ n # d + 1
      BY <1>1, <1>3, <2>2
    <3> QED
      BY <1>3, <2>2, <3>1, OneOrTwo
  <2> QED
    BY <1>1, <2>1, <2>2
<1>7. Number(x) = IF d = 7 THEN v[6] - 48 ELSE ((v[6] - 48) * 10 + v[7]) - 48
  BY <1>4, <1>5, NumbersAre
<1>8. Number(y) = IF n = d + 1 THEN v[d + 1] - 48 ELSE ((v[d + 1] - 48) * 10 + v[d + 2]) - 48
  <2>1. n = d + 1 \/ (n = d + 2 /\ n # d + 1)
    BY <1>1
  <2> QED
    BY <1>4, <1>6, <2>1, NumbersAre
<1> QED
  BY <1>7, <1>8 DEF x, y, n

\* The version that the members hold is that of the line.
SameVersion(v, r) == /\ r.major = Number(SubSeq(v, 6, Find(v, Dot) - 1))
                     /\ r.minor = Number(After(v, Find(v, Dot)))

\* The version v up to its first minor digit, n, is x.
VersionAt(v, d, x, m, n) ==
  /\ Len(x) = d + 1 /\ d \in {7, 8} /\ n = v[d + 1] - 48
  /\ m = IF d = 7 THEN v[6] - 48 ELSE ((v[6] - 48) * 10 + v[7]) - 48

\* That is what the loop has read when it has met one minor digit.
LEMMA VersionStarts ==
  ASSUME NEW v \in Seq(Chars), NEW d, IsStrict(v, d), NEW x \in Seq(Chars), StartsWith(v, x),
         NEW m, NEW n, VersionIs(x, m, n)
  PROVE  VersionAt(v, d, x, m, n)
<1>1. PICK a \in 4..Len(x), e \in 1..Len(x) : Major(x, a, e, m) /\ Minor(x, e, n)
  BY DEF VersionIs
<1>2. StrictTo(v, d)
  BY DEF IsStrict
<1>3. a = 5 /\ e = d /\ Len(x) = d + 1
  BY <1>1, <1>2, MinorPlace
<1>4. d \in {7, 8}
  BY <1>2 DEF StrictTo
<1>5. /\ n = x[d + 1] - 48
      /\ m = IF d = 5 + 2 THEN x[5 + 1] - 48 ELSE ((x[5 + 1] - 48) * 10 + x[5 + 2]) - 48
  BY <1>1, <1>3 DEF Major, Minor
<1>6. \A i \in 1..Len(x) : x[i] = v[i]
  BY DEF StartsWith
<1>7. 6 \in 1..Len(x) /\ 7 \in 1..Len(x) /\ d + 1 \in 1..Len(x)
  BY <1>3, <1>4
<1>8. x[6] = v[6] /\ x[7] = v[7] /\ x[d + 1] = v[d + 1]
  BY <1>6, <1>7
<1> QED
  BY <1>3, <1>4, <1>5, <1>8 DEF VersionAt

\* It is, with one minor digit or two.
LEMMA BodyVersion ==
  ASSUME NEW b, Whole(b), NEW r, IsBody(b, r)
  PROVE  SameVersion(WordsOf(b)[3], r)
<1> DEFINE v == WordsOf(b)[3]
           d == Find(v, Dot)
<1>1. b \in Seq(Chars) /\ b # <<>> /\ Last(b) # Space /\ v \in Seq(Chars) /\ IsStrict(v, d)
  BY DEF Whole
<1>2. CASE Versioned(b, r, r.minor)
  <2>1. VersionIs(v, r.major, r.minor)
    BY <1>2 DEF Versioned
  <2>2. StartsWith(v, v)
    BY <1>1 DEF StartsWith
  <2> HIDE DEF v, d
  <2>3. VersionAt(v, d, v, r.major, r.minor)
    BY <1>1, <2>1, <2>2, VersionStarts
  <2>4. /\ Number(SubSeq(v, 6, d - 1)) = IF d = 7 THEN v[6] - 48 ELSE ((v[6] - 48) * 10 + v[7]) - 48
        /\ Number(After(v, d)) = IF Len(v) = d + 1 THEN v[d + 1] - 48
                                 ELSE ((v[d + 1] - 48) * 10 + v[d + 2]) - 48
    BY <1>1, StrictNumbers
  <2>5. r.major = Number(SubSeq(v, 6, d - 1)) /\ r.minor = Number(After(v, d))
    BY <2>3, <2>4 DEF VersionAt
  <2> QED
    BY <2>5 DEF SameVersion, d, v
<1>3. CASE VersionedMore(b, r)
  <2> DEFINE f == Front(b)
             c == Last(b)
             x == WordsOf(f)[3]
             p == WordsOf(f)
             q == WordsOf(b)
  <2>1. /\ f # <<>>
        /\ \E n \in 0..9 : Versioned(f, r, n) /\ r.minor = (n * 10 + c) - 48
    BY <1>3 DEF VersionedMore
  <2>2. PICK n \in 0..9 : Versioned(f, r, n) /\ r.minor = (n * 10 + c) - 48
    BY <2>1
  <2>3. Last(f) # Space /\ Len(p) = 3 /\ VersionIs(x, r.major, n)
    BY <2>2 DEF Versioned
  <2>4. f \in Seq(Chars) /\ c \in Chars /\ b = Append(f, c) /\ c # Space
    BY <1>1, FrontLast
  <2>5. ~AtGap(f)
    BY <2>1, <2>3 DEF AtGap
  <2>6. Grown(p, q, c)
    <3> HIDE DEF f, c
    <3> QED
      BY <2>4, <2>5, WordStarts
  <2>7. v = Append(x, c) /\ x \in Seq(Chars)
    <3>1. p \in Seq(Seq(Chars))
      BY <2>4, WordsIs
    <3> DEFINE i == 3
               T == Seq(Chars)
    <3>2. i \in 1..Len(p)
      BY <2>3
    <3> HIDE DEF T, p, q, c
    <3>3. p[i] \in T
      BY <3>1, <3>2, ElementOfSeq DEF T
    <3>4. q[Len(p)] = Append(p[Len(p)], c)
      BY <2>6 DEF Grown
    <3> QED
      BY <2>3, <3>3, <3>4 DEF p, q, T
  <2> HIDE DEF v, d, x, c, f, p, q
  <2>8. Len(v) = Len(x) + 1 /\ v[Len(x) + 1] = c /\ Len(x) \in Nat /\ \A i \in 1..Len(x) : v[i] = x[i]
    BY <2>4, <2>7, Appended
  <2>9. StartsWith(v, x)
    BY <2>8 DEF StartsWith
  <2>10. VersionAt(v, d, x, r.major, n)
    BY <1>1, <2>3, <2>7, <2>9, VersionStarts
  <2>11. Len(v) = d + 2 /\ Len(v) # d + 1 /\ c = v[d + 2]
    BY <2>8, <2>10 DEF VersionAt
  <2>12. /\ Number(SubSeq(v, 6, d - 1)) = IF d = 7 THEN v[6] - 48 ELSE ((v[6] - 48) * 10 + v[7]) - 48
         /\ Number(After(v, d)) = IF Len(v) = d + 1 THEN v[d + 1] - 48
                                  ELSE ((v[d + 1] - 48) * 10 + v[d + 2]) - 48
    BY <1>1, StrictNumbers
  <2>13. r.minor = ((v[d + 1] - 48) * 10 + v[d + 2]) - 48
    BY <2>2, <2>10, <2>11 DEF VersionAt
  <2>14. r.major = Number(SubSeq(v, 6, d - 1)) /\ r.minor = Number(After(v, d))
    BY <2>10, <2>11, <2>12, <2>13 DEF VersionAt
  <2> QED
    BY <2>14 DEF SameVersion, d, v
<1> QED
  BY <1>2, <1>3 DEF IsBody

-----------------------------------------------------------------------------
(* Request lines are accepted                                              *)

\* The line l has been read to its end, and its version kept.
Kept(l, r) == r.pos = Len(l) /\ SameVersion(WordsOf(Chop(l))[3], r)

\* So it is if it is a request line.
LEMMA RequestIsKept ==
  ASSUME NEW l \in Seq(Chars), l # <<>>, IsRequestLine(l),
         NEW t, t = ParseRequestLine(Line0, "kStart", l)
  PROVE  t.state = "kDone" /\ Kept(l, t)
<1>1. t.state = "kDone" /\ t.pos = Len(l)
  BY RequestIsRead
<1>2. PICK R : AllCome(R, l)
  BY FromStart
<1>3. Len(l) \in Nat /\ Len(l) \in 0..Len(l) /\ SubSeq(l, 1, Len(l)) = l
  BY PrefixGrows
<1>4. Come(0, l, Len(l), t)
  BY <1>2, <1>3 DEF AllCome
<1>5. Shape(0, l, t)
  BY <1>1, <1>3, <1>4 DEF Come, Errors
<1>6. IsBody(Chop(l), t)
  BY <1>1, <1>5, DoneIs
<1>7. Whole(Chop(l))
  BY RequestIsWhole
<1>8. SameVersion(WordsOf(Chop(l))[3], t)
  BY <1>6, <1>7, BodyVersion
<1> QED
  BY <1>1, <1>8 DEF Kept

\* What comes in one piece is parsed once, from the beginning, and if it starts with a
\* request line that is kept.
AtOnce ==
  input.cuts = {} =>
    /\ arrived = 0 => ~parsing /\ phase = "kRequestLine"
    /\ arrived # 0 => arrived = Total
    /\ phase = "kRequestLine" /\ (arrived = 0 \/ parsing) => line = Line0
    /\ phase = "kRequestLine" /\ arrived # 0 /\ ~parsing => ~IsRequestLine(input.line)
    /\ phase # "kRequestLine" /\ IsRequestLine(input.line) => Kept(input.line, line)

\* All of it is no less than the line.
LEMMA TotalIs ==
  ASSUME Fields
  PROVE  Total \in Nat /\ Len(input.line) \in Nat /\ Len(input.line) <= Total
<1> DEFINE l == Len(input.line)
           f == Len(input.fields)
<1>1. l \in Nat /\ f \in Nat /\ Total = l + f
  BY InputIs DEF Total
<1> HIDE DEF l, f
<1>2. l + f \in Nat /\ l <= l + f
  BY <1>1
<1> QED
  BY <1>1, <1>2 DEF l

\* The line that the parser has come to when all has arrived.
LEMMA ParsedAtOnce ==
  ASSUME Fields, Typed, AtOnce, input.cuts = {}, parsing, phase = "kRequestLine"
  PROVE  /\ arrived # 0 /\ arrived = Total
         /\ input.line \in Seq(Chars) /\ input.line # <<>>
         /\ Parsed = ParseRequestLine(Line0, "kStart", input.line)
<1> DEFINE l == input.line
<1>1. arrived # 0 /\ arrived = Total /\ line = Line0
  BY DEF AtOnce
<1>2. /\ input \in Inputs /\ l \in Seq(Chars) /\ Len(l) \in Nat
  BY TextIs
<1>3. l # <<>>
  BY <1>2, InputsAssumption
<1>4. Total \in Nat /\ Len(l) <= Total
  BY TotalIs
<1>5. ~(arrived < Len(l))
  BY <1>1, <1>2, <1>4
<1>6. Text = SubSeq(l, 1, Len(l))
  BY <1>5 DEF Text
<1>7. Text = l
  BY <1>2, <1>6, PrefixGrows
<1>8. Parsed = ParseRequestLine(Line0, "kStart", l)
  BY <1>1, <1>7 DEF Parsed, StartState
<1> QED
  BY <1>1, <1>2, <1>3, <1>8

\* All that there is arrives.
LEMMA OnMessageAtOnce ==
  ASSUME Fields, Typed, AtOnce, OnMessage
  PROVE  AtOnce'
<1> SUFFICES ASSUME input'.cuts = {} PROVE AtOnce'
  BY DEF AtOnce
<1>1. /\ arrived < Total /\ arrived' = Min({n \in input.cuts \cup {Total} : n > arrived})
      /\ parsing' = TRUE /\ UNCHANGED <<input, phase, line>>
  BY DEF OnMessage
<1>2. arrived \in Nat /\ arrived' \in Nat /\ arrived' > arrived /\ Total \in Nat
  BY TotalIs, Arrives
<1>3. Total' = Total
  BY <1>1 DEF Total
<1>4. input.cuts = {}
  BY <1>1
<1>5. arrived = 0 /\ phase = "kRequestLine" /\ line = Line0
  <2>1. arrived # Total
    BY <1>1, <1>2
  <2>2. arrived = 0
    BY <1>4, <2>1 DEF AtOnce
  <2> QED
    BY <1>4, <2>2 DEF AtOnce
<1>6. arrived' = Total /\ arrived' # 0
  <2> DEFINE S == {n \in input.cuts \cup {Total} : n > arrived}
  <2>1. S = {Total}
    BY <1>1, <1>2, <1>4
  <2>2. arrived' = Min({Total})
    BY <1>1, <2>1
  <2>3. Min({Total}) = Total
    <3>1. \E x \in {Total} : \A y \in {Total} : x <= y
      BY <1>2
    <3> QED
      BY <1>2, <3>1 DEF Min
  <2> QED
    BY <1>2, <2>2, <2>3
<1>7. phase' = "kRequestLine" /\ line' = Line0
  BY <1>1, <1>5
<1> QED
  BY <1>1, <1>3, <1>6, <1>7 DEF AtOnce

\* A request line is not refused.
LEMMA ShortAtOnce ==
  ASSUME Fields, Typed, AtOnce, RequestLineShort \/ RequestLineBad
  PROVE  AtOnce'
<1> SUFFICES ASSUME input'.cuts = {} PROVE AtOnce'
  BY DEF AtOnce
<1>1. /\ parsing /\ phase = "kRequestLine" /\ line' = Parsed /\ line'.state # "kDone"
      /\ parsing' = FALSE /\ UNCHANGED <<input, arrived, phase>>
  BY DEF RequestLineShort, RequestLineBad, Return, Errors
<1>2. /\ arrived # 0 /\ arrived = Total /\ input.line \in Seq(Chars) /\ input.line # <<>>
      /\ Parsed = ParseRequestLine(Line0, "kStart", input.line)
  BY <1>1, ParsedAtOnce
<1>3. ~IsRequestLine(input.line)
  BY <1>1, <1>2, RequestIsKept
<1>4. ~IsRequestLine(input'.line)
  BY <1>1, <1>3
<1>5. Total' = Total
  BY <1>1 DEF Total
<1> QED
  BY <1>1, <1>2, <1>4, <1>5 DEF AtOnce

\* It is kept.
LEMMA OkAtOnce ==
  ASSUME Fields, Typed, AtOnce, RequestLineOk
  PROVE  AtOnce'
<1> SUFFICES ASSUME input'.cuts = {} PROVE AtOnce'
  BY DEF AtOnce
<1> DEFINE r == Parsed
           v == Run(SubSeq(Text, r.start, r.end))
           l == input.line
<1>1. /\ parsing /\ phase = "kRequestLine"
      /\ line' = IF r.complex THEN [r EXCEPT !.static = @ /\ ~v.question] ELSE r
      /\ phase' = "kHeader" /\ UNCHANGED <<input, arrived>>
  BY DEF RequestLineOk
<1>2. /\ arrived # 0 /\ arrived = Total /\ l \in Seq(Chars) /\ l # <<>>
      /\ r = ParseRequestLine(Line0, "kStart", l)
  BY <1>1, ParsedAtOnce
<1>3. r \in Lines
  BY ParsedComes
<1> HIDE DEF r, v
<1>4. line'.pos = r.pos /\ line'.major = r.major /\ line'.minor = r.minor
  <2>1. r \in Members
    BY <1>3 DEF Lines
  <2> QED
    BY <1>1, <2>1 DEF Members
<1> HIDE DEF l
<1>5. IsRequestLine(l) => Kept(l, r)
  BY <1>2, RequestIsKept
<1>6. IsRequestLine(l) => Kept(l, line')
  BY <1>4, <1>5 DEF Kept, SameVersion
<1>7. IsRequestLine(input'.line) => Kept(input'.line, line')
  BY <1>1, <1>6 DEF l
<1>8. Total' = Total
  BY <1>1 DEF Total
<1>9. phase' # "kRequestLine"
  BY <1>1
<1> QED
  BY <1>1, <1>2, <1>7, <1>8, <1>9 DEF AtOnce

\* What comes in one piece has been parsed at once, in every state.
LEMMA AtOnceHolds == Spec => [](Fields /\ Typed /\ Judged /\ AtOnce)
<1>1. Init => AtOnce
  BY DEF Init, AtOnce
<1>2. Fields /\ Typed /\ AtOnce /\ [Next]_vars => AtOnce'
  <2> SUFFICES ASSUME Fields, Typed, AtOnce, [Next]_vars PROVE AtOnce'
    OBVIOUS
  <2>1. CASE OnMessage
    BY <2>1, OnMessageAtOnce
  <2>2. CASE RequestLineOk
    BY <2>2, OkAtOnce
  <2>3. CASE RequestLineShort \/ RequestLineBad
    BY <2>3, ShortAtOnce
  <2>4. CASE HeaderField \/ HeaderBad \/ HeaderShort \/ HeaderEnd \/ Body \/ Complete
    <3>1. UNCHANGED <<input, arrived, line>> /\ phase # "kRequestLine" /\ phase' # "kRequestLine"
      BY <2>4 DEF HeaderField, HeaderBad, HeaderShort, HeaderEnd, Body, Complete, Return
    <3>2. Total' = Total
      BY <3>1 DEF Total
    <3> QED
      BY <3>1, <3>2 DEF AtOnce
  <2>5. CASE UNCHANGED vars
    <3>1. UNCHANGED <<input, arrived, parsing, phase, line>>
      BY <2>5 DEF vars
    <3> QED
      BY <3>1 DEF AtOnce, Total
  <2> QED
    BY <2>1, <2>2, <2>3, <2>4, <2>5 DEF Next
<1> QED
  BY <1>1, <1>2, JudgedHolds, PTL DEF Spec

\* The members and the URL that are kept of the request line l.
KeptAll(l, r, x) ==
  /\ Kept(l, r) /\ r.method = WordsOf(Chop(l))[1]
  /\ x = IF r.complex THEN Run(PathText(l)).url ELSE PathText(l)
  /\ ~r.complex => Quiet(PathText(l))

\* A request line that is heard in one piece is kept.
LEMMA HeardIsKept ==
  ASSUME Fields, Typed, Judged, AtOnce, Heard, InOnePiece, IsRequestLine(input.line)
  PROVE  Accepted /\ KeptAll(input.line, line, url)
<1> DEFINE l == input.line
           b == Chop(l)
<1>1. arrived # 0 /\ ~parsing /\ input.cuts = {}
  <2>1. arrived \in Nat
    BY TextIs
  <2> QED
    BY <2>1 DEF Heard, InOnePiece
<1>2. phase # "kRequestLine" /\ Kept(l, line)
  BY <1>1 DEF AtOnce
<1>3. Stored(l, line, url)
  BY <1>2 DEF Judged
<1>4. l \in Seq(Chars) /\ l # <<>>
  <2>1. input \in Inputs /\ l \in Seq(Chars)
    BY TextIs
  <2> QED
    BY <2>1, InputsAssumption
<1>5. SubSeq(l, 1, line.pos) = l
  BY <1>2, <1>4, PrefixGrows DEF Kept
<1>6. IsAccepted(l, line) /\ url = IF line.complex THEN Run(PathText(l)).url ELSE PathText(l)
  BY <1>3, <1>5 DEF Stored
<1>7. line.method = WordsOf(l)[1] /\ (~line.complex => Quiet(PathText(l)))
  BY <1>6 DEF IsAccepted
<1>8. Whole(b) /\ Last(l) = LF
  BY <1>4, RequestIsWhole
<1>9. b = SubSeq(l, 1, Len(b)) /\ Len(b) \in 0..Len(l)
  BY <1>4, <1>8, ChopLine
<1>10. Len(WordsOf(b)) = 3
  BY <1>8 DEF Whole
<1>11. WordsOf(l)[1] = WordsOf(b)[1]
  <2> DEFINE p == WordsOf(b)
             q == WordsOf(l)
  <2> HIDE DEF b, l
  <2>1. Begins(p, q, AtGap(b))
    BY <1>4, <1>9, WordsExtend
  <2>2. Len(p) = 3
    BY <1>10
  <2> HIDE DEF p, q
  <2>3. q[1] = p[1]
    BY <2>1, <2>2 DEF Begins
  <2> QED
    BY <2>3 DEF p, q
<1> QED
  BY <1>2, <1>6, <1>7, <1>11 DEF KeptAll, Accepted

\* A request line that arrives whole is accepted, and method, path and version are those
\* of the line: whatever spaces, scheme, host and port, digits or line end it has.
THEOREM RequestLineIsAlwaysAccepted == Spec => []RequestLineIsAccepted
<1>1. Fields /\ Typed /\ Judged /\ AtOnce => RequestLineIsAccepted
  <2> SUFFICES ASSUME Fields, Typed, Judged, AtOnce, Heard, InOnePiece, IsRequestLine(input.line)
               PROVE  RequestLineIsAccepted
    BY DEF RequestLineIsAccepted
  <2>1. Accepted /\ KeptAll(input.line, line, url)
    BY HeardIsKept
  <2> QED
    BY <2>1 DEF RequestLineIsAccepted, KeptAll, Kept, SameVersion
<1> QED
  BY <1>1, AtOnceHolds, PTL

-----------------------------------------------------------------------------
(* Version 2 on a line of single spaces                                    *)

\* The line b is the words w1, w2 and w3 between its first two spaces.
IsThree(b, w1, w2, w3, rest) ==
  /\ Find(b, Space) # 0 /\ Before(b, Find(b, Space)) = w1 /\ rest = After(b, Find(b, Space))
  /\ Find(rest, Space) # 0 /\ Before(rest, Find(rest, Space)) = w2
  /\ After(rest, Find(rest, Space)) = w3

\* A string with the characters of another one is that one.
LEMMA SameString ==
  ASSUME NEW s \in Seq(Chars), NEW t \in Seq(Chars), Len(s) = Len(t), \A i \in 1..Len(t) : s[i] = t[i]
  PROVE  s = t
OBVIOUS

\* Before the first c in b is w, and a after it.
Divides(b, c, m, w, a) ==
  /\ Find(b, c) = m /\ Before(b, m) = w /\ After(b, m) = a
  /\ a \in Seq(Chars) /\ Len(a) = Len(b) - m
  /\ \A i \in 1..(Len(b) - m) : a[i] = b[m + i]

\* It is the first of the parts at c.
LEMMA FirstPart ==
  ASSUME NEW b \in Seq(Chars), NEW c \in Chars, NEW m \in 1..Len(b), b[m] = c,
         \A i \in 1..(m - 1) : b[i] # c,
         NEW w \in Seq(Chars), Len(w) = m - 1, \A i \in 1..Len(w) : w[i] = b[i]
  PROVE  Divides(b, c, m, w, After(b, m))
<1> DEFINE x == Before(b, m)
           n == Len(b)
<1>1. Find(b, c) = m
  BY FoundAt
<1>2. m \in 0..n /\ m >= 1 /\ n \in Nat
  OBVIOUS
<1>3. /\ x \in Seq(Chars) /\ Len(x) = m - 1 /\ \A i \in 1..(m - 1) : x[i] = b[i]
      /\ After(b, m) \in Seq(Chars) /\ Len(After(b, m)) = Len(b) - m
      /\ \A i \in 1..(Len(b) - m) : After(b, m)[i] = b[m + i]
  BY <1>2, BeforeAfter
<1> HIDE DEF x
<1>4. \A i \in 1..Len(w) : x[i] = w[i]
  BY <1>3
<1>5. x = w
  BY <1>3, <1>4, SameString
<1> QED
  BY <1>1, <1>3, <1>5 DEF x, Divides

\* Those are the words if single spaces separate them.
LEMMA ThreeAre ==
  ASSUME NEW b \in Seq(Chars), NEW p, p = Split(b, Space), Len(p) = 3
  PROVE  \E rest : IsThree(b, p[1], p[2], p[3], rest)
<1> DEFINE n == Len(b)
<1>1. p \in Seq(Seq(Chars)) /\ Space \in Chars /\ n \in Nat
  <2>1. Space \in Chars
    BY DEF Space, Chars
  <2>2. p \in Parts(Space)
    BY SplitIs
  <2>3. p \in Seq(Seq(Chars))
    BY <2>2, PartsTyped
  <2> QED
    BY <2>1, <2>3
<1>2. PICK f : IsCut(f, b, Space, p)
  BY <1>1, SplitCuts
<1> DEFINE w1 == p[1]
           w2 == p[2]
           w3 == p[3]
           j == f[2]
           k == f[3]
<1>3. w1 \in Seq(Chars) /\ w2 \in Seq(Chars) /\ w3 \in Seq(Chars)
  <2> DEFINE T == Seq(Chars)
  <2>1. \A i \in 1..Len(p) : p[i] \in T
    <3> HIDE DEF T
    <3>1. p \in Seq(T)
      BY <1>1 DEF T
    <3> QED
      BY <3>1, ElementOfSeq
  <2> QED
    BY <2>1
<1>4. f \in [1..3 -> 0..n] /\ f[1] = 0 /\ j \in 0..n /\ k \in 0..n /\ 0 < j /\ j < k
  <2>1. f \in [1..3 -> 0..n] /\ f[1] = 0 /\ \A i, o \in 1..3 : i < o => f[i] < f[o]
    BY <1>2 DEF IsCut
  <2>2. f[1] < f[2] /\ f[2] < f[3]
    BY <2>1
  <2> QED
    BY <2>1, <2>2
<1>5. \A i \in 1..n : b[i] = Space <=> i \in {j, k}
  <2>1. \A i \in 1..n : b[i] = Space <=> \E o \in 1..3 : f[o] = i
    BY <1>2 DEF IsCut
  <2>2. \A i \in 1..n : (\E o \in 1..3 : f[o] = i) <=> (f[1] = i \/ f[2] = i \/ f[3] = i)
    OBVIOUS
  <2> QED
    BY <1>4, <2>1, <2>2
<1>6. /\ Len(w1) = (j - 1) - 0 /\ \A i \in 1..Len(w1) : w1[i] = b[0 + i]
      /\ Len(w2) = (k - 1) - j /\ \A i \in 1..Len(w2) : w2[i] = b[j + i]
      /\ Len(w3) = n - k /\ \A i \in 1..Len(w3) : w3[i] = b[k + i]
  <2>1. \A o \in 1..3 : /\ Len(p[o]) = (IF o = 3 THEN n ELSE f[o + 1] - 1) - f[o]
                        /\ \A i \in 1..Len(p[o]) : p[o][i] = b[f[o] + i]
    BY <1>2 DEF IsCut
  <2>2. /\ Len(p[1]) = (IF 1 = 3 THEN n ELSE f[1 + 1] - 1) - f[1]
        /\ \A i \in 1..Len(p[1]) : p[1][i] = b[f[1] + i]
    BY <2>1
  <2>3. /\ Len(p[2]) = (IF 2 = 3 THEN n ELSE f[2 + 1] - 1) - f[2]
        /\ \A i \in 1..Len(p[2]) : p[2][i] = b[f[2] + i]
    BY <2>1
  <2>4. /\ Len(p[3]) = (IF 3 = 3 THEN n ELSE f[3 + 1] - 1) - f[3]
        /\ \A i \in 1..Len(p[3]) : p[3][i] = b[f[3] + i]
    BY <2>1
  <2> QED
    BY <1>4, <2>2, <2>3, <2>4
<1> HIDE DEF n, w1, w2, w3, j, k
<1> DEFINE rest == After(b, j)
<1>7. Divides(b, Space, j, w1, rest)
  <2>1. j \in 1..Len(b) /\ b[j] = Space
    BY <1>1, <1>4, <1>5 DEF n
  <2>2. \A i \in 1..(j - 1) : b[i] # Space
    BY <1>1, <1>4, <1>5
  <2>3. Len(w1) = j - 1 /\ \A i \in 1..Len(w1) : w1[i] = b[i]
    BY <1>4, <1>6
  <2> QED
    BY <1>1, <1>3, <2>1, <2>2, <2>3, FirstPart
<1> HIDE DEF rest
<1>8. /\ rest \in Seq(Chars) /\ Len(rest) = n - j
      /\ \A i \in 1..(n - j) : rest[i] = b[j + i]
  BY <1>7 DEF Divides, n
<1> DEFINE m == k - j
           y == After(rest, m)
<1>9. Divides(rest, Space, m, w2, y)
  <2>1. m \in 1..Len(rest) /\ rest[m] = Space
    <3>1. m \in 1..Len(rest) /\ j + m = k
      BY <1>1, <1>4, <1>8
    <3>2. rest[m] = b[k]
      BY <1>8, <3>1
    <3> QED
      BY <1>1, <1>4, <1>5, <3>1, <3>2
  <2>2. \A i \in 1..(m - 1) : rest[i] # Space
    <3> SUFFICES ASSUME NEW i \in 1..(m - 1) PROVE rest[i] # Space
      OBVIOUS
    <3>1. i \in 1..(n - j) /\ j + i \in 1..n /\ j + i # j /\ j + i # k
      BY <1>1, <1>4
    <3> QED
      BY <1>5, <1>8, <3>1
  <2>3. Len(w2) = m - 1 /\ \A i \in 1..Len(w2) : w2[i] = rest[i]
    <3>1. Len(w2) = m - 1
      BY <1>4, <1>6
    <3>2. \A i \in 1..Len(w2) : i \in 1..(n - j)
      BY <1>1, <1>4, <3>1
    <3> QED
      BY <1>6, <1>8, <3>1, <3>2
  <2> HIDE DEF m
  <2> QED
    BY <1>1, <1>3, <1>8, <2>1, <2>2, <2>3, FirstPart
<1> HIDE DEF y
<1>10. /\ y \in Seq(Chars) /\ Len(y) = Len(rest) - m
      /\ \A i \in 1..(Len(rest) - m) : y[i] = rest[m + i]
  BY <1>9 DEF Divides
<1>11. y = w3
  <2>1. Len(y) = Len(w3)
    BY <1>1, <1>4, <1>6, <1>8, <1>10
  <2>2. \A i \in 1..Len(w3) : y[i] = w3[i]
    <3> SUFFICES ASSUME NEW i \in 1..Len(w3) PROVE y[i] = w3[i]
      OBVIOUS
    <3>1. i \in 1..(n - k) /\ w3[i] = b[k + i]
      BY <1>6
    <3>2. i \in 1..(Len(rest) - m) /\ m + i \in 1..(n - j) /\ j + (m + i) = k + i
      BY <1>1, <1>4, <1>8, <3>1
    <3>3. y[i] = rest[m + i] /\ rest[m + i] = b[j + (m + i)]
      BY <1>8, <1>10, <3>2
    <3> QED
      BY <3>1, <3>2, <3>3
  <2> QED
    BY <1>3, <1>10, <2>1, <2>2, SameString
<1>12. j # 0 /\ m # 0
  BY <1>4
<1> HIDE DEF m
<1>13. IsThree(b, w1, w2, w3, rest)
  BY <1>7, <1>9, <1>11, <1>12 DEF IsThree, Divides
<1> QED
  BY <1>13 DEF w1, w2, w3

\* Of a line with a method and a path, the version decides whether it is a good one.
LEMMA GoodIs ==
  ASSUME NEW b, NEW w1, NEW w2, NEW w3, NEW rest, IsThree(b, w1, w2, w3, rest), w1 \in Methods,
         w2 # <<>>, w2[1] = Slash, NEW p, p = ParseHeaderLine(b)
  PROVE  p.good <=> IsVersion(w3)
<1> DEFINE s == w1 # POST /\ ~HasQuery(w2)
           x == IsComplex(w2)
           r == [NoLine EXCEPT !.good = TRUE, !.method = w1, !.url = w2, !.complex = x, !.static = s]
           bad == \/ Find(b, Space) = 0 \/ w1 \notin Methods
                  \/ Find(rest, Space) = 0 \/ w2 = <<>> \/ w2[1] # Slash
                  \/ ~IsVersion(w3)
<1>1. /\ w1 = Before(b, Find(b, Space)) /\ rest = After(b, Find(b, Space))
      /\ w2 = Before(rest, Find(rest, Space)) /\ w3 = After(rest, Find(rest, Space))
      /\ Find(b, Space) # 0 /\ Find(rest, Space) # 0
  BY DEF IsThree
<1>2. p = IF bad THEN NoLine ELSE IF r.complex THEN ParseComplexUrl(r) ELSE r
  BY <1>1 DEF ParseHeaderLine
<1>3. bad <=> ~IsVersion(w3)
  BY <1>1
<1>4. ~NoLine.good
  BY DEF NoLine
<1>5. IsUnsplit(r, w1, s, x, w2)
  <2> HIDE DEF s, x
  <2>1. r = [NoLine EXCEPT !.good = TRUE, !.method = w1, !.url = w2, !.complex = x, !.static = s]
    OBVIOUS
  <2> HIDE DEF r
  <2> QED
    BY <2>1 DEF IsUnsplit, NoLine
<1>6. ParseComplexUrl(r).good
  <2> HIDE DEF r, s, x
  <2> DEFINE v == Run(r.url)
             q == Find(v.url, Question)
             y == Before(v.url, q)
             z == After(v.url, q)
  <2>1. ParseComplexUrl(r) = IF ~v.ok THEN r
                             ELSE IF r.static THEN [r EXCEPT !.url = v.url]
                             ELSE IF q = 0 THEN [r EXCEPT !.asserted = FALSE]
                             ELSE [r EXCEPT !.url = y, !.query = z]
    BY DEF ParseComplexUrl, StoreUrl
  <2>2. r = [good |-> TRUE, method |-> w1, static |-> s, complex |-> x, url |-> w2, query |-> <<>>,
             asserted |-> TRUE]
    BY <1>5 DEF IsUnsplit
  <2> HIDE DEF v, q, y, z
  <2>3. /\ r.good /\ [r EXCEPT !.url = v.url].good /\ [r EXCEPT !.asserted = FALSE].good
        /\ [r EXCEPT !.url = y, !.query = z].good
    BY <2>2
  <2> QED
    BY <2>1, <2>3
<1>7. r.good
  <2> HIDE DEF r
  <2> QED
    BY <1>5 DEF IsUnsplit
<1> HIDE DEF r, bad
<1>8. CASE bad
  BY <1>2, <1>3, <1>4, <1>8
<1>9. CASE ~bad
  BY <1>2, <1>3, <1>6, <1>7, <1>9
<1> QED
  BY <1>8, <1>9

\* What precedes and follows the dot of a version, behind its slash.
LEMMA StrictSlices ==
  ASSUME NEW v \in Seq(Chars), NEW d, IsStrict(v, d)
  PROVE  /\ Find(After(v, 5), Dot) = d - 5 /\ d - 5 # 0
         /\ Before(After(v, 5), d - 5) = SubSeq(v, 6, d - 1)
         /\ After(After(v, 5), d - 5) = After(v, d)
<1> DEFINE n == Len(v)
           a == After(v, 5)
           e == d - 5
<1>1. /\ d \in {7, 8} /\ d + 1 <= n /\ n <= d + 2 /\ n \in Nat
      /\ IsDigit(v[6]) /\ (d = 8 => IsDigit(v[7])) /\ v[d] = Dot /\ IsDigit(v[d + 1])
      /\ (n = d + 2 => IsDigit(v[d + 2]))
  BY DEF IsStrict, StrictTo
<1>2. ~IsDigit(Dot)
  BY DEF IsDigit, Dot
<1>3. /\ a \in Seq(Chars) /\ Len(a) = n - 5 /\ \A i \in 1..(n - 5) : a[i] = v[5 + i]
  <2>1. 5 \in 0..Len(v)
    BY <1>1
  <2> QED
    BY <2>1, BeforeAfter
<1> HIDE DEF a
<1>4. e \in 1..Len(a) /\ a[e] = Dot /\ \A i \in 1..(e - 1) : a[i] # Dot
  <2>1. e \in 1..(n - 5) /\ 5 + e = d
    BY <1>1
  <2> HIDE DEF n
  <2>2. \A i \in 1..(e - 1) : i \in 1..(n - 5) /\ 5 + i \in {6, 7} /\ (5 + i = 7 => d = 8)
    BY <1>1
  <2> HIDE DEF e
  <2>3. \A i \in 1..(e - 1) : IsDigit(a[i])
    BY <1>1, <1>3, <2>2
  <2> QED
    BY <1>1, <1>2, <1>3, <2>1, <2>3
<1>5. Find(a, Dot) = e /\ e # 0
  <2>1. Find(a, Dot) = e
    <3> HIDE DEF e
    <3> QED
      BY <1>3, <1>4, FoundAt
  <2> QED
    BY <1>1, <2>1
<1>6. Before(a, e) = SubSeq(v, 6, d - 1)
  <2> DEFINE x == Before(a, e)
             y == SubSeq(v, 6, d - 1)
  <2>1. x \in Seq(Chars) /\ Len(x) = e - 1 /\ \A i \in 1..(e - 1) : x[i] = a[i]
    <3>1. e \in 0..Len(a) /\ e >= 1
      BY <1>3, <1>4
    <3> HIDE DEF e
    <3> QED
      BY <1>3, <3>1, BeforeAfter
  <2>2. y \in Seq(Chars) /\ Len(y) = d - 6 /\ \A i \in 1..(d - 6) : y[i] = v[(6 + i) - 1]
    <3>1. d - 1 \in Nat /\ 6 \in Nat /\ 6 >= 1 /\ d - 1 <= Len(v) /\ 6 <= (d - 1) + 1
          /\ ((d - 1) + 1) - 6 = d - 6
      BY <1>1
    <3> QED
      BY <3>1, PartIs
  <2> HIDE DEF x, y
  <2>3. e - 1 = d - 6 /\ \A i \in 1..(d - 6) : i \in 1..(n - 5) /\ (6 + i) - 1 = 5 + i
    BY <1>1
  <2>4. \A i \in 1..Len(y) : x[i] = y[i]
    BY <1>3, <2>1, <2>2, <2>3
  <2>5. x = y
    BY <2>1, <2>2, <2>3, <2>4, SameString
  <2> QED
    BY <2>5 DEF x, y
<1>7. After(a, e) = After(v, d)
  <2> DEFINE x == After(a, e)
             y == After(v, d)
  <2>1. x \in Seq(Chars) /\ Len(x) = Len(a) - e /\ \A i \in 1..(Len(a) - e) : x[i] = a[e + i]
    <3>1. e \in 0..Len(a)
      BY <1>3, <1>4
    <3> HIDE DEF e
    <3> QED
      BY <1>3, <3>1, BeforeAfter
  <2>2. y \in Seq(Chars) /\ Len(y) = n - d /\ \A i \in 1..(n - d) : y[i] = v[d + i]
    <3>1. d \in 0..Len(v)
      BY <1>1
    <3> QED
      BY <3>1, BeforeAfter
  <2> HIDE DEF x, y
  <2>3. Len(a) - e = n - d /\ \A i \in 1..(n - d) : e + i \in 1..(n - 5) /\ 5 + (e + i) = d + i
    BY <1>1, <1>3
  <2>4. \A i \in 1..Len(y) : x[i] = y[i]
    <3> HIDE DEF e, n
    <3> QED
      BY <1>3, <2>1, <2>2, <2>3
  <2>5. x = y
    BY <2>1, <2>2, <2>3, <2>4, SameString
  <2> QED
    BY <2>5 DEF x, y
<1> QED
  BY <1>5, <1>6, <1>7 DEF a

\* One digit or two are a number below 100.
LEMMA SmallNumbers ==
  ASSUME NEW f \in 48..57, NEW g
  PROVE  f - 48 \in 0..99 /\ (g \in 48..57 => ((f - 48) * 10 + g) - 48 \in 0..99)
OBVIOUS

\* The numbers of a version.
LEMMA StrictSmall ==
  ASSUME NEW v \in Seq(Chars), NEW d, IsStrict(v, d)
  PROVE  Number(SubSeq(v, 6, d - 1)) \in 0..99 /\ Number(After(v, d)) \in 0..99
<1> DEFINE major == Number(SubSeq(v, 6, d - 1))
           minor == Number(After(v, d))
           n == Len(v)
<1>1. /\ major = IF d = 7 THEN v[6] - 48 ELSE ((v[6] - 48) * 10 + v[7]) - 48
      /\ minor = IF n = d + 1 THEN v[d + 1] - 48 ELSE ((v[d + 1] - 48) * 10 + v[d + 2]) - 48
  BY StrictNumbers
<1>2. d \in {7, 8} /\ d + 1 <= n /\ n <= d + 2 /\ n \in Nat
  BY DEF IsStrict, StrictTo
<1>3. /\ v[6] \in 48..57 /\ (d = 8 => v[7] \in 48..57) /\ v[d + 1] \in 48..57
      /\ (n = d + 2 => v[d + 2] \in 48..57)
  BY DEF IsStrict, StrictTo, IsDigit
<1> HIDE DEF major, minor, n
<1>4. major \in 0..99
  <2>1. CASE d = 7
    BY <1>1, <1>3, <2>1, SmallNumbers
  <2>2. CASE d = 8
    BY <1>1, <1>3, <2>2, SmallNumbers
  <2> QED
    BY <1>2, <2>1, <2>2
<1>5. minor \in 0..99
  <2>1. CASE n = d + 1
    BY <1>1, <1>3, <2>1, SmallNumbers
  <2>2. CASE n = d + 2
    <3>1. n # d + 1
      BY <1>2, <2>2
    <3> QED
      BY <1>1, <1>3, <2>2, <3>1, SmallNumbers
  <2> QED
    BY <1>2, <2>1, <2>2
<1> QED
  BY <1>4, <1>5 DEF major, minor

\* A version is 1.0 or 1.1 when its numbers are.
LEMMA VersionAgrees ==
  ASSUME NEW v \in Seq(Chars), IsVersionWord(v)
  PROVE  IsVersion(v) <=> /\ Number(SubSeq(v, 6, Find(v, Dot) - 1)) = 1
                          /\ Number(After(v, Find(v, Dot))) \in {0, 1}
<1> DEFINE d == Find(v, Dot)
           a == After(v, 5)
           major == Number(SubSeq(v, 6, d - 1))
           minor == Number(After(v, d))
<1>1. IsStrict(v, d) /\ IsPrefix(HTTPSlash, v)
  BY VersionWordIs DEF IsVersionWord
<1> HIDE DEF d
<1>2. /\ Find(a, Dot) = d - 5 /\ d - 5 # 0
      /\ Before(a, d - 5) = SubSeq(v, 6, d - 1) /\ After(a, d - 5) = After(v, d)
  BY <1>1, StrictSlices
<1>3. major \in 0..99 /\ minor \in 0..99
  BY <1>1, StrictSmall
<1>4. IsVersion(v) <=> VersionCode(a) \in {100, 101}
  <2>1. Len(HTTPSlash) = 5
    BY DEF HTTPSlash
  <2> QED
    BY <1>1, <2>1 DEF IsVersion
<1> HIDE DEF a
<1>5. VersionCode(a) = major * 100 + minor
  BY <1>2 DEF VersionCode
<1> HIDE DEF major, minor
<1>6. IsVersion(v) <=> major = 1 /\ minor \in {0, 1}
  BY <1>3, <1>4, <1>5
<1> QED
  BY <1>6 DEF major, minor, d

\* A segment of a path begins behind a slash.
LEMMA SegmentPlaces ==
  ASSUME NEW u \in Seq(Chars), u # <<>>, u[1] = Slash
  PROVE  /\ Segments(u) \in Seq(Seq(Chars)) /\ Segments(u) # <<>>
         /\ \A k \in 1..Len(Segments(u)) : \A i \in 1..Len(Segments(u)[k]) :
              \E o \in 1..Len(u) : Segments(u)[k][i] = u[o]
         /\ \A k \in 1..(Len(Segments(u)) - 1) :
              \E o \in 1..(Len(u) - 1) :
                 /\ u[o] = Slash
                 /\ IF Segments(u)[k] = <<>> THEN u[o + 1] = Slash ELSE u[o + 1] = Segments(u)[k][1]
<1> DEFINE p == Split(u, Slash)
           q == Segments(u)
           n == Len(u)
           K == Len(p)
<1>1. Slash \in Chars
  BY DEF Slash, Chars
<1>2. p \in Seq(Seq(Chars)) /\ K >= 2 /\ K \in Nat /\ n \in Nat
  <2>1. p \in Parts(Slash)
    BY SplitIs
  <2>2. p \in Seq(Seq(Chars))
    BY <2>1, PartsTyped
  <2>3. K >= 2
    BY PartsOfUrl
  <2> QED
    BY <2>2, <2>3
<1>3. PICK f : IsCut(f, u, Slash, p)
  BY <1>1, SplitCuts
<1>4. /\ f \in [1..K -> 0..n] /\ f[1] = 0
      /\ \A j, k \in 1..K : j < k => f[j] < f[k]
      /\ \A i \in 1..n : u[i] = Slash <=> \E k \in 1..K : f[k] = i
      /\ \A k \in 1..K : /\ Len(p[k]) = (IF k = K THEN n ELSE f[k + 1] - 1) - f[k]
                         /\ \A i \in 1..Len(p[k]) : p[k][i] = u[f[k] + i]
  BY <1>3 DEF IsCut
<1> DEFINE T == Seq(Chars)
<1>5. /\ q \in Seq(T) /\ Len(q) = K - 1 /\ q # <<>>
      /\ \A k \in 1..(K - 1) : q[k] = p[k + 1] /\ q[k] \in T
  <2>1. q = Tail(p)
    BY DEF Segments
  <2>2. p \in Seq(T)
    BY <1>2
  <2> HIDE DEF p, q, T
  <2>3. q \in Seq(T) /\ Len(q) = K - 1 /\ \A k \in 1..(K - 1) : q[k] = p[k + 1]
    BY <1>2, <2>1, <2>2
  <2>4. \A k \in 1..(K - 1) : q[k] \in T
    BY <1>2, <2>3, ElementOfSeq
  <2>5. q # <<>>
    BY <1>2, <2>3
  <2> QED
    BY <2>3, <2>4, <2>5
<1> HIDE DEF p, q, n, K, T
<1>6. ASSUME NEW k \in 1..Len(q), NEW i \in 1..Len(q[k])
      PROVE  \E o \in 1..n : q[k][i] = u[o]
  <2> DEFINE j == k + 1
             o == f[j] + i
  <2>1. j \in 1..K /\ k \in 1..(K - 1)
    BY <1>2, <1>5
  <2>2. q[k] = p[j]
    BY <1>5, <2>1
  <2>3. /\ Len(p[j]) = (IF j = K THEN n ELSE f[j + 1] - 1) - f[j]
        /\ \A m \in 1..Len(p[j]) : p[j][m] = u[f[j] + m]
    BY <1>4, <2>1
  <2>4. f[j] \in 0..n /\ (j # K => f[j + 1] \in 0..n)
    <3>1. \A m \in 1..K : f[m] \in 0..n
      BY <1>4
    <3>2. j # K => j + 1 \in 1..K
      BY <1>2, <2>1
    <3> QED
      BY <2>1, <3>1, <3>2
  <2> HIDE DEF j
  <2>5. o \in 1..n
    BY SMTT(30), <1>2, <2>2, <2>3, <2>4
  <2>6. q[k][i] = u[o]
    BY <2>2, <2>3
  <2> HIDE DEF o
  <2> QED
    BY <2>5, <2>6
<1>7. ASSUME NEW k \in 1..(Len(q) - 1)
      PROVE  \E o \in 1..(n - 1) : /\ u[o] = Slash
                                   /\ IF q[k] = <<>> THEN u[o + 1] = Slash ELSE u[o + 1] = q[k][1]
  <2> DEFINE j == k + 1
             o == f[j]
             e == f[j + 1]
  <2>1. 1 \in 1..K /\ j \in 1..K /\ j + 1 \in 1..K /\ k \in 1..(K - 1) /\ 1 < j /\ j < j + 1 /\ j # K
    BY <1>2, <1>5
  <2>2. q[k] = p[j] /\ q[k] \in T
    BY <1>5, <2>1
  <2>3. Len(p[j]) = (e - 1) - o /\ \A m \in 1..Len(p[j]) : p[j][m] = u[o + m]
    BY <1>4, <2>1
  <2>4. o \in 0..n /\ e \in 0..n /\ 0 < o /\ o < e
    BY <1>4, <2>1
  <2>5. o \in 1..(n - 1) /\ o \in 1..n /\ e \in 1..n
    BY <1>2, <2>4
  <2>6. u[o] = Slash /\ u[e] = Slash
    BY <1>4, <2>1, <2>5
  <2> HIDE DEF j, o, e
  <2>7. CASE q[k] = <<>>
    <3>1. Len(q[k]) = 0
      BY <2>7
    <3>2. e = o + 1
      BY <2>2, <2>3, <2>4, <3>1
    <3> QED
      BY <2>5, <2>6, <2>7, <3>2
  <2>8. CASE q[k] # <<>>
    <3> DEFINE s == q[k]
    <3>1. s \in Seq(Chars) /\ s # <<>>
      BY <2>2, <2>8 DEF T
    <3>2. s = p[j]
      BY <2>2
    <3> HIDE DEF s
    <3>3. 1 \in 1..Len(s)
      BY <3>1
    <3>4. s[1] = u[o + 1]
      BY <2>3, <3>2, <3>3
    <3> QED
      BY <2>5, <2>6, <2>8, <3>4 DEF s
  <2> QED
    BY <2>7, <2>8
<1> QED
  BY <1>5, <1>6, <1>7 DEF q, n, T

\* A path that version 1 does not find complex is not complex to version 2.
LEMMA QuietIsSimple ==
  ASSUME NEW u \in Seq(Chars), u # <<>>, u[1] = Slash, Quiet(u)
  PROVE  ~IsComplex(u)
<1> DEFINE q == Segments(u)
           n == Len(u)
           T == Seq(Chars)
<1>1. /\ q \in Seq(T) /\ q # <<>>
      /\ \A k \in 1..Len(q) : \A i \in 1..Len(q[k]) : \E o \in 1..n : q[k][i] = u[o]
      /\ \A k \in 1..(Len(q) - 1) :
           \E o \in 1..(n - 1) : /\ u[o] = Slash
                                 /\ IF q[k] = <<>> THEN u[o + 1] = Slash ELSE u[o + 1] = q[k][1]
  BY SegmentPlaces
<1>2. /\ \A i \in 1..n : u[i] \notin {Question, Percent}
      /\ \A i \in 1..(n - 1) : u[i] = Slash => u[i + 1] \notin {Slash, Dot}
  BY DEF Quiet
<1> HIDE DEF q, n, T
<1>3. Front(q) \in Seq(T) /\ Len(q) \in Nat /\ Len(q) >= 1 /\ Len(Front(q)) = Len(q) - 1
      /\ \A k \in 1..(Len(q) - 1) : Front(q)[k] = q[k]
  <2>1. Front(q) \in Seq(T) /\ Len(Front(q)) = Len(q) - 1 /\ Len(q) \in Nat \ {0}
    BY <1>1, FrontLast
  <2>2. \A k \in 1..(Len(q) - 1) : Front(q)[k] = q[k]
    <3>1. Front(q) = SubSeq(q, 1, Len(q) - 1)
      BY DEF Front
    <3>2. Len(q) - 1 \in 0..Len(q)
      BY <2>1
    <3> QED
      BY <1>1, <3>1, <3>2, PrefixGrows
  <2> QED
    BY <2>1, <2>2
<1>4. Last(q) = q[Len(q)]
  BY <1>1, LastIs
<1>5. \A k \in 1..Len(q) : q[k] \in T
  BY <1>1, ElementOfSeq
<1>6. \A k \in 1..Len(q) : \A c \in Range(q[k]) : c \notin {Question, Percent}
  <2> SUFFICES ASSUME NEW k \in 1..Len(q), NEW c \in Range(q[k]) PROVE c \notin {Question, Percent}
    OBVIOUS
  <2> DEFINE s == q[k]
  <2>1. s \in Seq(Chars) /\ c \in Range(s)
    BY <1>5 DEF T
  <2>2. \A i \in 1..Len(s) : \E o \in 1..n : s[i] = u[o]
    BY <1>1
  <2> HIDE DEF s
  <2>3. PICK i \in 1..Len(s) : c = s[i]
    BY <2>1 DEF Range
  <2> QED
    BY <1>2, <2>2, <2>3
<1>7. ~HasQuery(u)
  <2>1. Len(q) \in 1..Len(q)
    BY <1>3
  <2> QED
    BY <1>4, <1>6, <2>1 DEF HasQuery, q
<1>8. ASSUME NEW d \in Range(Front(q)) PROVE d # <<>> /\ ~IsDotSegment(d) /\ Percent \notin Range(d)
  <2> DEFINE g == Front(q)
  <2>1. g \in Seq(T) /\ Len(g) = Len(q) - 1 /\ \A k \in 1..(Len(q) - 1) : g[k] = q[k]
    BY <1>3
  <2>2. d \in Range(g)
    BY <1>8
  <2> HIDE DEF g
  <2>3. PICK k \in 1..(Len(q) - 1) : d = q[k]
    BY <2>1, <2>2 DEF Range
  <2>4. k \in 1..Len(q)
    BY <1>3
  <2>5. PICK o \in 1..(n - 1) : /\ u[o] = Slash
                                /\ IF d = <<>> THEN u[o + 1] = Slash ELSE u[o + 1] = d[1]
    BY <1>1, <2>3
  <2>6. u[o + 1] \notin {Slash, Dot}
    BY <1>2, <2>5
  <2>7. d # <<>> /\ d[1] # Dot
    BY <2>5, <2>6
  <2>8. ~IsDotSegment(d)
    BY <2>7 DEF IsDotSegment
  <2> QED
    BY <1>6, <2>3, <2>4, <2>7, <2>8
<1> QED
  BY <1>7, <1>8 DEF IsComplex, q

\* No word is empty.
LEMMA WordsAreSome ==
  ASSUME NEW u \in Seq(Chars), NEW i \in 1..Len(WordsOf(u))
  PROVE  WordsOf(u)[i] \in Seq(Chars) /\ WordsOf(u)[i] # <<>>
<1> DEFINE T == Seq(Chars)
           N == T \ {<<>>}
           p == Split(u, Space)
           P == {s \in Seq(T) : WordList(s) \in Seq(N)}
<1>1. <<>> \in P
  <2> DEFINE e == <<>>
  <2>1. WordList(e) = e
    BY WordListIs
  <2>2. e \in Seq(T) /\ e \in Seq(N)
    OBVIOUS
  <2> HIDE DEF T, N, e
  <2>3. e \in P
    BY <2>1, <2>2
  <2> QED
    BY <2>3 DEF e
<1>2. ASSUME NEW s \in Seq(T), NEW x \in T, s \in P PROVE Append(s, x) \in P
  <2>1. WordList(Append(s, x)) = WordsTurn(WordList(s), x)
    BY WordListIs
  <2>2. x # <<>> => x \in N
    OBVIOUS
  <2> HIDE DEF T, N
  <2>3. WordsTurn(WordList(s), x) \in Seq(N)
    BY <1>2, <2>2 DEF WordsTurn
  <2>4. Append(s, x) \in Seq(T)
    BY <1>2
  <2> QED
    BY <2>1, <2>3, <2>4
<1>3. Seq(T) \subseteq P
  <2> HIDE DEF P, T
  <2> QED
    BY <1>1, <1>2, SequenceInduction, ZenonT(60)
<1>4. p \in Seq(T) /\ WordsOf(u) = WordList(p)
  <2>1. p \in Parts(Space)
    BY SplitIs
  <2> QED
    BY <2>1, PartsTyped, WordsAreParts
<1>5. WordsOf(u) \in Seq(N)
  <2> HIDE DEF p, T, N
  <2> QED
    BY <1>3, <1>4 DEF P
<1>6. WordsOf(u)[i] \in N
  <2> HIDE DEF N
  <2> QED
    BY <1>5, ElementOfSeq
<1> QED
  BY <1>6

\* What version 2 keeps of a line whose URL is decoded, and version 1 of that URL.
SameUrl(p, u, r, x) ==
  /\ p.complex => r.complex
  /\ p.complex /\ p.asserted => x \in {p.url, p.url \o <<Question>> \o p.query}
  /\ ~r.complex => x = p.url

\* They are the same.
LEMMA UrlsAgree ==
  ASSUME NEW u \in Seq(Chars), u # <<>>, u[1] = Slash, Run(u).ok,
         NEW r, NEW x, x = (IF r.complex THEN Run(u).url ELSE u), ~r.complex => Quiet(u),
         NEW p, p.complex = IsComplex(u),
         IF IsComplex(u) THEN StoresResult(p, u) ELSE p.url = u /\ p.query = <<>> /\ p.asserted
  PROVE  SameUrl(p, u, r, x)
<1> DEFINE v == Run(u).url
           q == Find(v, Question)
<1>1. IsComplex(u) => r.complex
  BY QuietIsSimple
<1>2. p.complex => x = v
  BY <1>1
<1>3. ASSUME p.complex, p.asserted PROVE v \in {p.url, p.url \o <<Question>> \o p.query}
  <2>1. \/ p.url = v
        \/ q # 0 /\ p.url = Before(v, q) /\ p.query = After(v, q)
    BY <1>3 DEF StoresResult
  <2>2. v \in Seq(Chars)
    BY RunIs DEF Machines
  <2> HIDE DEF v
  <2>3. q # 0 => q \in 1..Len(v) /\ v[q] = Question
    BY <2>2, FindIs
  <2>4. q # 0 => v = Before(v, q) \o <<Question>> \o After(v, q)
    <3> HIDE DEF q
    <3> QED
      BY <2>2, <2>3, AroundPosition
  <2> HIDE DEF q
  <2> QED
    BY <2>1, <2>4
<1>4. ~r.complex => x = p.url
  BY <1>1
<1> HIDE DEF v, q
<1> QED
  BY <1>1, <1>2, <1>3, <1>4 DEF SameUrl

\* The path of a line whose second word starts with one is that word.
LEMMA PathIsWord ==
  ASSUME NEW l, NEW u, u = WordsOf(Chop(l))[2], u \in Seq(Chars), u[1] = Slash
  PROVE  PathText(l) = u
<1>1. PathStart(u) = 1 /\ SubSeq(u, 1, Len(u)) = u
  BY PathAtFront, PrefixGrows
<1> QED
  BY <1>1 DEF PathText

\* What the two versions agree about on the line l.
Agreed(l, p, r, x) ==
  /\ p.good <=> r.major = 1 /\ r.minor \in {0, 1}
  /\ p.good => p.method = r.method /\ SameUrl(p, WordsOf(Chop(l))[2], r, x)

\* They do, on a line of three parts.
LEMMA BothAgree ==
  ASSUME NEW l \in Seq(Chars), l # <<>>, IsRequestLine(l),
         Split(Chop(l), Space) = WordsOf(Chop(l)), WordsOf(Chop(l))[2][1] = Slash,
         Run(PathText(l)).ok, NEW r, NEW x, KeptAll(l, r, x),
         NEW p, p = ParseHeaderLine(Chop(l))
  PROVE  Agreed(l, p, r, x)
<1> DEFINE b == Chop(l)
           w == WordsOf(b)
           w1 == w[1]
           w2 == w[2]
           w3 == w[3]
<1>1. Whole(b) /\ Last(l) = LF
  BY RequestIsWhole
<1>2. /\ b \in Seq(Chars) /\ Len(w) = 3 /\ w1 \in Methods
      /\ w2 \in Seq(Chars) /\ w3 \in Seq(Chars)
  BY <1>1 DEF Whole
<1>3. IsVersionWord(w3)
  BY DEF IsRequestLine, IsLineOf
<1>4. w2 # <<>> /\ w2[1] = Slash
  <2>1. 2 \in 1..Len(w)
    BY <1>2
  <2>2. WordsOf(b)[2] # <<>>
    <3> HIDE DEF b
    <3> QED
      BY <1>2, <2>1, WordsAreSome DEF w
  <2> QED
    BY <2>2
<1>5. PathText(l) = w2
  BY <1>2, <1>4, PathIsWord
<1>6. PICK rest : IsThree(b, w1, w2, w3, rest)
  <2>1. w = Split(b, Space)
    OBVIOUS
  <2> HIDE DEF b, w
  <2> QED
    BY <1>2, <2>1, ThreeAre
<1>7. /\ r.method = w1 /\ SameVersion(w3, r)
      /\ x = (IF r.complex THEN Run(w2).url ELSE w2) /\ (~r.complex => Quiet(w2))
  BY <1>5 DEF KeptAll, Kept
<1>8. Run(w2).ok
  BY <1>5
<1>9. p = ParseHeaderLine(b)
  OBVIOUS
<1>10. w2 = WordsOf(Chop(l))[2]
  OBVIOUS
<1> HIDE DEF b, w, w1, w2, w3
<1>11. p.good <=> IsVersion(w3)
  BY <1>2, <1>4, <1>6, <1>9, GoodIs
<1>12. IsVersion(w3) <=> r.major = 1 /\ r.minor \in {0, 1}
  <2>1. IsVersion(w3) <=> /\ Number(SubSeq(w3, 6, Find(w3, Dot) - 1)) = 1
                          /\ Number(After(w3, Find(w3, Dot))) \in {0, 1}
    BY <1>2, <1>3, VersionAgrees
  <2> QED
    BY <1>7, <2>1 DEF SameVersion
<1>13. ASSUME p.good PROVE p.method = r.method /\ SameUrl(p, w2, r, x)
  <2>1. PICK m, after, u : IsHeaderLine(p, b, m, after, u)
    BY <1>9, <1>13, GoodLine
  <2>2. m = w1 /\ u = w2
    BY <1>6, <2>1 DEF IsHeaderLine, IsThree
  <2>3. /\ p.method = w1 /\ p.complex = IsComplex(w2)
        /\ IF IsComplex(w2) THEN StoresResult(p, w2) ELSE p.url = w2 /\ p.query = <<>> /\ p.asserted
    BY <2>1, <2>2 DEF IsHeaderLine
  <2>4. SameUrl(p, w2, r, x)
    BY <1>2, <1>4, <1>7, <1>8, <2>3, UrlsAgree
  <2> QED
    BY <1>7, <2>3, <2>4
<1> QED
  BY <1>10, <1>11, <1>12, <1>13 DEF Agreed

\* Version 1 and version 2 agree on every request line of single spaces whose URL starts
\* with its path and is decoded: on the method, on which versions they take, and on the
\* URL that is left of the path.
THEOREM VersionsAlwaysAgree == Spec => []VersionsAgree
<1>1. Fields /\ Typed /\ Judged /\ AtOnce => VersionsAgree
  <2> DEFINE l == input.line
  <2> SUFFICES ASSUME Fields, Typed, Judged, AtOnce, Heard, InOnePiece, IsRequestLine(l),
                      Split(Chop(l), Space) = WordsOf(Chop(l)),
                      WordsOf(Chop(l))[2][1] = Slash, Run(PathText(l)).ok
               PROVE  VersionsAgree
    BY DEF VersionsAgree
  <2>1. KeptAll(l, line, url)
    BY HeardIsKept
  <2>2. l \in Seq(Chars) /\ l # <<>>
    <3>1. input \in Inputs /\ l \in Seq(Chars)
      BY TextIs
    <3> QED
      BY <3>1, InputsAssumption
  <2>3. Line2 = ParseHeaderLine(Chop(l))
    BY DEF Line2
  <2>4. Agreed(l, Line2, line, url)
    BY <2>1, <2>2, <2>3, BothAgree
  <2> QED
    BY <2>4 DEF VersionsAgree, Agreed, SameUrl
<1> QED
  BY <1>1, AtOnceHolds, PTL
=============================================================================
