-------------------------- MODULE HeaderLineProofs --------------------------
(***************************************************************************)
(* Proofs about what becomes of a request line of any length: the state    *)
(* machine for complex URLs, the words of a header line, the escapes in a  *)
(* path and the arguments in a query.                                      *)
(*                                                                         *)
(* A fold over a sequence is reasoned about in two steps: the table that   *)
(* the community module's FoldLeft is defined by exists, so the fold of    *)
(* Append(s, x) is one more turn on the fold of s; and what holds of <<>>  *)
(* and is kept by Append holds of every sequence.  Every fold of the       *)
(* specification gets two lemmas from that: ...Turns, that the table       *)
(* exists, and ...Is, its laws.                                            *)
(***************************************************************************)
EXTENDS HeaderLine, SequenceTheorems, WellFoundedInduction, TLAPS

-----------------------------------------------------------------------------
(* Numbers and sequences                                                   *)

\* A set of numbers that is not empty has a least one.
LEMMA LeastNumber ==
  ASSUME NEW S \in SUBSET Nat, S # {}
  PROVE  \E m \in S : (\A n \in S : m <= n) /\ Min(S) = m
<1>1. PICK m \in S : \A n \in S : ~(<<n, m>> \in OpToRel(<, Nat))
  BY NatLessThanWellFounded, WFMin
<1>2. \A n \in S : m <= n
  <2>1. \A n \in S : ~(n < m)
    BY <1>1 DEF OpToRel
  <2> QED
    BY <2>1
<1>3. \A k \in S : (\A n \in S : k <= n) => k = m
  BY <1>2
<1> QED
  BY <1>2, <1>3 DEF Min

\* And a bounded one has a greatest.
LEMMA GreatestNumber ==
  ASSUME NEW n \in Nat, NEW S \in SUBSET (1..n), S # {}
  PROVE  \E m \in S : (\A k \in S : k <= m) /\ Max(S) = m
<1> DEFINE D == {n - k : k \in S}
<1>1. D \in SUBSET Nat /\ D # {}
  OBVIOUS
<1>2. PICK d \in D : \A e \in D : d <= e
  BY <1>1, LeastNumber
<1>3. PICK m \in S : d = n - m
  BY <1>2
<1>4. \A k \in S : k <= m
  <2> TAKE k \in S
  <2>1. n - k \in D /\ k \in Int /\ m \in Int
    OBVIOUS
  <2>2. n - m <= n - k
    BY <1>2, <1>3, <2>1
  <2> HIDE DEF D
  <2> QED
    BY <2>1, <2>2
<1>5. ASSUME NEW k \in S, \A j \in S : j <= k
      PROVE  k = m
  <2>1. k <= m /\ m <= k
    BY <1>4, <1>5
  <2>2. k \in Int /\ m \in Int
    OBVIOUS
  <2> QED
    BY <2>1, <2>2
<1> QED
  BY <1>4, <1>5 DEF Max

\* What is true of 0 and carries on from k - 1 to k is true up to n.
LEMMA Induction ==
  ASSUME NEW n \in Nat, NEW P, 0 \in P, \A k \in 1..n : k - 1 \in P => k \in P
  PROVE  0..n \subseteq P
<1> SUFFICES ASSUME ~(0..n \subseteq P) PROVE FALSE
  OBVIOUS
<1> DEFINE B == {k \in 0..n : k \notin P}
<1>1. B \in SUBSET Nat /\ B # {}
  OBVIOUS
<1>2. PICK k \in B : \A j \in B : k <= j
  BY <1>1, LeastNumber
<1>3. k \in 1..n /\ k - 1 \in 0..n
  BY <1>2
<1>4. k - 1 \in P
  BY <1>2, <1>3
<1> QED
  BY <1>2, <1>3, <1>4

\* What is true of <<>> and carries on to longer sequences is true of all.
LEMMA SequenceInduction ==
  ASSUME NEW T, NEW P, <<>> \in P, \A s \in Seq(T) : \A x \in T : s \in P => Append(s, x) \in P
  PROVE  Seq(T) \subseteq P
<1> SUFFICES ASSUME NEW s \in Seq(T) PROVE s \in P
  OBVIOUS
<1> DEFINE Q == {k \in Nat : SubSeq(s, 1, k) \in P}
           n == Len(s)
<1>1. n \in Nat /\ \A i \in 1..n : s[i] \in T
  OBVIOUS
<1>2. 0 \in Q
  <2>1. SubSeq(s, 1, 0) = <<>>
    OBVIOUS
  <2> QED
    BY <2>1
<1>3. ASSUME NEW k \in 1..n, k - 1 \in Q
      PROVE  k \in Q
  <2>1. SubSeq(s, 1, k) = Append(SubSeq(s, 1, k - 1), s[k])
    BY <1>1
  <2>2. SubSeq(s, 1, k - 1) \in Seq(T) /\ s[k] \in T /\ k \in Nat
    BY <1>1
  <2>3. SubSeq(s, 1, k - 1) \in P
    BY <1>3
  <2> QED
    BY <2>1, <2>2, <2>3
<1> HIDE DEF Q, n
<1>4. 0..n \subseteq Q
  BY <1>1, <1>2, <1>3, Induction
<1>5. n \in Q
  BY <1>1, <1>4
<1>6. SubSeq(s, 1, n) = s
  BY DEF n
<1> QED
  BY <1>5, <1>6 DEF Q

-----------------------------------------------------------------------------
(* Folds                                                                   *)

\* The sets 1..k, which a fold from the left goes through.
LEMMA Segments1 ==
  ASSUME NEW n \in Nat, NEW k \in 1..n
  PROVE  /\ 1..k \in SUBSET (1..n) /\ 1..k # {} /\ Max(1..k) = k /\ (1..k) \ {k} = 1..(k - 1)
         /\ 1..(k - 1) \in SUBSET (1..n)
<1>1. 1..k \in SUBSET (1..n) /\ k \in 1..k
  OBVIOUS
<1>2. PICK m \in 1..k : (\A j \in 1..k : j <= m) /\ Max(1..k) = m
  BY <1>1, GreatestNumber
<1>3. m = k
  BY <1>2
<1> QED
  BY <1>1, <1>2, <1>3

\* The table of a fold with a function step.
IsFoldTable(h, base, step, seq) ==
  \A d \in SUBSET (1..Len(seq)) :
    h[d] = IF d = {} THEN base ELSE step[<<h[d \ {Max(d)}], seq[Max(d)]>>]

\* It exists, and its entries have the type of the values of step.
LEMMA FoldTable ==
  ASSUME NEW S, NEW T, NEW base \in S, NEW step \in [S \X T -> S], NEW seq \in Seq(T)
  PROVE  \E h \in [SUBSET (1..Len(seq)) -> S] : IsFoldTable(h, base, step, seq)
<1> DEFINE IsTable(h, n) == \A d \in SUBSET (1..n) :
             h[d] = IF d = {} THEN base ELSE step[<<h[d \ {Max(d)}], seq[Max(d)]>>]
           P == {n \in Nat : \E h \in [SUBSET (1..n) -> S] : IsTable(h, n)}
<1>1. Len(seq) \in Nat /\ \A i \in 1..Len(seq) : seq[i] \in T
  OBVIOUS
<1>2. 0 \in P
  <2> DEFINE h == [d \in SUBSET (1..0) |-> base]
  <2>1. \A d \in SUBSET (1..0) : d = {}
    OBVIOUS
  <2>2. h \in [SUBSET (1..0) -> S] /\ IsTable(h, 0)
    BY <2>1
  <2> QED
    BY <2>2
<1>3. ASSUME NEW n \in 1..Len(seq), n - 1 \in P
      PROVE  n \in P
  <2>1. PICK g \in [SUBSET (1..(n - 1)) -> S] : IsTable(g, n - 1)
    BY <1>3
  <2> DEFINE h == [d \in SUBSET (1..n) |->
                     IF n \in d THEN step[<<g[d \ {n}], seq[n]>>] ELSE g[d]]
  <2>2. ASSUME NEW d \in SUBSET (1..n)
        PROVE  /\ d \ {n} \in SUBSET (1..(n - 1))
               /\ n \notin d => d \in SUBSET (1..(n - 1))
    BY <2>2
  <2>3. h \in [SUBSET (1..n) -> S]
    BY <1>1, <2>2
  <2>4. n \in Nat
    BY <1>3
  <2>5. ASSUME NEW d \in SUBSET (1..n)
        PROVE  h[d] = IF d = {} THEN base ELSE step[<<h[d \ {Max(d)}], seq[Max(d)]>>]
    <3>1. CASE d = {}
      BY <2>1, <3>1
    <3>2. CASE n \in d
      <4>1. PICK m \in d : (\A k \in d : k <= m) /\ Max(d) = m
        BY <2>4, <3>2, GreatestNumber
      <4>2. Max(d) = n
        BY <3>2, <4>1
      <4>3. h[d \ {n}] = g[d \ {n}]
        BY <2>2
      <4> QED
        BY <3>2, <4>2, <4>3
    <3>3. CASE d # {} /\ n \notin d
      <4>1. PICK m \in d : (\A k \in d : k <= m) /\ Max(d) = m
        BY <2>4, <3>3, GreatestNumber
      <4>2. h[d \ {m}] = g[d \ {m}]
        BY <3>3
      <4>3. g[d] = step[<<g[d \ {m}], seq[m]>>]
        BY <2>1, <2>2, <3>3, <4>1
      <4> QED
        BY <3>3, <4>1, <4>2, <4>3
    <3> QED
      BY <3>1, <3>2, <3>3
  <2> HIDE DEF h
  <2>6. IsTable(h, n)
    BY <2>5
  <2> HIDE DEF IsTable
  <2> QED
    BY <2>3, <2>4, <2>6
<1> HIDE DEF P
<1>4. 0..Len(seq) \subseteq P
  BY <1>1, <1>2, <1>3, Induction
<1>5. Len(seq) \in P
  BY <1>1, <1>4
<1> QED
  BY <1>5 DEF P, IsFoldTable
\* What a table says of the segments.  (Only of an entry of type S does it say which
\* one comes next: there a fold with an operator is one with a function.)
AreTurns(h, base, step, seq, S) ==
  /\ h[1..0] = base
  /\ \A k \in 1..Len(seq) : h[1..(k - 1)] \in S => h[1..k] = step[<<h[1..(k - 1)], seq[k]>>]

\* Sequence more is seq and then x.
IsOneMore(more, seq, x) == /\ Len(more) = Len(seq) + 1 /\ more[Len(seq) + 1] = x
                           /\ \A k \in 1..Len(seq) : more[k] = seq[k]

\* Append() makes a sequence that is one more.
LEMMA AppendIsOneMore ==
  ASSUME NEW T, NEW seq \in Seq(T), NEW x \in T
  PROVE  IsOneMore(Append(seq, x), seq, x)
  BY AppendProperties DEF IsOneMore

\* g and h are the tables of a fold over seq and over one element more.
AreFolds(g, h, base, step, seq, x, more, S, T) ==
  /\ base \in S /\ step \in [S \X T -> S] /\ seq \in Seq(T) /\ x \in T /\ IsOneMore(more, seq, x)
  /\ AreTurns(g, base, step, seq, S) /\ AreTurns(h, base, step, more, S)

\* If g and h are the tables of folds over seq and over one element more, the second
\* fold is one turn on the first.
LEMMA FoldAppend ==
  ASSUME NEW S, NEW T, NEW base, NEW step, NEW seq, NEW x, NEW more, NEW g, NEW h,
         AreFolds(g, h, base, step, seq, x, more, S, T)
  PROVE  g[1..Len(seq)] \in S /\ h[1..Len(more)] = step[<<g[1..Len(seq)], x>>]
<1> DEFINE n == Len(seq)
           P == {k \in Nat : g[1..k] \in S /\ h[1..k] = g[1..k]}
<1>1. /\ n \in Nat /\ \A k \in 1..n : seq[k] \in T
      /\ \A k \in 1..n : more[k] = seq[k]
      /\ more[n + 1] = x /\ Len(more) = n + 1
  BY DEF IsOneMore, AreFolds
<1>2. 0 \in P
  BY DEF AreTurns, AreFolds
<1>3. ASSUME NEW k \in 1..n, k - 1 \in P
      PROVE  k \in P
  <2>1. g[1..(k - 1)] \in S /\ h[1..(k - 1)] = g[1..(k - 1)]
    BY <1>3
  <2>2. g[1..k] = step[<<g[1..(k - 1)], seq[k]>>] /\ h[1..k] = step[<<g[1..(k - 1)], seq[k]>>]
    BY <1>1, <2>1 DEF AreTurns, AreFolds
  <2>3. step \in [S \X T -> S] /\ k \in Nat /\ seq[k] \in T
    BY <1>1 DEF AreFolds
  <2> QED
    BY <2>1, <2>2, <2>3
<1> HIDE DEF P, n
<1>4. n \in P
  <2>1. 0..n \subseteq P
    BY <1>1, <1>2, <1>3, Induction
  <2> QED
    BY <1>1, <2>1
<1>5. g[1..n] \in S /\ h[1..n] = g[1..n]
  BY <1>4 DEF P
<1>6. h[1..(n + 1)] = step[<<h[1..((n + 1) - 1)], more[n + 1]>>]
  <2>1. n + 1 \in 1..(n + 1) /\ (n + 1) - 1 = n
    BY <1>1
  <2> QED
    BY <1>1, <1>5, <2>1 DEF AreTurns, AreFolds
<1>7. (n + 1) - 1 = n
  BY <1>1
<1> QED
  BY <1>1, <1>5, <1>6, <1>7 DEF n

\* Function f maps every sequence over T to its fold.
IsFoldOf(f, base, step, S, T) ==
  /\ base \in S /\ step \in [S \X T -> S]
  /\ \A s \in Seq(T) : \E h : AreTurns(h, base, step, s, S) /\ f[s] = h[1..Len(s)]

\* The fold of nothing is base, and of one element more it is one turn more.
LEMMA FoldLaws ==
  ASSUME NEW S, NEW T, NEW base, NEW step, NEW f, IsFoldOf(f, base, step, S, T)
  PROVE  /\ f[<<>>] = base
         /\ \A s \in Seq(T) : f[s] \in S /\ \A x \in T : f[Append(s, x)] = step[<<f[s], x>>]
<1>1. \A s \in Seq(T) : \E h : AreTurns(h, base, step, s, S) /\ f[s] = h[1..Len(s)]
  BY DEF IsFoldOf
<1>2. f[<<>>] = base
  <2>1. <<>> \in Seq(T) /\ Len(<<>>) = 0
    OBVIOUS
  <2> QED
    BY <1>1, <2>1 DEF AreTurns
<1>3. ASSUME NEW s \in Seq(T), NEW x \in T
      PROVE  f[s] \in S /\ f[Append(s, x)] = step[<<f[s], x>>]
  <2> DEFINE more == Append(s, x)
  <2>1. more \in Seq(T) /\ IsOneMore(more, s, x)
    BY AppendProperties, AppendIsOneMore
  <2>2. PICK g : AreTurns(g, base, step, s, S) /\ f[s] = g[1..Len(s)]
    BY <1>1
  <2> HIDE DEF more
  <2>3. PICK h : AreTurns(h, base, step, more, S) /\ f[more] = h[1..Len(more)]
    BY <1>1, <2>1
  <2>4. AreFolds(g, h, base, step, s, x, more, S, T)
    BY <2>1, <2>2, <2>3 DEF AreFolds, IsFoldOf
  <2>5. g[1..Len(s)] \in S /\ h[1..Len(more)] = step[<<g[1..Len(s)], x>>]
    BY <2>4, FoldAppend
  <2> QED
    BY <2>2, <2>3, <2>5 DEF more
<1>4. ASSUME NEW s \in Seq(T)
      PROVE  f[s] \in S
  <2>1. CASE Len(s) = 0
    BY <1>2, <2>1 DEF IsFoldOf
  <2>2. CASE Len(s) # 0
    <3>1. s[1] \in T
      BY <2>2
    <3> QED
      BY <1>3, <3>1
  <2> QED
    BY <2>1, <2>2
<1> QED
  BY <1>2, <1>3, <1>4

-----------------------------------------------------------------------------
(* The machine                                                             *)

Chars == 0..255
Places == {"kUsual", "kSlash", "kDot", "kDoubleDot"}
Machines == [state : Places \cup {"kPersentFirst", "kPersentSecond"}, trap : Places,
             digit : Chars, url : Seq(Chars), question : BOOLEAN, ok : BOOLEAN]

\* The value of a digit is a number.
LEMMA DigitValueIs ==
  ASSUME NEW c \in Chars
  PROVE  DigitValue(c) \in Int
  BY DEF DigitValue, LowerCase, IsDigit, Chars

\* What EraseSegment() leaves is a front part.
LEMMA EraseSegmentIs ==
  ASSUME NEW u \in Seq(Chars)
  PROVE  \E m \in 0..Len(u) : EraseSegment(u) = SubSeq(u, 1, m)
<1> DEFINE last == IF Len(u) >= 2 THEN Len(u) - 1 ELSE Len(u)
           slashes == {i \in 1..last : u[i] = Slash}
<1>1. last \in 0..Len(u) /\ Len(u) \in Nat
  OBVIOUS
<1> HIDE DEF last
<1>2. EraseSegment(u) = SubSeq(u, 1, IF slashes = {} THEN 0 ELSE Max(slashes))
  BY DEF EraseSegment, last
<1>3. slashes # {} => Max(slashes) \in 0..Len(u)
  <2> SUFFICES ASSUME slashes # {} PROVE Max(slashes) \in 0..Len(u)
    OBVIOUS
  <2>1. last \in Nat /\ slashes \in SUBSET (1..last)
    BY <1>1
  <2> HIDE DEF slashes
  <2>2. PICK m \in slashes : Max(slashes) = m
    BY <2>1, GreatestNumber
  <2> QED
    BY <1>1, <2>1, <2>2
<1> DEFINE m == IF slashes = {} THEN 0 ELSE Max(slashes)
<1> HIDE DEF slashes
<1>4. m \in 0..Len(u)
  BY <1>1, <1>3
<1> QED
  BY <1>2, <1>4

\* A turn takes a machine to a machine.
LEMMA FeedType ==
  ASSUME NEW u \in Machines, NEW c \in Chars
  PROVE  Feed(u, c) \in Machines
<1>1. CASE ~u.ok
  BY <1>1 DEF Feed
<1>2. CASE u.ok /\ u.state \in {"kPersentFirst", "kPersentSecond"}
  <2>1. DigitValue(c) % 256 \in Chars /\ (u.digit * 16 + DigitValue(c)) % 256 \in Chars
    <3>1. \A n \in Int : n % 256 \in Chars
      BY DEF Chars
    <3>2. u.digit \in Int /\ DigitValue(c) \in Int
      <4>1. u.digit \in Chars
        BY DEF Machines
      <4> QED
        BY <4>1, DigitValueIs DEF Chars
    <3> QED
      BY <3>1, <3>2
  <2>2. Feed(u, c) = FeedPercent(u, c)
    BY <1>2 DEF Feed
  <2>3. FeedPercent(u, c) \in Machines
    <3> DEFINE a == DigitValue(c) % 256
               b == (u.digit * 16 + DigitValue(c)) % 256
    <3>1. Append(u.url, b) \in Seq(Chars)
      BY <2>1 DEF Machines
    <3>2. FeedPercent(u, c) \in
            {[u EXCEPT !.ok = FALSE], [u EXCEPT !.state = "kPersentSecond", !.digit = a],
             [u EXCEPT !.state = u.trap, !.digit = b, !.url = Append(@, b)]}
      BY DEF FeedPercent
    <3> HIDE DEF a, b
    <3>3. /\ a \in Chars /\ b \in Chars /\ u.trap \in Places /\ u.url \in Seq(Chars)
      BY <2>1 DEF Machines, a, b
    <3>4. [u EXCEPT !.ok = FALSE] \in Machines
      BY DEF Machines
    <3>5. [u EXCEPT !.state = "kPersentSecond", !.digit = a] \in Machines
      BY <3>3 DEF Machines
    <3>6. [u EXCEPT !.state = u.trap, !.digit = b, !.url = Append(@, b)] \in Machines
      <4> DEFINE s == Append(u.url, b)
      <4>1. s \in Seq(Chars)
        BY <3>1
      <4> HIDE DEF s
      <4>2. [u EXCEPT !.state = u.trap, !.digit = b, !.url = s] \in Machines
        BY <3>3, <4>1 DEF Machines
      <4> QED
        BY <4>2 DEF s
    <3> QED
      BY <3>2, <3>4, <3>5, <3>6
  <2> QED
    BY <2>2, <2>3
<1>3. CASE u.ok /\ u.state \in Places /\ c = Percent
  BY <1>3 DEF Feed, Machines, Places
<1>4. CASE u.ok /\ u.state \in Places /\ c # Percent
  <2>1. Feed(u, c) = FeedPlain(u, c)
    BY <1>4 DEF Feed, Places
  <2>2. EraseSegment(u.url) \in Seq(Chars) /\ Append(u.url, c) \in Seq(Chars)
    <3>1. u.url \in Seq(Chars)
      BY DEF Machines
    <3>2. PICK m \in 0..Len(u.url) : EraseSegment(u.url) = SubSeq(u.url, 1, m)
      BY <3>1, EraseSegmentIs
    <3> QED
      BY <3>1, <3>2
  <2>3. Target(u.state, c) \in Places
    BY DEF Target, Places
  <2>4. FeedPlain(u, c) \in Machines
    BY <1>4, <2>2, <2>3 DEF FeedPlain, Machines
  <2> QED
    BY <2>1, <2>4
<1> QED
  BY <1>1, <1>2, <1>3, <1>4 DEF Machines

RunOf(h, url) ==
  h = [d \in SUBSET DOMAIN url |->
         IF d = {} THEN Machine0 ELSE Feed(h[d \ {Max(d)}], url[Max(d)])]

\* Run() is a fold with the turns of the machine.
LEMMA RunTurns ==
  ASSUME NEW url \in Seq(Chars), NEW step,
         step = [p \in Machines \X Chars |-> Feed(p[1], p[2])]
  PROVE  /\ Machine0 \in Machines /\ step \in [Machines \X Chars -> Machines]
         /\ \E h : AreTurns(h, Machine0, step, url, Machines) /\ Run(url) = h[1..Len(url)]
<1>1. /\ step \in [Machines \X Chars -> Machines]
      /\ \A a \in Machines : \A x \in Chars : step[<<a, x>>] = Feed(a, x)
  BY FeedType
<1>2. Machine0 \in Machines
  BY DEF Machine0, Machines, Places, Chars
<1>3. DOMAIN url = 1..Len(url) /\ Len(url) \in Nat /\ \A i \in 1..Len(url) : url[i] \in Chars
  OBVIOUS
<1>4. PICK h \in [SUBSET (1..Len(url)) -> Machines] : IsFoldTable(h, Machine0, step, url)
  BY <1>1, <1>2, FoldTable
<1>5. ASSUME NEW d \in SUBSET DOMAIN url
      PROVE  h[d] = IF d = {} THEN Machine0 ELSE Feed(h[d \ {Max(d)}], url[Max(d)])
  <2>1. CASE d = {}
    BY <1>3, <1>4, <2>1 DEF IsFoldTable
  <2>2. CASE d # {}
    <3>1. PICK m \in d : Max(d) = m
      BY <1>3, <2>2, GreatestNumber
    <3>2. h[d \ {Max(d)}] \in Machines /\ url[Max(d)] \in Chars
      BY <1>3, <3>1
    <3> QED
      BY <1>1, <1>3, <1>4, <2>2, <3>2 DEF IsFoldTable
  <2> QED
    BY <2>1, <2>2
<1>6. RunOf(h, url)
  BY <1>3, <1>5 DEF RunOf
<1>7. PICK t : t = CHOOSE g : RunOf(g, url)
  OBVIOUS
<1>8. RunOf(t, url)
  BY <1>6, <1>7
<1>9. Run(url) = t[1..Len(url)]
  <2>1. Run(url) = (CHOOSE g : RunOf(g, url))[DOMAIN url]
    BY Zenon DEF Run, FoldLeft, MapThenFoldSet, RunOf
  <2> QED
    BY <1>3, <1>7, <2>1
<1>10. AreTurns(t, Machine0, step, url, Machines)
  <2>1. \A d \in SUBSET DOMAIN url :
          t[d] = IF d = {} THEN Machine0 ELSE Feed(t[d \ {Max(d)}], url[Max(d)])
    BY <1>8 DEF RunOf
  <2>2. \A k \in 1..Len(url) : t[1..k] = Feed(t[1..(k - 1)], url[k])
    BY <1>3, <2>1, Segments1
  <2>3. t[1..0] = Machine0
    <3>1. 1..0 = {} /\ {} \in SUBSET DOMAIN url
      OBVIOUS
    <3> QED
      BY <2>1, <3>1, Zenon
  <2> QED
    BY <1>1, <1>3, <2>2, <2>3 DEF AreTurns
<1> QED
  BY <1>1, <1>2, <1>9, <1>10

\* Run() of nothing, and of one character more.
LEMMA RunIs ==
  /\ Run(<<>>) = Machine0
  /\ \A url \in Seq(Chars) : /\ Run(url) \in Machines
                             /\ \A c \in Chars : Run(Append(url, c)) = Feed(Run(url), c)
<1> DEFINE step == [p \in Machines \X Chars |-> Feed(p[1], p[2])]
           f == [s \in Seq(Chars) |-> Run(s)]
<1>1. \A s \in Seq(Chars) :
        /\ Machine0 \in Machines /\ step \in [Machines \X Chars -> Machines]
        /\ \E h : AreTurns(h, Machine0, step, s, Machines) /\ f[s] = h[1..Len(s)]
  BY RunTurns
<1>2. IsFoldOf(f, Machine0, step, Machines, Chars)
  <2>1. <<>> \in Seq(Chars)
    OBVIOUS
  <2> HIDE DEF f, step
  <2> QED
    BY <1>1, <2>1 DEF IsFoldOf
<1>3. /\ f[<<>>] = Machine0
      /\ \A s \in Seq(Chars) : f[s] \in Machines /\ \A x \in Chars : f[Append(s, x)] = step[<<f[s], x>>]
  <2> HIDE DEF f, step
  <2> QED
    BY <1>2, FoldLaws
<1>4. \A a \in Machines : \A x \in Chars : step[<<a, x>>] = Feed(a, x)
  OBVIOUS
<1>5. /\ <<>> \in Seq(Chars)
      /\ \A s \in Seq(Chars) : f[s] = Run(s) /\ \A x \in Chars : f[Append(s, x)] = Run(Append(s, x))
  BY AppendProperties
<1> HIDE DEF f, step
<1> QED
  BY <1>3, <1>4, <1>5, ZenonT(60)

-----------------------------------------------------------------------------
(* The parts of a string                                                   *)

Parts(c) == {p \in Seq(Seq(Chars \ {c})) : p # <<>>}

SplitTurn(parts, x, c) == IF x = c THEN Append(parts, <<>>)
                          ELSE Append(Front(parts), Append(Last(parts), x))

\* A sequence that is not empty is its front and its last element.
LEMMA FrontLast ==
  ASSUME NEW T, NEW s \in Seq(T), s # <<>>
  PROVE  /\ Front(s) \in Seq(T) /\ Last(s) \in T /\ Len(Front(s)) = Len(s) - 1
         /\ Len(s) \in Nat \ {0} /\ s = Append(Front(s), Last(s))
<1>1. Len(s) \in Nat \ {0} /\ \A i \in 1..Len(s) : s[i] \in T
  OBVIOUS
<1>2. /\ Front(s) \in Seq(T) /\ Last(s) \in T /\ Len(Front(s)) = Len(s) - 1
      /\ \A i \in 1..(Len(s) - 1) : Front(s)[i] = s[i]
      /\ Last(s) = s[Len(s)]
  <2> DEFINE m == Len(s) - 1
  <2>1. m \in Nat /\ \A i \in 1..m : s[i] \in T
    <3>1. m \in Nat /\ \A i \in 1..m : i \in 1..Len(s)
      BY <1>1
    <3> QED
      BY <1>1, <3>1
  <2>2. Front(s) = SubSeq(s, 1, m) /\ Last(s) = s[Len(s)]
    BY DEF Front, Last
  <2> HIDE DEF m
  <2>3. /\ SubSeq(s, 1, m) \in Seq(T) /\ Len(SubSeq(s, 1, m)) = m
        /\ \A i \in 1..m : SubSeq(s, 1, m)[i] = s[i]
    BY <2>1, SubSeqProperties
  <2> QED
    BY <1>1, <2>2, <2>3 DEF m
<1> DEFINE a == Append(Front(s), Last(s))
<1>3. a \in Seq(T) /\ Len(a) = Len(s) /\ \A i \in 1..Len(s) : a[i] = s[i]
  <2>1. \A i \in 1..Len(s) : i \in 1..(Len(s) - 1) \/ i = Len(s)
    BY <1>1
  <2> QED
    BY <1>1, <1>2, <2>1, AppendProperties
<1> HIDE DEF a
<1>4. a = s
  BY <1>3, SeqEqual
<1> QED
  BY <1>1, <1>2, <1>4 DEF a

\* A turn of Split() takes parts to parts.
LEMMA SplitTurnType ==
  ASSUME NEW c, NEW p \in Parts(c), NEW x \in Chars
  PROVE  SplitTurn(p, x, c) \in Parts(c)
<1> DEFINE T == Seq(Chars \ {c})
<1>1. p \in Seq(T) /\ p # <<>>
  BY DEF Parts
<1>2. CASE x = c
  BY <1>1, <1>2 DEF SplitTurn, Parts
<1>3. CASE x # c
  <2>1. Front(p) \in Seq(T) /\ Last(p) \in T
    <3> HIDE DEF T
    <3> QED
      BY <1>1, FrontLast
  <2>2. Append(Last(p), x) \in T
    BY <1>3, <2>1
  <2> HIDE DEF T
  <2>3. Append(Front(p), Append(Last(p), x)) \in Seq(T) /\ Append(Front(p), Append(Last(p), x)) # <<>>
    BY <2>1, <2>2, AppendProperties
  <2> QED
    BY <1>3, <2>3 DEF SplitTurn, Parts, T
<1> QED
  BY <1>2, <1>3

SplitOf(h, s, c) ==
  h = [d \in SUBSET DOMAIN s |->
         IF d = {} THEN <<<<>>>> ELSE SplitTurn(h[d \ {Max(d)}], s[Max(d)], c)]

\* Split() is a fold.
LEMMA SplitTurns ==
  ASSUME NEW s \in Seq(Chars), NEW c, NEW step,
         step = [p \in Parts(c) \X Chars |-> SplitTurn(p[1], p[2], c)]
  PROVE  /\ <<<<>>>> \in Parts(c) /\ step \in [Parts(c) \X Chars -> Parts(c)]
         /\ \E h : AreTurns(h, <<<<>>>>, step, s, Parts(c)) /\ Split(s, c) = h[1..Len(s)]
<1>1. /\ step \in [Parts(c) \X Chars -> Parts(c)]
      /\ \A a \in Parts(c) : \A x \in Chars : step[<<a, x>>] = SplitTurn(a, x, c)
  BY SplitTurnType
<1>2. <<<<>>>> \in Parts(c)
  BY DEF Parts
<1>3. DOMAIN s = 1..Len(s) /\ Len(s) \in Nat /\ \A i \in 1..Len(s) : s[i] \in Chars
  OBVIOUS
<1>4. PICK h \in [SUBSET (1..Len(s)) -> Parts(c)] : IsFoldTable(h, <<<<>>>>, step, s)
  BY <1>1, <1>2, FoldTable
<1>5. ASSUME NEW d \in SUBSET DOMAIN s
      PROVE  h[d] = IF d = {} THEN <<<<>>>> ELSE SplitTurn(h[d \ {Max(d)}], s[Max(d)], c)
  <2>1. CASE d = {}
    BY <1>3, <1>4, <2>1 DEF IsFoldTable
  <2>2. CASE d # {}
    <3>1. PICK m \in d : Max(d) = m
      BY <1>3, <2>2, GreatestNumber
    <3>2. h[d \ {Max(d)}] \in Parts(c) /\ s[Max(d)] \in Chars
      BY <1>3, <3>1
    <3> QED
      BY <1>1, <1>3, <1>4, <2>2, <3>2 DEF IsFoldTable
  <2> QED
    BY <2>1, <2>2
<1>6. SplitOf(h, s, c)
  BY <1>3, <1>5 DEF SplitOf
<1>7. PICK t : t = CHOOSE g : SplitOf(g, s, c)
  OBVIOUS
<1>8. SplitOf(t, s, c)
  BY <1>6, <1>7
<1>9. Split(s, c) = t[1..Len(s)]
  <2>1. Split(s, c) = (CHOOSE g : SplitOf(g, s, c))[DOMAIN s]
    BY Zenon DEF Split, SplitTurn, FoldLeft, MapThenFoldSet, SplitOf
  <2> QED
    BY <1>3, <1>7, <2>1
<1>10. AreTurns(t, <<<<>>>>, step, s, Parts(c))
  <2>1. \A d \in SUBSET DOMAIN s :
          t[d] = IF d = {} THEN <<<<>>>> ELSE SplitTurn(t[d \ {Max(d)}], s[Max(d)], c)
    BY <1>8 DEF SplitOf
  <2>2. \A k \in 1..Len(s) : t[1..k] = SplitTurn(t[1..(k - 1)], s[k], c)
    BY <1>3, <2>1, Segments1
  <2>3. t[1..0] = <<<<>>>>
    <3>1. 1..0 = {} /\ {} \in SUBSET DOMAIN s
      OBVIOUS
    <3> QED
      BY <2>1, <3>1, Zenon
  <2> QED
    BY <1>1, <1>3, <2>2, <2>3 DEF AreTurns
<1> QED
  BY <1>1, <1>2, <1>9, <1>10

\* The parts of nothing, and of one character more.
LEMMA SplitIs ==
  ASSUME NEW c
  PROVE  /\ Split(<<>>, c) = <<<<>>>>
         /\ \A s \in Seq(Chars) :
              /\ Split(s, c) \in Parts(c)
              /\ \A x \in Chars : Split(Append(s, x), c) = SplitTurn(Split(s, c), x, c)
<1> DEFINE step == [p \in Parts(c) \X Chars |-> SplitTurn(p[1], p[2], c)]
           f == [s \in Seq(Chars) |-> Split(s, c)]
<1>1. \A s \in Seq(Chars) :
        /\ <<<<>>>> \in Parts(c) /\ step \in [Parts(c) \X Chars -> Parts(c)]
        /\ \E h : AreTurns(h, <<<<>>>>, step, s, Parts(c)) /\ f[s] = h[1..Len(s)]
  BY SplitTurns
<1>2. IsFoldOf(f, <<<<>>>>, step, Parts(c), Chars)
  <2>1. <<>> \in Seq(Chars)
    OBVIOUS
  <2> HIDE DEF f, step
  <2> QED
    BY <1>1, <2>1 DEF IsFoldOf
<1>3. /\ f[<<>>] = <<<<>>>>
      /\ \A s \in Seq(Chars) : f[s] \in Parts(c) /\ \A x \in Chars : f[Append(s, x)] = step[<<f[s], x>>]
  <2> HIDE DEF f, step
  <2> QED
    BY <1>2, FoldLaws
<1>4. \A a \in Parts(c) : \A x \in Chars : step[<<a, x>>] = SplitTurn(a, x, c)
  OBVIOUS
<1>5. /\ <<>> \in Seq(Chars)
      /\ \A s \in Seq(Chars) : f[s] = Split(s, c) /\ \A x \in Chars : f[Append(s, x)] = Split(Append(s, x), c)
  BY AppendProperties
<1> HIDE DEF f, step
<1> QED
  BY <1>3, <1>4, <1>5

-----------------------------------------------------------------------------
(* Directories                                                             *)

Letters == Chars \ {Slash}
Names == Seq(Letters) \ {<<>>}

WalkTurn(path, s) == IF s \in {<<>>, <<Dot>>} THEN path
                     ELSE IF s # <<Dot, Dot>> THEN Append(path, s)
                     ELSE IF path = <<>> THEN path ELSE Front(path)

\* A turn of Walk() takes a path to a path.
LEMMA WalkTurnType ==
  ASSUME NEW p \in Seq(Names), NEW s \in Seq(Letters)
  PROVE  WalkTurn(p, s) \in Seq(Names)
<1>1. s # <<>> => s \in Names
  BY DEF Names
<1>2. p # <<>> => Front(p) \in Seq(Names)
  BY FrontLast
<1>3. s # <<>> => Append(p, s) \in Seq(Names)
  BY <1>1, AppendProperties
<1> QED
  BY <1>2, <1>3 DEF WalkTurn

WalkOf(h, names) ==
  h = [d \in SUBSET DOMAIN names |->
         IF d = {} THEN <<>> ELSE WalkTurn(h[d \ {Max(d)}], names[Max(d)])]

\* Walk() is a fold.
LEMMA WalkTurns ==
  ASSUME NEW names \in Seq(Seq(Letters)), NEW step,
         step = [p \in Seq(Names) \X Seq(Letters) |-> WalkTurn(p[1], p[2])]
  PROVE  /\ <<>> \in Seq(Names) /\ step \in [Seq(Names) \X Seq(Letters) -> Seq(Names)]
         /\ \E h : AreTurns(h, <<>>, step, names, Seq(Names)) /\ Walk(names) = h[1..Len(names)]
<1>1. /\ step \in [Seq(Names) \X Seq(Letters) -> Seq(Names)]
      /\ \A a \in Seq(Names) : \A x \in Seq(Letters) : step[<<a, x>>] = WalkTurn(a, x)
  BY WalkTurnType
<1>2. <<>> \in Seq(Names)
  OBVIOUS
<1>3. DOMAIN names = 1..Len(names) /\ Len(names) \in Nat /\ \A i \in 1..Len(names) : names[i] \in Seq(Letters)
  OBVIOUS
<1>4. PICK h \in [SUBSET (1..Len(names)) -> Seq(Names)] : IsFoldTable(h, <<>>, step, names)
  BY <1>1, <1>2, FoldTable
<1>5. ASSUME NEW d \in SUBSET DOMAIN names
      PROVE  h[d] = IF d = {} THEN <<>> ELSE WalkTurn(h[d \ {Max(d)}], names[Max(d)])
  <2>1. CASE d = {}
    BY <1>3, <1>4, <2>1 DEF IsFoldTable
  <2>2. CASE d # {}
    <3>1. PICK m \in d : Max(d) = m
      BY <1>3, <2>2, GreatestNumber
    <3>2. h[d \ {Max(d)}] \in Seq(Names) /\ names[Max(d)] \in Seq(Letters)
      BY <1>3, <3>1
    <3> QED
      BY <1>1, <1>3, <1>4, <2>2, <3>2 DEF IsFoldTable
  <2> QED
    BY <2>1, <2>2
<1>6. WalkOf(h, names)
  BY <1>3, <1>5 DEF WalkOf
<1>7. PICK t : t = CHOOSE g : WalkOf(g, names)
  OBVIOUS
<1>8. WalkOf(t, names)
  BY <1>6, <1>7
<1>9. Walk(names) = t[1..Len(names)]
  <2>1. Walk(names) = (CHOOSE g : WalkOf(g, names))[DOMAIN names]
    BY Zenon DEF Walk, WalkTurn, FoldLeft, MapThenFoldSet, WalkOf
  <2> QED
    BY <1>3, <1>7, <2>1
<1>10. AreTurns(t, <<>>, step, names, Seq(Names))
  <2>1. \A d \in SUBSET DOMAIN names :
          t[d] = IF d = {} THEN <<>> ELSE WalkTurn(t[d \ {Max(d)}], names[Max(d)])
    BY <1>8 DEF WalkOf
  <2>2. \A k \in 1..Len(names) : t[1..k] = WalkTurn(t[1..(k - 1)], names[k])
    BY <1>3, <2>1, Segments1
  <2>3. t[1..0] = <<>>
    <3>1. 1..0 = {} /\ {} \in SUBSET DOMAIN names
      OBVIOUS
    <3> QED
      BY <2>1, <3>1, Zenon
  <2> QED
    BY <1>1, <1>3, <2>2, <2>3 DEF AreTurns
<1> QED
  BY <1>1, <1>2, <1>9, <1>10

\* The walk to nowhere, and one segment further.
LEMMA WalkIs ==
  /\ Walk(<<>>) = <<>>
  /\ \A names \in Seq(Seq(Letters)) :
       /\ Walk(names) \in Seq(Names)
       /\ \A x \in Seq(Letters) : Walk(Append(names, x)) = WalkTurn(Walk(names), x)
<1> DEFINE step == [p \in Seq(Names) \X Seq(Letters) |-> WalkTurn(p[1], p[2])]
           f == [s \in Seq(Seq(Letters)) |-> Walk(s)]
<1>1. \A s \in Seq(Seq(Letters)) :
        /\ <<>> \in Seq(Names) /\ step \in [Seq(Names) \X Seq(Letters) -> Seq(Names)]
        /\ \E h : AreTurns(h, <<>>, step, s, Seq(Names)) /\ f[s] = h[1..Len(s)]
  BY WalkTurns
<1>2. IsFoldOf(f, <<>>, step, Seq(Names), Seq(Letters))
  <2>1. <<>> \in Seq(Seq(Letters))
    OBVIOUS
  <2> HIDE DEF f, step
  <2> QED
    BY <1>1, <2>1 DEF IsFoldOf
<1>3. /\ f[<<>>] = <<>>
      /\ \A s \in Seq(Seq(Letters)) : f[s] \in Seq(Names) /\ \A x \in Seq(Letters) : f[Append(s, x)] = step[<<f[s], x>>]
  <2> HIDE DEF f, step
  <2> QED
    BY <1>2, FoldLaws
<1>4. \A a \in Seq(Names) : \A x \in Seq(Letters) : step[<<a, x>>] = WalkTurn(a, x)
  OBVIOUS
<1>5. /\ <<>> \in Seq(Seq(Letters))
      /\ \A s \in Seq(Seq(Letters)) : f[s] = Walk(s) /\ \A x \in Seq(Letters) : f[Append(s, x)] = Walk(Append(s, x))
  BY AppendProperties
<1> HIDE DEF f, step
<1> QED
  BY <1>3, <1>4, <1>5

\* The text of a directory, with the slash at its end.
Root(path) == FoldLeft(LAMBDA s, part : s \o part \o <<Slash>>, <<Slash>>, path)
RootTurn(s, part) == s \o part \o <<Slash>>

\* A turn of Root() takes a text to a text.
LEMMA RootTurnType ==
  ASSUME NEW s \in Seq(Chars), NEW part \in Seq(Chars)
  PROVE  RootTurn(s, part) \in Seq(Chars)
<1>1. <<Slash>> \in Seq(Chars)
  BY DEF Slash, Chars
<1> QED
  BY <1>1, ConcatProperties DEF RootTurn

RootOf(h, path) ==
  h = [d \in SUBSET DOMAIN path |->
         IF d = {} THEN <<Slash>> ELSE RootTurn(h[d \ {Max(d)}], path[Max(d)])]

\* Root() is a fold.
LEMMA RootTurns ==
  ASSUME NEW path \in Seq(Seq(Chars)), NEW step,
         step = [p \in Seq(Chars) \X Seq(Chars) |-> RootTurn(p[1], p[2])]
  PROVE  /\ <<Slash>> \in Seq(Chars) /\ step \in [Seq(Chars) \X Seq(Chars) -> Seq(Chars)]
         /\ \E h : AreTurns(h, <<Slash>>, step, path, Seq(Chars)) /\ Root(path) = h[1..Len(path)]
<1>1. /\ step \in [Seq(Chars) \X Seq(Chars) -> Seq(Chars)]
      /\ \A a \in Seq(Chars) : \A x \in Seq(Chars) : step[<<a, x>>] = RootTurn(a, x)
  BY RootTurnType
<1>2. <<Slash>> \in Seq(Chars)
  BY DEF Slash, Chars
<1>3. DOMAIN path = 1..Len(path) /\ Len(path) \in Nat /\ \A i \in 1..Len(path) : path[i] \in Seq(Chars)
  OBVIOUS
<1>4. PICK h \in [SUBSET (1..Len(path)) -> Seq(Chars)] : IsFoldTable(h, <<Slash>>, step, path)
  BY <1>1, <1>2, FoldTable
<1>5. ASSUME NEW d \in SUBSET DOMAIN path
      PROVE  h[d] = IF d = {} THEN <<Slash>> ELSE RootTurn(h[d \ {Max(d)}], path[Max(d)])
  <2>1. CASE d = {}
    BY <1>3, <1>4, <2>1 DEF IsFoldTable
  <2>2. CASE d # {}
    <3>1. PICK m \in d : Max(d) = m
      BY <1>3, <2>2, GreatestNumber
    <3>2. h[d \ {Max(d)}] \in Seq(Chars) /\ path[Max(d)] \in Seq(Chars)
      BY <1>3, <3>1
    <3> QED
      BY <1>1, <1>3, <1>4, <2>2, <3>2 DEF IsFoldTable
  <2> QED
    BY <2>1, <2>2
<1>6. RootOf(h, path)
  BY <1>3, <1>5 DEF RootOf
<1>7. PICK t : t = CHOOSE g : RootOf(g, path)
  OBVIOUS
<1>8. RootOf(t, path)
  BY <1>6, <1>7
<1>9. Root(path) = t[1..Len(path)]
  <2>1. Root(path) = (CHOOSE g : RootOf(g, path))[DOMAIN path]
    BY Zenon DEF Root, RootTurn, FoldLeft, MapThenFoldSet, RootOf
  <2> QED
    BY <1>3, <1>7, <2>1
<1>10. AreTurns(t, <<Slash>>, step, path, Seq(Chars))
  <2>1. \A d \in SUBSET DOMAIN path :
          t[d] = IF d = {} THEN <<Slash>> ELSE RootTurn(t[d \ {Max(d)}], path[Max(d)])
    BY <1>8 DEF RootOf
  <2>2. \A k \in 1..Len(path) : t[1..k] = RootTurn(t[1..(k - 1)], path[k])
    BY <1>3, <2>1, Segments1
  <2>3. t[1..0] = <<Slash>>
    <3>1. 1..0 = {} /\ {} \in SUBSET DOMAIN path
      OBVIOUS
    <3> QED
      BY <2>1, <3>1, Zenon
  <2> QED
    BY <1>1, <1>3, <2>2, <2>3 DEF AreTurns
<1> QED
  BY <1>1, <1>2, <1>9, <1>10

\* The path of the root, and of one directory more.
LEMMA RootIs ==
  /\ Root(<<>>) = <<Slash>>
  /\ \A path \in Seq(Seq(Chars)) :
       /\ Root(path) \in Seq(Chars)
       /\ \A x \in Seq(Chars) : Root(Append(path, x)) = RootTurn(Root(path), x)
<1> DEFINE step == [p \in Seq(Chars) \X Seq(Chars) |-> RootTurn(p[1], p[2])]
           f == [s \in Seq(Seq(Chars)) |-> Root(s)]
<1>1. \A s \in Seq(Seq(Chars)) :
        /\ <<Slash>> \in Seq(Chars) /\ step \in [Seq(Chars) \X Seq(Chars) -> Seq(Chars)]
        /\ \E h : AreTurns(h, <<Slash>>, step, s, Seq(Chars)) /\ f[s] = h[1..Len(s)]
  BY RootTurns
<1>2. IsFoldOf(f, <<Slash>>, step, Seq(Chars), Seq(Chars))
  <2>1. <<>> \in Seq(Seq(Chars))
    OBVIOUS
  <2> HIDE DEF f, step
  <2> QED
    BY <1>1, <2>1 DEF IsFoldOf
<1>3. /\ f[<<>>] = <<Slash>>
      /\ \A s \in Seq(Seq(Chars)) : f[s] \in Seq(Chars) /\ \A x \in Seq(Chars) : f[Append(s, x)] = step[<<f[s], x>>]
  <2> HIDE DEF f, step
  <2> QED
    BY <1>2, FoldLaws
<1>4. \A a \in Seq(Chars) : \A x \in Seq(Chars) : step[<<a, x>>] = RootTurn(a, x)
  OBVIOUS
<1>5. /\ <<>> \in Seq(Seq(Chars))
      /\ \A s \in Seq(Seq(Chars)) : f[s] = Root(s) /\ \A x \in Seq(Chars) : f[Append(s, x)] = Root(Append(s, x))
  BY AppendProperties
<1> HIDE DEF f, step
<1>6. ASSUME NEW path \in Seq(Seq(Chars)), NEW x \in Seq(Chars)
      PROVE  Root(Append(path, x)) = RootTurn(Root(path), x)
  <2>1. f[path] \in Seq(Chars) /\ f[Append(path, x)] = step[<<f[path], x>>]
    BY <1>3
  <2>2. step[<<f[path], x>>] = RootTurn(f[path], x)
    BY <1>4, <2>1
  <2>3. f[path] = Root(path)
    BY <1>5
  <2>4. f[Append(path, x)] = Root(Append(path, x))
    BY <1>5
  <2> QED
    BY <2>1, <2>2, <2>3, <2>4
<1> QED
  BY <1>3, <1>5, <1>6

-----------------------------------------------------------------------------
(* The segments of a URL                                                   *)

\* What is added at the end of a sequence leaves its front alone.
LEMMA AppendParts ==
  ASSUME NEW T, NEW s \in Seq(T), NEW x \in T
  PROVE  Front(Append(s, x)) = s /\ Last(Append(s, x)) = x
<1> DEFINE a == Append(s, x)
<1>1. a \in Seq(T) /\ Len(s) \in Nat /\ Len(a) = Len(s) + 1 /\ a # <<>>
      /\ (\A k \in 1..Len(s) : a[k] = s[k]) /\ a[Len(s) + 1] = x
  BY AppendProperties
<1> HIDE DEF a
<1>2. /\ Front(a) \in Seq(T) /\ Len(Front(a)) = Len(s) /\ a = Append(Front(a), Last(a))
      /\ Last(a) \in T
  BY <1>1, FrontLast
<1>3. \A k \in 1..Len(s) : Front(a)[k] = s[k]
  BY <1>1, <1>2, AppendProperties
<1>4. Front(a) = s
  BY <1>2, <1>3, SeqEqual
<1>5. Last(a) = x
  BY <1>1 DEF Last
<1> QED
  BY <1>4, <1>5 DEF a

\* A URL that starts with a slash has at least two parts.
LEMMA PartsOfUrl ==
  ASSUME NEW u \in Seq(Chars), u # <<>>, u[1] = Slash
  PROVE  Len(Split(u, Slash)) >= 2
<1> DEFINE P == {s \in Seq(Chars) : s # <<>> /\ s[1] = Slash => Len(Split(s, Slash)) >= 2}
<1>1. <<>> \in P
  OBVIOUS
<1>2. ASSUME NEW s \in Seq(Chars), NEW x \in Chars, s \in P
      PROVE  Append(s, x) \in P
  <2> DEFINE p == Split(s, Slash)
             T == Seq(Chars \ {Slash})
  <2>1. p \in Seq(T) /\ p # <<>> /\ Split(Append(s, x), Slash) = SplitTurn(p, x, Slash)
        /\ SplitTurn(p, x, Slash) \in Seq(T)
    BY SplitIs, SplitTurnType DEF Parts
  <2>2. Append(s, x) \in Seq(Chars)
    BY AppendProperties
  <2>3. CASE s = <<>>
    <3> SUFFICES ASSUME x = Slash PROVE Len(Split(Append(s, x), Slash)) >= 2
      BY <2>2, <2>3
    <3>1. p = <<<<>>>>
      BY <2>3, SplitIs
    <3>2. SplitTurn(p, x, Slash) = Append(p, <<>>)
      BY DEF SplitTurn
    <3> QED
      BY <2>1, <3>1, <3>2
  <2>4. CASE s # <<>>
    <3>1. Append(s, x)[1] = s[1]
      BY <2>4
    <3> SUFFICES ASSUME s[1] = Slash PROVE Len(Split(Append(s, x), Slash)) >= 2
      BY <2>2, <3>1
    <3>2. Len(p) >= 2 /\ Len(p) \in Nat
      BY <1>2, <2>1, <2>4
    <3> HIDE DEF p, T
    <3>3. /\ Front(p) \in Seq(T) /\ Last(p) \in T /\ Len(Front(p)) = Len(p) - 1
      BY <2>1, FrontLast
    <3>4. Len(Append(p, <<>>)) = Len(p) + 1
      BY <2>1
    <3>5. Len(Append(Front(p), Append(Last(p), x))) = Len(p)
      BY <3>2, <3>3
    <3> QED
      BY <2>1, <3>2, <3>4, <3>5 DEF SplitTurn
  <2> QED
    BY <2>3, <2>4
<1> HIDE DEF P
<1>3. Seq(Chars) \subseteq P
  BY <1>1, <1>2, SequenceInduction
<1> QED
  BY <1>3 DEF P

\* The tail of a sequence, when it is longer than that.
LEMMA TailParts ==
  ASSUME NEW T, NEW s \in Seq(T), NEW x \in T
  PROVE  /\ s # <<>> => Tail(Append(s, x)) = Append(Tail(s), x)
         /\ Len(s) >= 2 => /\ Tail(s) \in Seq(T) /\ Tail(s) # <<>>
                           /\ Front(Tail(s)) = Tail(Front(s)) /\ Last(Tail(s)) = Last(s)
                           /\ Front(s) \in Seq(T) /\ Front(s) # <<>>
<1>1. s # <<>> => Tail(Append(s, x)) = Append(Tail(s), x)
  BY HeadTailAppend
<1>2. ASSUME Len(s) >= 2
      PROVE  /\ Tail(s) \in Seq(T) /\ Tail(s) # <<>>
             /\ Front(Tail(s)) = Tail(Front(s)) /\ Last(Tail(s)) = Last(s)
             /\ Front(s) \in Seq(T) /\ Front(s) # <<>>
  <2>1. /\ Front(s) \in Seq(T) /\ Last(s) \in T /\ Len(Front(s)) = Len(s) - 1
        /\ s = Append(Front(s), Last(s)) /\ Len(s) \in Nat
    BY <1>2, FrontLast
  <2>2. Front(s) # <<>>
    BY <1>2, <2>1
  <2>3. Tail(s) = Append(Tail(Front(s)), Last(s))
    BY <2>1, <2>2, HeadTailAppend
  <2>4. Tail(Front(s)) \in Seq(T)
    BY <2>1, <2>2
  <2> DEFINE f == Tail(Front(s))
             l == Last(s)
  <2>5. f \in Seq(T) /\ l \in T
    BY <2>1, <2>4
  <2>6. Tail(s) = Append(f, l)
    BY <2>3
  <2> HIDE DEF f, l
  <2>7. /\ Front(Append(f, l)) = f /\ Last(Append(f, l)) = l
        /\ Append(f, l) \in Seq(T) /\ Append(f, l) # <<>>
    BY <2>5, AppendParts, AppendProperties
  <2> QED
    BY <2>1, <2>2, <2>6, <2>7 DEF f, l
<1> QED
  BY <1>1, <1>2

\* The segments of a URL change with a character as its parts do.
LEMMA SegmentsIs ==
  ASSUME NEW u \in Seq(Chars), u # <<>>, u[1] = Slash
  PROVE  /\ Segments(u) \in Parts(Slash)
         /\ \A c \in Chars : Segments(Append(u, c)) = SplitTurn(Segments(u), c, Slash)
<1> DEFINE p == Split(u, Slash)
           T == Seq(Chars \ {Slash})
<1>1. p \in Seq(T) /\ Len(p) >= 2
  BY SplitIs, PartsOfUrl DEF Parts
<1>2. Segments(u) = Tail(p)
  BY DEF Segments
<1>3. <<>> \in T
  OBVIOUS
<1>4. ASSUME NEW c \in Chars
      PROVE  Segments(Append(u, c)) = SplitTurn(Segments(u), c, Slash)
  <2>1. Segments(Append(u, c)) = Tail(SplitTurn(p, c, Slash))
    BY SplitIs DEF Segments
  <2>2. CASE c = Slash
    <3> HIDE DEF p, T
    <3>1. Tail(Append(p, <<>>)) = Append(Tail(p), <<>>)
      BY <1>1, <1>3, TailParts
    <3> QED
      BY <1>2, <2>1, <2>2, <3>1 DEF SplitTurn
  <2>3. CASE c # Slash
    <3> DEFINE q == Append(Last(p), c)
    <3>1. Last(p) \in T
      <4> HIDE DEF p, T
      <4> QED
        BY <1>1, FrontLast
    <3>2. q \in T
      BY <2>3, <3>1
    <3> HIDE DEF p, q, T
    <3>3. Front(Tail(p)) = Tail(Front(p)) /\ Last(Tail(p)) = Last(p)
          /\ Front(p) \in Seq(T) /\ Front(p) # <<>>
      BY <1>1, <1>3, TailParts
    <3>4. Tail(Append(Front(p), q)) = Append(Tail(Front(p)), q)
      BY <3>2, <3>3, TailParts
    <3> QED
      BY <1>2, <2>1, <2>3, <3>3, <3>4 DEF SplitTurn, q
  <2> QED
    BY <2>2, <2>3
<1>5. Tail(p) \in Seq(T) /\ Tail(p) # <<>>
  <2> HIDE DEF p, T
  <2> QED
    BY <1>1, <1>3, TailParts
<1> QED
  BY <1>2, <1>4, <1>5 DEF Parts

\* Of a URL that is only a slash there is one segment, and it is empty.
LEMMA SegmentsOfRoot == Segments(<<Slash>>) = <<<<>>>>
<1>1. <<Slash>> = Append(<<>>, Slash) /\ <<>> \in Seq(Chars) /\ Slash \in Chars
  BY DEF Slash, Chars
<1>2. Split(<<Slash>>, Slash) = SplitTurn(<<<<>>>>, Slash, Slash)
  BY <1>1, SplitIs
<1>3. Split(<<Slash>>, Slash) = <<<<>>, <<>>>>
  BY <1>2 DEF SplitTurn
<1>4. \A a, b : Tail(<<a, b>>) = <<b>>
  OBVIOUS
<1> QED
  BY <1>3, <1>4 DEF Segments

-----------------------------------------------------------------------------
(* Plain URLs                                                              *)

\* What a segment of a plain URL may be.
IsPlainSegment(s) == IsDotSegment(s) \/ s = <<>> \/ s[1] # Dot

\* The state in which a segment leaves the machine.
StateAfter(s) == CASE s = <<>> -> "kSlash"
                   [] s = <<Dot>> -> "kDot"
                   [] s = <<Dot, Dot>> -> "kDoubleDot"
                   [] OTHER -> "kUsual"

\* What a segment that has not ended adds to the directory.
Pending(s) == IF IsDotSegment(s) THEN <<>> ELSE s

\* The text of a directory ends with a slash, which is the only one of the root.
LEMMA RootEnds ==
  ASSUME NEW path \in Seq(Seq(Chars))
  PROVE  Root(path) \in Seq(Chars) /\ Root(path) # <<>> /\ Last(Root(path)) = Slash
<1> DEFINE T == Seq(Chars)
           P == {p \in Seq(T) : Root(p) # <<>> /\ Last(Root(p)) = Slash}
<1>1. <<>> \in P
  <2>1. <<>> \in Seq(T) /\ <<Slash>> # <<>> /\ Last(<<Slash>>) = Slash
    BY DEF Last
  <2> QED
    BY <2>1, RootIs
<1>2. ASSUME NEW p \in Seq(T), NEW x \in T
      PROVE  Append(p, x) \in P
  <2> DEFINE r == Root(p) \o x
  <2>1. r \in Seq(Chars) /\ Slash \in Chars
    BY RootIs, ConcatProperties DEF Slash, Chars
  <2>2. Root(Append(p, x)) = r \o <<Slash>>
    BY RootIs DEF RootTurn
  <2> HIDE DEF r
  <2>3. r \o <<Slash>> = Append(r, Slash)
    BY <2>1, AppendIsConcat
  <2>4. Append(r, Slash) # <<>> /\ Last(Append(r, Slash)) = Slash
    BY <2>1, AppendProperties, AppendParts, SMTT(30)
  <2>5. Append(p, x) \in Seq(T)
    BY AppendProperties
  <2> QED
    BY <2>2, <2>3, <2>4, <2>5
<1> HIDE DEF P, T
<1>3. Seq(T) \subseteq P
  BY <1>1, <1>2, SequenceInduction
<1> QED
  BY <1>3, RootIs DEF P, T

\* Of a directory and a name in it that ends with a slash, the name is erased.
LEMMA EraseLast ==
  ASSUME NEW r \in Seq(Chars), r # <<>>, Last(r) = Slash, NEW n \in Names
  PROVE  EraseSegment((r \o n) \o <<Slash>>) = r
<1> DEFINE a == r \o n
           t == a \o <<Slash>>
<1>1. /\ Len(r) \in Nat \ {0} /\ Len(n) \in Nat \ {0} /\ n \in Seq(Chars)
      /\ \A i \in 1..Len(n) : n[i] # Slash
      /\ r[Len(r)] = Slash
  BY DEF Names, Letters, Last
<1>2. /\ a \in Seq(Chars) /\ Len(a) = Len(r) + Len(n)
      /\ \A i \in 1..Len(r) : a[i] = r[i]
      /\ \A i \in (Len(r) + 1)..(Len(r) + Len(n)) : a[i] = n[i - Len(r)]
  BY <1>1, ConcatProperties
<1> HIDE DEF a
<1>3. Slash \in Chars /\ t = Append(a, Slash)
  BY <1>2, AppendIsConcat DEF Slash, Chars
<1>4. /\ t \in Seq(Chars) /\ Len(t) = Len(a) + 1
      /\ \A i \in 1..Len(a) : t[i] = a[i]
  BY <1>2, <1>3, AppendProperties
<1> HIDE DEF t
<1> DEFINE last == IF Len(t) >= 2 THEN Len(t) - 1 ELSE Len(t)
           slashes == {i \in 1..last : t[i] = Slash}
<1>5. last = Len(r) + Len(n) /\ last \in Nat
  BY <1>1, <1>2, <1>4
<1> HIDE DEF last
<1>6. Len(r) \in slashes
  <2>1. Len(r) \in 1..last /\ Len(r) \in 1..Len(a) /\ Len(r) \in 1..Len(r)
    BY <1>1, <1>2, <1>5
  <2> QED
    BY <1>1, <1>2, <1>4, <2>1
<1>7. \A i \in slashes : i <= Len(r)
  <2> SUFFICES ASSUME NEW i \in 1..last, i > Len(r) PROVE t[i] # Slash
    BY <1>1, <1>5
  <2>1. i \in 1..Len(a) /\ i \in (Len(r) + 1)..(Len(r) + Len(n)) /\ i - Len(r) \in 1..Len(n)
    BY <1>1, <1>2, <1>5
  <2> QED
    BY <1>1, <1>2, <1>4, <2>1
<1>8. slashes # {} /\ slashes \in SUBSET (1..last)
  BY <1>6
<1>9. EraseSegment(t) = SubSeq(t, 1, IF slashes = {} THEN 0 ELSE Max(slashes))
  BY DEF EraseSegment, last
<1> HIDE DEF slashes
<1>10. PICK m \in slashes : (\A i \in slashes : i <= m) /\ Max(slashes) = m
  BY <1>5, <1>8, GreatestNumber
<1>11. m = Len(r)
  <2>1. m \in 1..last /\ m <= Len(r) /\ Len(r) <= m
    BY <1>6, <1>7, <1>8, <1>10
  <2> QED
    BY <1>1, <1>5, <2>1
<1>12. EraseSegment(t) = SubSeq(t, 1, Len(r))
  BY <1>8, <1>9, <1>10, <1>11
<1>13. SubSeq(t, 1, Len(r)) = r
  <2>1. \A i \in 1..Len(r) : t[i] = r[i] /\ i \in 1..Len(t)
    BY <1>1, <1>2, <1>4
  <2> DEFINE s == SubSeq(t, 1, Len(r))
  <2>2. s \in Seq(Chars) /\ Len(s) = Len(r) /\ \A i \in 1..Len(r) : s[i] = r[i]
    BY <1>1, <1>2, <1>4, <2>1
  <2> HIDE DEF s
  <2>3. s = r
    BY <2>2, SeqEqual
  <2> QED
    BY <2>3 DEF s
<1> QED
  BY <1>12, <1>13 DEF t, a

\* EraseSegment() goes up a directory, but not above the root.
LEMMA EraseIsUp ==
  ASSUME NEW path \in Seq(Names)
  PROVE  EraseSegment(Root(path)) = Root(WalkTurn(path, <<Dot, Dot>>))
<1>1. CASE path = <<>>
  <2>1. Root(path) = <<Slash>> /\ WalkTurn(path, <<Dot, Dot>>) = <<>>
    BY <1>1, RootIs DEF WalkTurn
  <2>2. EraseSegment(<<Slash>>) = <<Slash>>
    <3> DEFINE t == <<Slash>>
               slashes == {i \in 1..1 : t[i] = Slash}
    <3>1. Len(t) = 1 /\ t[1] = Slash /\ SubSeq(t, 1, 1) = t
      <4>1. Len(t) = 1 /\ t[1] = Slash /\ t \in Seq({Slash})
        OBVIOUS
      <4> HIDE DEF t
      <4> QED
        BY <4>1, SubSeqFull
    <3>2. slashes \in SUBSET (1..1) /\ slashes # {}
      OBVIOUS
    <3> HIDE DEF t
    <3>3. EraseSegment(t) = SubSeq(t, 1, IF slashes = {} THEN 0 ELSE Max(slashes))
      BY <3>1 DEF EraseSegment
    <3> HIDE DEF slashes
    <3>4. PICK m \in slashes : Max(slashes) = m
      BY <3>2, GreatestNumber
    <3>5. m = 1
      BY <3>2
    <3> QED
      BY <3>1, <3>2, <3>3, <3>4, <3>5 DEF t
  <2> QED
    BY <2>1, <2>2, RootIs
<1>2. CASE path # <<>>
  <2> DEFINE p == Front(path)
             n == Last(path)
  <2>1. p \in Seq(Names) /\ n \in Names /\ path = Append(p, n)
    BY <1>2, FrontLast
  <2> HIDE DEF p, n
  <2>2. p \in Seq(Seq(Chars)) /\ n \in Seq(Chars)
    <3>1. Names \subseteq Seq(Chars)
      BY DEF Names, Letters
    <3> QED
      BY <2>1, <3>1, SeqMonotonic
  <2>3. Root(path) = (Root(p) \o n) \o <<Slash>>
    BY <2>1, <2>2, RootIs DEF RootTurn
  <2>4. Root(p) \in Seq(Chars) /\ Root(p) # <<>> /\ Last(Root(p)) = Slash
    BY <2>2, RootEnds
  <2>5. EraseSegment(Root(path)) = Root(p)
    BY <2>1, <2>3, <2>4, EraseLast
  <2>6. WalkTurn(path, <<Dot, Dot>>) = p
    BY <1>2 DEF WalkTurn, p
  <2> QED
    BY <2>5, <2>6
<1> QED
  BY <1>1, <1>2

\* A segment and one character more.
LEMMA SegmentGrows ==
  ASSUME NEW l \in Seq(Letters), NEW c \in Letters
  PROVE  /\ Append(l, c) \in Seq(Letters) /\ Append(l, c) # <<>>
         /\ Append(l, c) = <<Dot>> <=> l = <<>> /\ c = Dot
         /\ Append(l, c) = <<Dot, Dot>> <=> l = <<Dot>> /\ c = Dot
         /\ IsPlainSegment(Append(l, c)) =>
              /\ IsPlainSegment(l) /\ l # <<Dot, Dot>> /\ (l = <<Dot>> => c = Dot)
<1> DEFINE a == Append(l, c)
<1>1. /\ a \in Seq(Letters) /\ a # <<>> /\ Len(l) \in Nat /\ Len(a) = Len(l) + 1
      /\ (\A i \in 1..Len(l) : a[i] = l[i]) /\ a[Len(l) + 1] = c
  BY AppendProperties
<1>2. Len(<<Dot>>) = 1 /\ <<Dot>>[1] = Dot
  OBVIOUS
<1>3. Len(<<Dot, Dot>>) = 2 /\ <<Dot, Dot>>[1] = Dot /\ <<Dot, Dot>>[2] = Dot
  OBVIOUS
<1>4. a = <<Dot>> <=> l = <<>> /\ c = Dot
  <2>1. l = <<>> /\ c = Dot => a = <<Dot>>
    OBVIOUS
  <2> HIDE DEF a
  <2>2. a = <<Dot>> => l = <<>> /\ c = Dot
    <3> SUFFICES ASSUME a = <<Dot>> PROVE l = <<>> /\ c = Dot
      OBVIOUS
    <3>1. Len(a) = 1 /\ a[1] = Dot
      BY <1>2
    <3>2. Len(l) = 0
      BY <1>1, <3>1
    <3> QED
      BY <1>1, <3>1, <3>2
  <2> QED
    BY <2>1, <2>2
<1>5. a = <<Dot, Dot>> <=> l = <<Dot>> /\ c = Dot
  <2>1. l = <<Dot>> /\ c = Dot => a = <<Dot, Dot>>
    <3>1. ASSUME NEW x
          PROVE  <<x, x>> = Append(<<x>>, x)
      OBVIOUS
    <3> QED
      BY <3>1
  <2> HIDE DEF a
  <2>2. a = <<Dot, Dot>> => l = <<Dot>> /\ c = Dot
    <3> SUFFICES ASSUME a = <<Dot, Dot>> PROVE l = <<Dot>> /\ c = Dot
      OBVIOUS
    <3>1. Len(a) = 2 /\ a[1] = Dot /\ a[2] = Dot
      BY <1>3
    <3>2. Len(l) = 1
      <4>1. \A n \in Nat : n + 1 = 2 => n = 1
        OBVIOUS
      <4> QED
        BY <1>1, <3>1, <4>1, Zenon
    <3>3. l[1] = Dot /\ c = Dot
      BY <1>1, <3>1, <3>2
    <3> QED
      BY <3>2, <3>3
  <2> QED
    BY <2>1, <2>2
<1> HIDE DEF a
<1>6. ASSUME IsPlainSegment(a)
      PROVE  IsPlainSegment(l) /\ l # <<Dot, Dot>> /\ (l = <<Dot>> => c = Dot)
  <2>1. CASE IsDotSegment(a)
    <3>1. l = <<>> \/ (l = <<Dot>> /\ c = Dot)
      BY <1>4, <1>5, <2>1 DEF IsDotSegment
    <3>2. <<Dot>> # <<Dot, Dot>> /\ <<>> # <<Dot, Dot>> /\ <<>> # <<Dot>>
      BY <1>2, <1>3
    <3> QED
      BY <3>1, <3>2 DEF IsPlainSegment, IsDotSegment
  <2>2. CASE a[1] # Dot
    <3>1. l # <<>> => l[1] # Dot
      <4> SUFFICES ASSUME l # <<>> PROVE l[1] # Dot
        OBVIOUS
      <4>1. 1 \in 1..Len(l)
        BY <1>1
      <4> QED
        BY <1>1, <2>2, <4>1
    <3>2. <<Dot>> # <<>> /\ <<Dot, Dot>> # <<>>
      BY <1>2, <1>3
    <3> QED
      BY <1>2, <1>3, <3>1, <3>2 DEF IsPlainSegment
  <2> QED
    BY <1>1, <1>6, <2>1, <2>2 DEF IsPlainSegment
<1> QED
  BY <1>1, <1>4, <1>5, <1>6 DEF a

\* What starts a plain URL is plain.
LEMMA PlainStarts ==
  ASSUME NEW u \in Seq(Chars), u # <<>>, NEW c \in Chars, IsPlain(Append(u, c))
  PROVE  /\ IsPlain(u) /\ u[1] = Slash /\ c # Percent
         /\ c # Slash => IsPlainSegment(Append(Last(Segments(u)), c))
<1> DEFINE v == Append(u, c)
           s == Segments(u)
           t == Segments(v)
<1>1. /\ v \in Seq(Chars) /\ v # <<>> /\ v[1] = u[1] /\ v[Len(u) + 1] = c
      /\ Len(u) \in Nat /\ Len(v) = Len(u) + 1 /\ \A i \in 1..Len(u) : v[i] = u[i]
  BY AppendProperties
<1>2. v[1] = Slash /\ Percent \notin Range(v) /\ \A i \in DOMAIN t : IsPlainSegment(t[i])
  BY DEF IsPlain, IsPlainSegment
<1>3. t = SplitTurn(s, c, Slash) /\ s \in Seq(Seq(Letters)) /\ s # <<>>
  BY <1>1, <1>2, SegmentsIs DEF Parts, Letters
<1> HIDE DEF v, s, t
<1>4. Percent \notin Range(u) /\ c # Percent
  <2>1. \A i \in DOMAIN v : v[i] # Percent
    BY <1>2 DEF Range
  <2>2. DOMAIN v = 1..(Len(u) + 1) /\ DOMAIN u = 1..Len(u)
    BY <1>1
  <2>3. \A i \in 1..Len(u) : u[i] # Percent
    BY <1>1, <2>1, <2>2
  <2>4. c # Percent
    BY <1>1, <2>1, <2>2
  <2> QED
    BY <2>2, <2>3, <2>4 DEF Range
<1>5. CASE c = Slash
  <2>1. t = Append(s, <<>>) /\ <<>> \in Seq(Letters)
    BY <1>3, <1>5 DEF SplitTurn
  <2>2. DOMAIN s \subseteq DOMAIN t /\ \A i \in DOMAIN s : t[i] = s[i]
    BY <1>3, <2>1
  <2>3. \A i \in DOMAIN s : IsPlainSegment(s[i])
    BY <1>2, <2>2
  <2>4. IsPlain(u)
    BY <1>1, <1>2, <1>4, <2>3 DEF IsPlain, IsPlainSegment, s
  <2> QED
    BY <1>1, <1>2, <1>4, <1>5, <2>4
<1>6. CASE c # Slash
  <2> DEFINE f == Front(s)
             l == Last(s)
             q == Append(l, c)
  <2>1. /\ f \in Seq(Seq(Letters)) /\ l \in Seq(Letters) /\ Len(f) = Len(s) - 1
        /\ s = Append(f, l) /\ Len(s) \in Nat \ {0}
    BY <1>3, FrontLast
  <2>2. c \in Letters
    BY <1>6 DEF Letters
  <2>3. t = Append(f, q)
    BY <1>3, <1>6 DEF SplitTurn
  <2> HIDE DEF f, l
  <2>4. q \in Seq(Letters)
    BY <2>1, <2>2, SegmentGrows
  <2> HIDE DEF q
  <2>5. /\ DOMAIN t = 1..Len(s) /\ DOMAIN s = 1..Len(s)
        /\ t[Len(s)] = q /\ s[Len(s)] = l
        /\ \A i \in 1..(Len(s) - 1) : t[i] = f[i] /\ s[i] = f[i]
    <3>1. /\ Len(Append(f, q)) = Len(f) + 1 /\ Append(f, q)[Len(f) + 1] = q
          /\ Append(f, q) \in Seq(Seq(Letters))
          /\ \A i \in 1..Len(f) : Append(f, q)[i] = f[i]
      BY <2>1, <2>4, AppendProperties
    <3>2. /\ Append(f, l)[Len(f) + 1] = l
          /\ \A i \in 1..Len(f) : Append(f, l)[i] = f[i]
      BY <2>1, AppendProperties
    <3>3. Len(f) + 1 = Len(s)
      BY <2>1
    <3>4. t[Len(s)] = q /\ s[Len(s)] = l /\ \A i \in 1..(Len(s) - 1) : t[i] = f[i] /\ s[i] = f[i]
      BY <2>1, <2>3, <3>1, <3>2, <3>3
    <3>5. DOMAIN t = 1..Len(s) /\ DOMAIN s = 1..Len(s)
      BY <1>3, <2>3, <3>1, <3>3
    <3> QED
      BY <3>4, <3>5
  <2>6. IsPlainSegment(q)
    BY <1>2, <2>1, <2>5
  <2>7. IsPlainSegment(l)
    BY <2>1, <2>2, <2>6, SegmentGrows DEF q
  <2>8. \A i \in DOMAIN s : IsPlainSegment(s[i])
    <3> TAKE i \in DOMAIN s
    <3>1. CASE i = Len(s)
      BY <2>5, <2>7, <3>1
    <3>2. CASE i \in 1..(Len(s) - 1)
      <4>1. i \in DOMAIN t /\ t[i] = s[i]
        BY <2>1, <2>5, <3>2
      <4> QED
        BY <1>2, <4>1
    <3> QED
      BY <2>1, <2>5, <3>1, <3>2
  <2>9. IsPlain(u)
    BY <1>1, <1>2, <1>4, <2>8 DEF IsPlain, IsPlainSegment, s
  <2> QED
    BY <1>1, <1>2, <1>4, <2>6, <2>9 DEF q, l, s
<1> QED
  BY <1>5, <1>6

-----------------------------------------------------------------------------
(* The machine resolves a plain URL                                        *)

\* Having read a plain URL, the machine has resolved it, and its state is that of the
\* last segment.
Agrees(u) == /\ Run(u).ok
             /\ Run(u).state = StateAfter(Last(Segments(u)))
             /\ Run(u).url = Resolved(u)

\* A URL is resolved to a directory and what its last segment adds.
LEMMA ResolvedIs ==
  ASSUME NEW u, NEW f, NEW l, Front(Segments(u)) = f, Last(Segments(u)) = l
  PROVE  Resolved(u) = Root(Walk(f)) \o Pending(l)
  BY Zenon DEF Resolved, Join, Root, Pending

\* The slash alone is resolved.
LEMMA AgreesAtFirst == Agrees(<<Slash>>)
<1>1. <<Slash>> = Append(<<>>, Slash) /\ <<>> \in Seq(Chars) /\ Slash \in Chars
  BY DEF Slash, Chars
<1>2. Run(<<Slash>>) = Feed(Machine0, Slash)
  BY <1>1, RunIs
<1>3. Feed(Machine0, Slash) = FeedPlain(Machine0, Slash)
  BY DEF Feed, Machine0, Slash, Percent
<1>4. /\ FeedPlain(Machine0, Slash).ok /\ FeedPlain(Machine0, Slash).state = "kSlash"
      /\ FeedPlain(Machine0, Slash).url = Append(<<>>, Slash)
  BY DEF FeedPlain, Machine0, Target, Copies, Slash
<1>5. Front(<<<<>>>>) = <<>> /\ Last(<<<<>>>>) = <<>>
  <2>1. Len(<<<<>>>>) = 1 /\ <<<<>>>>[1] = <<>>
    OBVIOUS
  <2>2. SubSeq(<<<<>>>>, 1, 0) = <<>>
    BY SubSeqEmpty
  <2> QED
    BY <2>1, <2>2 DEF Front, Last
<1>6. Front(Segments(<<Slash>>)) = <<>> /\ Last(Segments(<<Slash>>)) = <<>>
  BY <1>5, SegmentsOfRoot
<1>7. Resolved(<<Slash>>) = Root(Walk(<<>>)) \o Pending(<<>>)
  BY <1>6, ResolvedIs
<1>8. Walk(<<>>) = <<>> /\ Root(<<>>) = <<Slash>>
  BY WalkIs, RootIs
<1>9. Pending(<<>>) = <<>>
  BY DEF Pending
<1>10. Resolved(<<Slash>>) = <<Slash>>
  <2>1. <<Slash>> \in Seq({Slash})
    OBVIOUS
  <2>2. <<Slash>> \o <<>> = <<Slash>>
    BY <2>1, ConcatEmptySeq
  <2> QED
    BY <1>7, <1>8, <1>9, <2>2
<1> QED
  BY <1>1, <1>2, <1>3, <1>4, <1>6, <1>10, SMTT(30) DEF Agrees, StateAfter

\* A turn outside an escape changes the state and the URL, no more that matters here.
LEMMA FeedPlainIs ==
  ASSUME NEW m \in Machines, NEW c \in Chars
  PROVE  /\ FeedPlain(m, c).ok = m.ok /\ FeedPlain(m, c).state = Target(m.state, c)
         /\ FeedPlain(m, c).url = IF m.state = "kDoubleDot" /\ c = Slash THEN EraseSegment(m.url)
                                  ELSE IF Copies(m.state, c) THEN Append(m.url, c) ELSE m.url
<1> DEFINE s == Target(m.state, c)
           q == m.question \/ (m.state = "kUsual" /\ c = Question)
           x == IF m.state = "kDoubleDot" /\ c = Slash THEN EraseSegment(m.url)
                ELSE IF Copies(m.state, c) THEN Append(m.url, c) ELSE m.url
<1>1. FeedPlain(m, c) = [m EXCEPT !.state = s, !.question = q, !.url = x]
  BY DEF FeedPlain
<1> HIDE DEF s, q, x
<1>2. FeedPlain(m, c).ok = m.ok /\ FeedPlain(m, c).state = s /\ FeedPlain(m, c).url = x
  BY <1>1 DEF Machines
<1> QED
  BY <1>2 DEF s, x

\* A slash ends a segment: the name is kept, dropped, or the one before it is taken back.
LEMMA AgreesAtSlash ==
  ASSUME NEW u \in Seq(Chars), u # <<>>, u[1] = Slash, Agrees(u),
         IsPlainSegment(Last(Segments(u)))
  PROVE  Agrees(Append(u, Slash))
<1> DEFINE s == Segments(u)
           f == Front(s)
           l == Last(s)
           w == Walk(f)
           r == Root(w)
           m == Run(u)
           v == Append(u, Slash)
<1>1. /\ s \in Seq(Seq(Letters)) /\ s # <<>> /\ Slash \in Chars
      /\ Segments(v) = SplitTurn(s, Slash, Slash)
  BY SegmentsIs DEF Parts, Letters, Slash, Chars
<1> HIDE DEF s
<1>2. /\ f \in Seq(Seq(Letters)) /\ l \in Seq(Letters) /\ s = Append(f, l)
  BY <1>1, FrontLast
<1>3. Front(Segments(v)) = s /\ Last(Segments(v)) = <<>>
  <2>1. Segments(v) = Append(s, <<>>) /\ <<>> \in Seq(Letters)
    BY <1>1 DEF SplitTurn
  <2> QED
    BY <1>1, <2>1, AppendParts
<1>4. m \in Machines /\ Run(v) = Feed(m, Slash)
  BY <1>1, RunIs
<1>5. m.ok /\ m.state = StateAfter(l) /\ m.url = r \o Pending(l)
  BY ResolvedIs DEF Agrees, s
<1> HIDE DEF m, f, l, v
<1>6. w \in Seq(Names) /\ Walk(s) = WalkTurn(w, l)
  BY <1>2, WalkIs
<1>7. w \in Seq(Seq(Chars)) /\ r \in Seq(Chars)
  <2>1. Names \subseteq Seq(Chars)
    BY DEF Names, Letters
  <2> QED
    BY <1>6, <2>1, SeqMonotonic, RootEnds
<1> HIDE DEF w
<1>8. Resolved(v) = Root(Walk(s)) \o <<>>
  <2>1. Resolved(v) = Root(Walk(s)) \o Pending(<<>>)
    BY <1>3, ResolvedIs
  <2>2. Pending(<<>>) = <<>>
    BY DEF Pending
  <2> QED
    BY <2>1, <2>2
<1>9. Root(WalkTurn(w, l)) \in Seq(Chars)
  <2>1. WalkTurn(w, l) \in Seq(Names)
    BY <1>2, <1>6, WalkTurnType
  <2>2. Names \subseteq Seq(Chars)
    BY DEF Names, Letters
  <2>3. WalkTurn(w, l) \in Seq(Seq(Chars))
    BY <2>1, <2>2, SeqMonotonic
  <2> QED
    BY <2>3, RootEnds
<1>10. Resolved(v) = Root(WalkTurn(w, l))
  BY <1>6, <1>8, <1>9, ConcatEmptySeq
<1>11. Run(v) = FeedPlain(m, Slash)
  BY <1>4, <1>5 DEF Feed, StateAfter, Slash, Percent
<1>12. FeedPlain(m, Slash).ok /\ FeedPlain(m, Slash).state = "kSlash"
  <2>1. Target(m.state, Slash) = "kSlash"
    BY DEF Target, Slash, Dot
  <2> QED
    BY <1>1, <1>4, <1>5, <2>1, FeedPlainIs
<1>13. FeedPlain(m, Slash).url =
         IF m.state = "kDoubleDot" THEN EraseSegment(m.url)
         ELSE IF m.state = "kUsual" THEN Append(m.url, Slash) ELSE m.url
  BY <1>1, <1>4, FeedPlainIs DEF Target, Copies
<1>14. FeedPlain(m, Slash).url = Root(WalkTurn(w, l))
  <2>1. r \o <<>> = r
    BY <1>7, ConcatEmptySeq
  <2>2. <<Dot>> # <<>> /\ <<Dot>> # <<Dot, Dot>> /\ <<Dot, Dot>> # <<>>
    OBVIOUS
  <2>3. CASE l = <<>> \/ l = <<Dot>>
    <3>1. m.state \in {"kSlash", "kDot"} /\ Pending(l) = <<>> /\ WalkTurn(w, l) = w
      BY <1>5, <2>2, <2>3 DEF StateAfter, Pending, IsDotSegment, WalkTurn
    <3> QED
      BY <1>5, <1>13, <2>1, <3>1
  <2>4. CASE l = <<Dot, Dot>>
    <3>1. m.state = "kDoubleDot" /\ Pending(l) = <<>>
      BY <1>5, <2>2, <2>4 DEF StateAfter, Pending, IsDotSegment
    <3>2. EraseSegment(r) = Root(WalkTurn(w, l))
      BY <1>6, <2>4, EraseIsUp
    <3> QED
      BY <1>5, <1>13, <2>1, <3>1, <3>2
  <2>5. CASE l \notin {<<>>, <<Dot>>, <<Dot, Dot>>}
    <3>1. m.state = "kUsual" /\ Pending(l) = l /\ WalkTurn(w, l) = Append(w, l)
      BY <1>5, <2>5 DEF StateAfter, Pending, IsDotSegment, WalkTurn
    <3>2. l \in Seq(Chars) /\ r \o l \in Seq(Chars)
      BY <1>2, <1>7, ConcatProperties DEF Letters
    <3>3. Append(r \o l, Slash) = (r \o l) \o <<Slash>>
      BY <1>1, <3>2, AppendIsConcat
    <3>4. Root(Append(w, l)) = (r \o l) \o <<Slash>>
      BY <1>7, <3>2, RootIs DEF RootTurn
    <3> QED
      BY <1>5, <1>13, <3>1, <3>3, <3>4
  <2> QED
    BY <2>3, <2>4, <2>5
<1> QED
  BY <1>3, <1>10, <1>11, <1>12, <1>14 DEF Agrees, StateAfter, v

\* Any other character makes the last segment longer.
LEMMA AgreesInSegment ==
  ASSUME NEW u \in Seq(Chars), u # <<>>, u[1] = Slash, Agrees(u),
         NEW c \in Chars, c # Slash, c # Percent, IsPlainSegment(Append(Last(Segments(u)), c))
  PROVE  Agrees(Append(u, c))
<1> DEFINE s == Segments(u)
           f == Front(s)
           l == Last(s)
           r == Root(Walk(f))
           m == Run(u)
           v == Append(u, c)
           q == Append(l, c)
<1>1. /\ s \in Seq(Seq(Letters)) /\ s # <<>> /\ c \in Letters
      /\ Segments(v) = SplitTurn(s, c, Slash)
  BY SegmentsIs DEF Parts, Letters
<1> HIDE DEF s
<1>2. /\ f \in Seq(Seq(Letters)) /\ l \in Seq(Letters)
  BY <1>1, FrontLast
<1>3. IsPlainSegment(q)
  BY DEF s
<1> HIDE DEF l
<1>4. /\ q \in Seq(Letters) /\ q # <<>>
      /\ q = <<Dot>> <=> l = <<>> /\ c = Dot
      /\ q = <<Dot, Dot>> <=> l = <<Dot>> /\ c = Dot
      /\ l # <<Dot, Dot>> /\ (l = <<Dot>> => c = Dot)
  BY <1>1, <1>2, <1>3, SegmentGrows
<1> HIDE DEF q
<1>5. Front(Segments(v)) = f /\ Last(Segments(v)) = q
  <2>1. Segments(v) = Append(f, q)
    BY <1>1 DEF SplitTurn, l, q
  <2> HIDE DEF f
  <2> QED
    BY <1>2, <1>4, <2>1, AppendParts
<1>6. m \in Machines /\ Run(v) = Feed(m, c)
  BY RunIs
<1>7. m.ok /\ m.state = StateAfter(l) /\ m.url = r \o Pending(l)
  BY ResolvedIs DEF Agrees, s, l
<1>8. Resolved(v) = r \o Pending(q)
  BY <1>5, ResolvedIs
<1> HIDE DEF m, f, v
<1>9. r \in Seq(Chars) /\ l \in Seq(Chars)
  <2>1. Walk(f) \in Seq(Names)
    BY <1>2, WalkIs
  <2>2. Names \subseteq Seq(Chars) /\ Letters \subseteq Chars
    BY DEF Names, Letters
  <2>3. Walk(f) \in Seq(Seq(Chars))
    BY <2>1, <2>2, SeqMonotonic
  <2> QED
    BY <1>2, <2>2, <2>3, RootEnds, SeqMonotonic
<1> HIDE DEF r
<1>10. Run(v) = FeedPlain(m, c)
  BY <1>6, <1>7 DEF Feed, StateAfter
<1>11. /\ FeedPlain(m, c).ok /\ FeedPlain(m, c).state = Target(m.state, c)
       /\ FeedPlain(m, c).url = IF Copies(m.state, c) THEN Append(m.url, c) ELSE m.url
  BY <1>6, <1>7, FeedPlainIs
<1>12. <<Dot>> # <<>> /\ <<Dot>> # <<Dot, Dot>> /\ <<Dot, Dot>> # <<>>
  OBVIOUS
<1>13. r \o <<>> = r
  BY <1>9, ConcatEmptySeq
<1>14. FeedPlain(m, c).state = StateAfter(q) /\ FeedPlain(m, c).url = r \o Pending(q)
  <2>1. CASE c = Dot /\ l \in {<<>>, <<Dot>>}
    <3>1. m.state \in {"kSlash", "kDot"} /\ m.url = r /\ m.state = StateAfter(l)
      BY <1>7, <1>12, <1>13, <2>1 DEF StateAfter, Pending, IsDotSegment
    <3>2. Pending(q) = <<>> /\ StateAfter(q) = IF l = <<>> THEN "kDot" ELSE "kDoubleDot"
      BY <1>4, <1>12, <2>1 DEF Pending, IsDotSegment, StateAfter
    <3>3. Target(m.state, c) = StateAfter(q) /\ ~Copies(m.state, c)
      BY <1>12, <2>1, <3>1, <3>2 DEF Target, StateAfter, Copies, Dot, Slash
    <3> QED
      BY <1>11, <1>13, <3>1, <3>2, <3>3
  <2>2. CASE ~(c = Dot /\ l \in {<<>>, <<Dot>>})
    <3>1. m.state \in {"kSlash", "kUsual"} /\ Pending(l) = l /\ (m.state = "kSlash" => c # Dot)
      BY <1>4, <1>7, <1>12, <2>2 DEF StateAfter, Pending, IsDotSegment
    <3>2. Pending(q) = q /\ StateAfter(q) = "kUsual"
      BY <1>4, <2>2 DEF Pending, IsDotSegment, StateAfter
    <3>3. Target(m.state, c) = "kUsual" /\ Copies(m.state, c)
      BY <3>1 DEF Target, Copies
    <3>4. Append(r \o l, c) = r \o q
      <4>1. r \o l \in Seq(Chars) /\ <<c>> \in Seq(Chars)
        BY <1>9, ConcatProperties
      <4>2. Append(r \o l, c) = (r \o l) \o <<c>>
        BY <4>1, AppendIsConcat
      <4>3. q = l \o <<c>>
        BY <1>9, AppendIsConcat DEF q
      <4> QED
        BY <1>9, <4>1, <4>2, <4>3, ConcatAssociative, SMTT(30)
    <3> QED
      BY <1>7, <1>11, <3>1, <3>2, <3>3, <3>4
  <2> QED
    BY <2>1, <2>2
<1> QED
  BY <1>5, <1>8, <1>10, <1>11, <1>14 DEF Agrees, v

\* Of a plain URL of any length the machine makes what its segments stand for: empty
\* and "." segments are gone, ".." is resolved, never above the root, in one pass.
THEOREM PlainIsResolved ==
  ASSUME NEW url \in Seq(Chars), IsPlain(url)
  PROVE  Run(url).ok /\ Run(url).url = Resolved(url)
<1> DEFINE P == {u \in Seq(Chars) : u # <<>> /\ IsPlain(u) => Agrees(u)}
<1>1. <<>> \in P
  OBVIOUS
<1>2. ASSUME NEW u \in Seq(Chars), NEW c \in Chars, u \in P
      PROVE  Append(u, c) \in P
  <2>1. Append(u, c) \in Seq(Chars)
    BY AppendProperties
  <2> SUFFICES ASSUME IsPlain(Append(u, c)) PROVE Agrees(Append(u, c))
    BY <2>1
  <2>2. CASE u = <<>>
    <3>1. Append(u, c) = <<c>> /\ <<c>>[1] = c
      BY <2>2
    <3>2. c = Slash
      BY <3>1 DEF IsPlain
    <3> QED
      BY <3>1, <3>2, AgreesAtFirst
  <2>3. CASE u # <<>>
    <3>1. /\ IsPlain(u) /\ u[1] = Slash /\ c # Percent
          /\ c # Slash => IsPlainSegment(Append(Last(Segments(u)), c))
      BY <2>3, PlainStarts
    <3>2. Agrees(u)
      BY <1>2, <2>3, <3>1
    <3>3. CASE c # Slash
      BY <2>3, <3>1, <3>2, <3>3, AgreesInSegment
    <3>4. CASE c = Slash
      <4>1. Segments(u) \in Seq(Seq(Letters)) /\ Segments(u) # <<>>
        BY <2>3, <3>1, SegmentsIs DEF Parts, Letters
      <4>2. Len(Segments(u)) \in DOMAIN Segments(u)
        BY <4>1
      <4>3. IsPlainSegment(Last(Segments(u)))
        BY <3>1, <4>2 DEF IsPlain, IsPlainSegment, Last
      <4> QED
        BY <2>3, <3>1, <3>2, <3>4, <4>3, AgreesAtSlash
    <3> QED
      BY <3>3, <3>4
  <2> QED
    BY <2>2, <2>3
<1> HIDE DEF P
<1>3. Seq(Chars) \subseteq P
  BY <1>1, <1>2, SequenceInduction
<1>4. url # <<>>
  BY DEF IsPlain
<1> QED
  BY <1>3, <1>4 DEF P, Agrees

-----------------------------------------------------------------------------
(* The result is normal                                                    *)

\* A URL starts with a slash and has no two in a row.
IsNormal(url) == url # <<>> /\ url[1] = Slash /\ NoTwoSlashes(url)

\* In kUsual, or in an escape that was met there, the URL does not end with a slash.
KeepsNormal(m) ==
  /\ IsNormal(m.url)
  /\ m.state = "kUsual" \/ (m.state \notin Places /\ m.trap = "kUsual") => Last(m.url) # Slash
  /\ m.state = "kPersentSecond" => m.digit \in 0..9

\* A slash may follow anything else, and anything else a slash.
LEMMA NormalGrows ==
  ASSUME NEW u \in Seq(Chars), IsNormal(u), NEW c \in Chars, c # Slash \/ Last(u) # Slash
  PROVE  IsNormal(Append(u, c)) /\ Last(Append(u, c)) = c
<1> DEFINE a == Append(u, c)
<1>1. /\ a \in Seq(Chars) /\ Len(u) \in Nat \ {0} /\ Len(a) = Len(u) + 1 /\ a # <<>>
      /\ (\A k \in 1..Len(u) : a[k] = u[k]) /\ a[Len(u) + 1] = c
  BY AppendProperties DEF IsNormal, NoTwoSlashes
<1> HIDE DEF a
<1>2. a[1] = Slash
  BY <1>1 DEF IsNormal, NoTwoSlashes
<1>3. ASSUME NEW i \in 1..(Len(a) - 1)
      PROVE  ~(a[i] = Slash /\ a[i + 1] = Slash)
  <2>1. CASE i = Len(u)
    BY <1>1, <2>1 DEF Last
  <2>2. CASE i \in 1..(Len(u) - 1)
    <3>1. i \in 1..Len(u) /\ i + 1 \in 1..Len(u)
      BY <1>1, <2>2
    <3> QED
      BY <1>1, <2>2, <3>1 DEF IsNormal, NoTwoSlashes
  <2> QED
    BY <1>1, <1>3, <2>1, <2>2
<1>4. Last(a) = c
  BY <1>1 DEF Last
<1> QED
  BY <1>1, <1>2, <1>3, <1>4 DEF IsNormal, NoTwoSlashes, a

\* What EraseSegment() leaves of a normal URL is normal.
LEMMA NormalErased ==
  ASSUME NEW u \in Seq(Chars), IsNormal(u)
  PROVE  IsNormal(EraseSegment(u))
<1> DEFINE last == IF Len(u) >= 2 THEN Len(u) - 1 ELSE Len(u)
           slashes == {i \in 1..last : u[i] = Slash}
<1>1. Len(u) \in Nat \ {0}
  BY DEF IsNormal, NoTwoSlashes
<1>2. last \in 1..Len(u) /\ last \in Nat
  BY <1>1
<1> HIDE DEF last
<1>3. EraseSegment(u) = SubSeq(u, 1, IF slashes = {} THEN 0 ELSE Max(slashes))
  BY DEF EraseSegment, last
<1>4. 1 \in slashes /\ slashes \in SUBSET (1..last)
  BY <1>1, <1>2 DEF IsNormal, NoTwoSlashes
<1> HIDE DEF slashes
<1>5. PICK m \in slashes : Max(slashes) = m
  BY <1>2, <1>4, GreatestNumber
<1> DEFINE e == SubSeq(u, 1, m)
<1>6. m \in 1..Len(u) /\ EraseSegment(u) = e
  BY <1>1, <1>2, <1>3, <1>4, <1>5
<1>7. e \in Seq(Chars) /\ Len(e) = m /\ \A i \in 1..m : e[i] = u[i]
  BY <1>1, <1>6
<1> HIDE DEF e
<1>8. e # <<>> /\ e[1] = Slash
  BY <1>6, <1>7 DEF IsNormal, NoTwoSlashes
<1>9. ASSUME NEW i \in 1..(Len(e) - 1)
      PROVE  ~(e[i] = Slash /\ e[i + 1] = Slash)
  <2>1. i \in 1..m /\ i + 1 \in 1..m /\ i \in 1..(Len(u) - 1)
    BY <1>1, <1>6, <1>7
  <2> QED
    BY <1>7, <2>1 DEF IsNormal, NoTwoSlashes
<1> QED
  BY <1>6, <1>8, <1>9 DEF IsNormal, NoTwoSlashes

\* Two digits are not the code of a slash.
LEMMA CodeIs ==
  ASSUME NEW c \in Chars, IsDigit(c), NEW d \in 0..9
  PROVE  /\ DigitValue(c) % 256 \in 0..9
         /\ (d * 16 + DigitValue(c)) % 256 \in Chars
         /\ (d * 16 + DigitValue(c)) % 256 # Slash
<1>1. DigitValue(c) \in 0..9
  BY DEF DigitValue, IsDigit, Chars
<1>2. \A n \in 0..255 : n % 256 = n
  OBVIOUS
<1> DEFINE v == DigitValue(c)
           n == d * 16 + v
<1>3. v \in 0..9
  BY <1>1
<1> HIDE DEF v
<1>4. n \in 0..255 /\ n # 47 /\ v \in 0..255
  BY <1>3
<1> HIDE DEF n
<1>5. v % 256 = v /\ n % 256 = n
  BY <1>2, <1>4
<1>6. v % 256 \in 0..9 /\ n % 256 \in Chars /\ n % 256 # Slash
  BY <1>3, <1>4, <1>5 DEF Chars, Slash
<1> QED
  BY <1>6 DEF v, n

\* Every turn keeps the URL normal.
LEMMA FeedKeepsNormal ==
  ASSUME NEW m \in Machines, KeepsNormal(m), NEW c \in Chars, IsPercentDigit(c) => IsDigit(c)
  PROVE  KeepsNormal(Feed(m, c))
<1>1. m.url \in Seq(Chars) /\ m.state \in Places \cup {"kPersentFirst", "kPersentSecond"}
      /\ m.trap \in Places
  BY DEF Machines
<1>2. CASE ~m.ok
  BY <1>2 DEF Feed
<1>3. CASE m.ok /\ m.state \in {"kPersentFirst", "kPersentSecond"}
  <2>1. Feed(m, c) = FeedPercent(m, c)
    BY <1>3 DEF Feed
  <2>2. CASE ~IsPercentDigit(c)
    <3>1. FeedPercent(m, c) = [m EXCEPT !.ok = FALSE]
      BY <2>2 DEF FeedPercent
    <3> QED
      BY <2>1, <3>1 DEF KeepsNormal, Machines
  <2>3. CASE IsPercentDigit(c) /\ m.state = "kPersentFirst"
    <3> DEFINE d == DigitValue(c) % 256
    <3>1. d \in 0..9
      BY <2>3, CodeIs
    <3>2. Feed(m, c) = [m EXCEPT !.state = "kPersentSecond", !.digit = d]
      BY <2>1, <2>3 DEF FeedPercent
    <3> HIDE DEF d
    <3>3. /\ Feed(m, c).url = m.url /\ Feed(m, c).state = "kPersentSecond" /\ Feed(m, c).digit = d
          /\ Feed(m, c).trap = m.trap
      BY <3>2 DEF Machines
    <3>4. "kPersentSecond" \notin Places /\ "kPersentFirst" \notin Places
      BY DEF Places
    <3> QED
      BY <2>3, <3>1, <3>3, <3>4 DEF KeepsNormal
  <2>4. CASE IsPercentDigit(c) /\ m.state = "kPersentSecond"
    <3> DEFINE code == (m.digit * 16 + DigitValue(c)) % 256
    <3>1. code \in Chars /\ code # Slash
      <4>1. m.digit \in 0..9
        BY <2>4 DEF KeepsNormal
      <4> QED
        BY <2>4, <4>1, CodeIs
    <3>2. Feed(m, c) = [m EXCEPT !.state = m.trap, !.digit = code, !.url = Append(@, code)]
      BY <2>1, <2>4 DEF FeedPercent
    <3> HIDE DEF code
    <3>3. IsNormal(Append(m.url, code)) /\ Last(Append(m.url, code)) = code
      BY <1>1, <3>1, NormalGrows DEF KeepsNormal
    <3> DEFINE a == Append(m.url, code)
    <3> HIDE DEF a
    <3>4. Feed(m, c).url = a /\ Feed(m, c).state = m.trap
      BY <3>2 DEF Machines, a
    <3> QED
      BY <1>1, <3>1, <3>3, <3>4 DEF KeepsNormal, a, Places
  <2> QED
    BY <1>3, <2>2, <2>3, <2>4
<1>4. CASE m.ok /\ m.state \in Places /\ c = Percent
  <2>1. Feed(m, c) = [m EXCEPT !.state = "kPersentFirst", !.trap = m.state]
    BY <1>4 DEF Feed, Places
  <2>2. Feed(m, c).url = m.url /\ Feed(m, c).state = "kPersentFirst" /\ Feed(m, c).trap = m.state
    BY <2>1 DEF Machines
  <2> QED
    BY <2>2 DEF KeepsNormal
<1>5. CASE m.ok /\ m.state \in Places /\ c # Percent
  <2> DEFINE n == Feed(m, c)
  <2>1. /\ n.state = Target(m.state, c)
        /\ n.url = IF m.state = "kDoubleDot" /\ c = Slash THEN EraseSegment(m.url)
                   ELSE IF Copies(m.state, c) THEN Append(m.url, c) ELSE m.url
    <3>1. n = FeedPlain(m, c)
      BY <1>5 DEF Feed, Places
    <3> QED
      BY <3>1, FeedPlainIs
  <2> SUFFICES KeepsNormal(n)
    OBVIOUS
  <2> HIDE DEF n
  <2>2. IsNormal(m.url) /\ (m.state = "kUsual" => Last(m.url) # Slash)
    BY DEF KeepsNormal
  <2>3. CASE c = Slash
    <3>1. Target(m.state, c) = "kSlash"
      BY <2>3 DEF Target, Slash, Dot
    <3>2. m.state = "kUsual" => IsNormal(Append(m.url, c))
      BY <1>1, <2>2, NormalGrows
    <3>3. IsNormal(EraseSegment(m.url))
      BY <1>1, <2>2, NormalErased
    <3>4. IsNormal(n.url)
      BY <2>1, <2>2, <2>3, <3>1, <3>2, <3>3 DEF Copies
    <3>5. n.state = "kSlash" /\ "kSlash" \in Places /\ "kSlash" # "kUsual" /\ "kSlash" # "kPersentSecond"
      BY <2>1, <3>1 DEF Places
    <3> QED
      BY <3>4, <3>5 DEF KeepsNormal
  <2>4. CASE c # Slash
    <3>1. IsNormal(Append(m.url, c)) /\ Last(Append(m.url, c)) = c
      BY <1>1, <2>2, <2>4, NormalGrows
    <3>2. Target(m.state, c) \in Places
      BY DEF Target, Places
    <3>3. IsNormal(n.url)
      BY <2>1, <2>2, <2>4, <3>1
    <3>4. n.state = "kUsual" => Last(n.url) # Slash
      <4> SUFFICES ASSUME n.state = "kUsual" PROVE Last(n.url) # Slash
        OBVIOUS
      <4>1. Copies(m.state, c)
        BY <2>1 DEF Copies
      <4> QED
        BY <2>1, <2>4, <3>1, <4>1
    <3>5. n.state \in Places /\ n.state # "kPersentSecond"
      BY <2>1, <3>2 DEF Places
    <3> QED
      BY <3>3, <3>4, <3>5 DEF KeepsNormal
  <2> QED
    BY <2>3, <2>4
<1> QED
  BY <1>1, <1>2, <1>3, <1>4, <1>5

\* Whatever the URL, if only digits are digits in it, the URL that the machine makes
\* starts with a slash and has no two in a row: dot segments and escapes do not
\* bring any.
THEOREM RunIsNormal ==
  ASSUME NEW url \in Seq(Chars), url # <<>>, url[1] = Slash, OnlyDigits(url)
  PROVE  IsNormal(Run(url).url)
<1> DEFINE P == {u \in Seq(Chars) : u # <<>> /\ u[1] = Slash /\ OnlyDigits(u) => KeepsNormal(Run(u))}
<1>1. <<>> \in P
  OBVIOUS
<1>2. ASSUME NEW u \in Seq(Chars), NEW c \in Chars, u \in P
      PROVE  Append(u, c) \in P
  <2> DEFINE v == Append(u, c)
  <2>1. /\ v \in Seq(Chars) /\ Len(u) \in Nat /\ Len(v) = Len(u) + 1
        /\ (\A k \in 1..Len(u) : v[k] = u[k]) /\ v[Len(u) + 1] = c
    BY AppendProperties
  <2>2. Run(v) = Feed(Run(u), c) /\ Run(u) \in Machines
    BY RunIs
  <2> HIDE DEF v
  <2> SUFFICES ASSUME v[1] = Slash, OnlyDigits(v) PROVE KeepsNormal(Run(v))
    BY <2>1 DEF v
  <2>3. IsPercentDigit(c) => IsDigit(c)
    <3>1. Len(u) + 1 \in DOMAIN v
      BY <2>1
    <3> QED
      BY <2>1, <3>1 DEF OnlyDigits, Range
  <2>4. CASE u = <<>>
    <3>1. v = <<Slash>>
      BY <2>1, <2>4 DEF v
    <3>2. Run(v) = FeedPlain(Machine0, Slash)
      <4>1. Run(<<>>) = Machine0 /\ c = Slash
        BY <2>1, <2>4, RunIs
      <4>2. Feed(Machine0, Slash) = FeedPlain(Machine0, Slash)
        BY DEF Feed, Machine0, Slash, Percent
      <4> QED
        BY <2>2, <2>4, <4>1, <4>2
    <3>3. Run(v).url = <<Slash>>
      <4>1. FeedPlain(Machine0, Slash).url = Append(<<>>, Slash)
        BY DEF FeedPlain, Machine0, Target, Copies, Slash
      <4> QED
        BY <3>2, <4>1
    <3>4. Run(v).state = "kSlash"
      BY <3>2 DEF FeedPlain, Machine0, Target, Slash
    <3>5. IsNormal(<<Slash>>)
      <4>1. Len(<<Slash>>) = 1 /\ <<Slash>>[1] = Slash /\ <<Slash>> # <<>>
        OBVIOUS
      <4> QED
        BY <4>1 DEF IsNormal, NoTwoSlashes
    <3> QED
      BY <3>3, <3>4, <3>5 DEF KeepsNormal, Places
  <2>5. CASE u # <<>>
    <3>1. u[1] = Slash
      BY <2>1, <2>5
    <3>2. OnlyDigits(u)
      <4>1. \A i \in DOMAIN u : i \in DOMAIN v /\ v[i] = u[i]
        BY <2>1
      <4> QED
        BY <4>1 DEF OnlyDigits, Range
    <3>3. KeepsNormal(Run(u))
      BY <1>2, <2>5, <3>1, <3>2
    <3> QED
      BY <2>2, <2>3, <3>3, FeedKeepsNormal
  <2> QED
    BY <2>4, <2>5
<1> HIDE DEF P
<1>3. Seq(Chars) \subseteq P
  BY <1>1, <1>2, SequenceInduction
<1> QED
  BY <1>3 DEF P, KeepsNormal

-----------------------------------------------------------------------------
(* A query stays in the URL                                                *)

\* A question mark is no digit of an escape.
LEMMA QuestionIsNoDigit == ~IsPercentDigit(Question) /\ Question # Slash /\ Question # Dot
                           /\ Question # Percent /\ Question \in Chars
  BY DEF IsPercentDigit, LowerCase, IsDigit, Question, Slash, Dot, Percent, Chars

\* A character other than a slash takes nothing away from the URL.
LEMMA FeedKeepsUrl ==
  ASSUME NEW m \in Machines, NEW c \in Chars, c # Slash
  PROVE  /\ Range(m.url) \subseteq Range(Feed(m, c).url)
         /\ c = Question /\ Feed(m, c).ok => Question \in Range(Feed(m, c).url)
<1>1. m.url \in Seq(Chars)
  BY DEF Machines
<1>2. ASSUME NEW x \in Chars
      PROVE  Range(m.url) \subseteq Range(Append(m.url, x)) /\ x \in Range(Append(m.url, x))
  <2> DEFINE a == Append(m.url, x)
  <2>1. /\ a \in Seq(Chars) /\ Len(m.url) \in Nat /\ Len(a) = Len(m.url) + 1
        /\ (\A i \in 1..Len(m.url) : a[i] = m.url[i]) /\ a[Len(m.url) + 1] = x
    BY <1>1, AppendProperties
  <2> HIDE DEF a
  <2>2. DOMAIN a = 1..(Len(m.url) + 1) /\ DOMAIN m.url = 1..Len(m.url)
    BY <1>1, <2>1
  <2> QED
    BY <2>1, <2>2 DEF Range, a
<1>3. CASE ~m.ok
  BY <1>3 DEF Feed
<1>4. CASE m.ok /\ m.state \in {"kPersentFirst", "kPersentSecond"}
  <2>1. Feed(m, c) = FeedPercent(m, c)
    BY <1>4 DEF Feed
  <2>2. CASE ~IsPercentDigit(c)
    <3>1. Feed(m, c) = [m EXCEPT !.ok = FALSE]
      BY <2>1, <2>2 DEF FeedPercent
    <3>2. Feed(m, c).url = m.url /\ ~Feed(m, c).ok
      BY <3>1 DEF Machines
    <3> QED
      BY <3>2
  <2>3. CASE IsPercentDigit(c)
    <3> DEFINE d == DigitValue(c) % 256
               code == (m.digit * 16 + DigitValue(c)) % 256
    <3>1. Feed(m, c) \in {[m EXCEPT !.state = "kPersentSecond", !.digit = d],
                          [m EXCEPT !.state = m.trap, !.digit = code, !.url = Append(@, code)]}
      BY <2>1, <2>3 DEF FeedPercent
    <3>2. code \in Chars
      <4>1. m.digit \in Int /\ DigitValue(c) \in Int
        <5>1. m.digit \in Chars
          BY DEF Machines
        <5> QED
          BY <5>1, DigitValueIs DEF Chars
      <4>2. \A n \in Int : n % 256 \in Chars
        BY DEF Chars
      <4> QED
        BY <4>1, <4>2
    <3> HIDE DEF d, code
    <3> DEFINE a == Append(m.url, code)
    <3>3. Range(m.url) \subseteq Range(a)
      BY <1>2, <3>2
    <3> HIDE DEF a
    <3>4. Feed(m, c).url = m.url \/ Feed(m, c).url = a
      BY <3>1 DEF Machines, a
    <3> QED
      BY <2>3, <3>3, <3>4, QuestionIsNoDigit
  <2> QED
    BY <2>2, <2>3
<1>5. CASE m.ok /\ m.state \in Places /\ c = Percent
  <2>1. Feed(m, c) = [m EXCEPT !.state = "kPersentFirst", !.trap = m.state]
    BY <1>5 DEF Feed, Places
  <2>2. Feed(m, c).url = m.url
    BY <2>1 DEF Machines
  <2> QED
    BY <1>5, <2>2, QuestionIsNoDigit
<1>6. CASE m.ok /\ m.state \in Places /\ c # Percent
  <2> DEFINE n == Feed(m, c)
  <2> SUFFICES Range(m.url) \subseteq Range(n.url) /\ (c = Question => Question \in Range(n.url))
    OBVIOUS
  <2>1. n = FeedPlain(m, c)
    BY <1>6 DEF Feed, Places
  <2>2. n.url = IF Copies(m.state, c) THEN Append(m.url, c) ELSE m.url
    BY <2>1, FeedPlainIs
  <2> HIDE DEF n
  <2>3. c = Question => Copies(m.state, c)
    BY QuestionIsNoDigit DEF Copies, Target
  <2>4. Range(m.url) \subseteq Range(Append(m.url, c)) /\ c \in Range(Append(m.url, c))
    BY <1>2
  <2> QED
    BY <2>2, <2>3, <2>4
<1> QED
  BY <1>3, <1>4, <1>5, <1>6 DEF Machines

\* A URL that has a question mark in its last segment still has one when it has been
\* decoded: what ParseComplexUrl() asserts.
LEMMA QuestionStays ==
  ASSUME NEW url \in Seq(Chars), url # <<>>, url[1] = Slash, Run(url).ok,
         Question \in Range(Last(Segments(url)))
  PROVE  Question \in Range(Run(url).url)
<1> DEFINE P == {u \in Seq(Chars) :
                   u # <<>> /\ u[1] = Slash /\ Run(u).ok /\ Question \in Range(Last(Segments(u)))
                     => Question \in Range(Run(u).url)}
<1>1. <<>> \in P
  OBVIOUS
<1>2. ASSUME NEW u \in Seq(Chars), NEW c \in Chars, u \in P
      PROVE  Append(u, c) \in P
  <2> DEFINE v == Append(u, c)
             l == Last(Segments(v))
  <2>1. /\ v \in Seq(Chars) /\ (u # <<>> => v[1] = u[1])
        /\ Run(v) = Feed(Run(u), c) /\ Run(u) \in Machines
    BY RunIs, AppendProperties
  <2> HIDE DEF v
  <2> SUFFICES ASSUME v[1] = Slash, Run(v).ok, Question \in Range(l) PROVE Question \in Range(Run(v).url)
    BY <2>1 DEF v
  <2>2. CASE u = <<>>
    <3>1. v = <<Slash>>
      BY <2>2 DEF v
    <3>2. l = <<>>
      <4>1. Len(<<<<>>>>) = 1 /\ <<<<>>>>[1] = <<>>
        OBVIOUS
      <4> QED
        BY <3>1, <4>1, SegmentsOfRoot DEF Last
    <3>3. Range(<<>>) = {}
      BY DEF Range
    <3> QED
      BY <3>2, <3>3
  <2>3. CASE u # <<>>
    <3> DEFINE s == Segments(u)
               T == Seq(Letters)
    <3>1. u[1] = Slash
      BY <2>1, <2>3
    <3>2. s \in Seq(T) /\ s # <<>> /\ Segments(v) = SplitTurn(s, c, Slash)
      BY <2>3, <3>1, SegmentsIs DEF Parts, v, Letters
    <3>3. Run(u).ok
      BY <2>1 DEF Feed
    <3>4. <<>> \in T
      OBVIOUS
    <3> HIDE DEF s, T
    <3>5. CASE c = Slash
      <4>1. l = <<>>
        BY <3>2, <3>4, <3>5, AppendParts DEF SplitTurn
      <4>2. Range(<<>>) = {}
        BY DEF Range
      <4> QED
        BY <4>1, <4>2
    <3>6. CASE c # Slash
      <4>1. Front(s) \in Seq(T) /\ Last(s) \in T
        BY <3>2, FrontLast
      <4> DEFINE k == Last(s)
                 q == Append(k, c)
      <4>2. k \in Seq(Letters) /\ c \in Letters
        BY <3>6, <4>1 DEF Letters, T
      <4> HIDE DEF k
      <4>3. /\ q \in T /\ Len(k) \in Nat /\ Len(q) = Len(k) + 1
            /\ (\A i \in 1..Len(k) : q[i] = k[i]) /\ q[Len(k) + 1] = c
            /\ DOMAIN k = 1..Len(k) /\ DOMAIN q = 1..(Len(k) + 1)
        BY <4>2, AppendProperties DEF T
      <4>4. Segments(v) = Append(Front(s), q)
        BY <3>2, <3>6 DEF SplitTurn, k
      <4> HIDE DEF q
      <4>5. l = q
        BY <4>1, <4>3, <4>4, AppendParts
      <4>6. c = Question \/ Question \in Range(k)
        <5>1. PICK i \in 1..(Len(k) + 1) : q[i] = Question
          BY <4>3, <4>5 DEF Range
        <5>2. i = Len(k) + 1 \/ i \in 1..Len(k)
          BY <4>3
        <5> QED
          BY <4>3, <5>1, <5>2 DEF Range
      <4>7. CASE c = Question
        BY <2>1, <3>6, <4>7, FeedKeepsUrl
      <4>8. CASE Question \in Range(k)
        <5>1. Question \in Range(Run(u).url)
          BY <1>2, <2>3, <3>1, <3>3, <4>8 DEF k, s
        <5> QED
          BY <2>1, <3>6, <5>1, FeedKeepsUrl
      <4> QED
        BY <4>6, <4>7, <4>8
    <3> QED
      BY <3>5, <3>6
  <2> QED
    BY <2>2, <2>3
<1> HIDE DEF P
<1>3. Seq(Chars) \subseteq P
  BY <1>1, <1>2, SequenceInduction
<1> QED
  BY <1>3 DEF P

\* The characters of its last segment are characters of the URL.
LEMMA LastSegmentIsPart ==
  ASSUME NEW url \in Seq(Chars), url # <<>>, url[1] = Slash
  PROVE  Range(Last(Segments(url))) \subseteq Range(url)
<1> DEFINE P == {u \in Seq(Chars) :
                   u # <<>> /\ u[1] = Slash => Range(Last(Segments(u))) \subseteq Range(u)}
<1>1. <<>> \in P
  OBVIOUS
<1>2. ASSUME NEW u \in Seq(Chars), NEW c \in Chars, u \in P
      PROVE  Append(u, c) \in P
  <2> DEFINE v == Append(u, c)
             l == Last(Segments(v))
  <2>1. /\ v \in Seq(Chars) /\ (u # <<>> => v[1] = u[1]) /\ Len(u) \in Nat
        /\ (\A i \in 1..Len(u) : v[i] = u[i]) /\ v[Len(u) + 1] = c
        /\ DOMAIN v = 1..(Len(u) + 1) /\ DOMAIN u = 1..Len(u)
    BY AppendProperties
  <2> HIDE DEF v
  <2> SUFFICES ASSUME v[1] = Slash PROVE Range(l) \subseteq Range(v)
    BY <2>1 DEF v
  <2>2. CASE u = <<>>
    <3>1. v = <<Slash>>
      BY <2>2 DEF v
    <3>2. l = <<>>
      <4>1. Len(<<<<>>>>) = 1 /\ <<<<>>>>[1] = <<>>
        OBVIOUS
      <4> QED
        BY <3>1, <4>1, SegmentsOfRoot DEF Last
    <3>3. Range(<<>>) = {}
      BY DEF Range
    <3> QED
      BY <3>2, <3>3
  <2>3. CASE u # <<>>
    <3> DEFINE s == Segments(u)
               T == Seq(Letters)
    <3>1. u[1] = Slash
      BY <2>1, <2>3
    <3>2. s \in Seq(T) /\ s # <<>> /\ Segments(v) = SplitTurn(s, c, Slash)
      BY <2>3, <3>1, SegmentsIs DEF Parts, v, Letters
    <3>3. Range(Last(s)) \subseteq Range(u)
      BY <1>2, <2>3, <3>1
    <3>4. <<>> \in T
      OBVIOUS
    <3> HIDE DEF s, T
    <3>5. CASE c = Slash
      <4>1. l = <<>>
        BY <3>2, <3>4, <3>5, AppendParts DEF SplitTurn
      <4>2. Range(<<>>) = {}
        BY DEF Range
      <4> QED
        BY <4>1, <4>2
    <3>6. CASE c # Slash
      <4>1. Front(s) \in Seq(T) /\ Last(s) \in T
        BY <3>2, FrontLast
      <4> DEFINE k == Last(s)
                 q == Append(k, c)
      <4>2. k \in Seq(Letters) /\ c \in Letters
        BY <3>6, <4>1 DEF Letters, T
      <4> HIDE DEF k
      <4>3. /\ q \in T /\ Len(k) \in Nat
            /\ (\A i \in 1..Len(k) : q[i] = k[i]) /\ q[Len(k) + 1] = c
            /\ DOMAIN k = 1..Len(k) /\ DOMAIN q = 1..(Len(k) + 1)
        BY <4>2, AppendProperties DEF T
      <4>4. Segments(v) = Append(Front(s), q)
        BY <3>2, <3>6 DEF SplitTurn, k
      <4> HIDE DEF q
      <4>5. l = q
        BY <4>1, <4>3, <4>4, AppendParts
      <4>6. ASSUME NEW i \in 1..(Len(k) + 1) PROVE q[i] \in Range(v)
        <5>1. CASE i = Len(k) + 1
          <6>1. Len(u) + 1 \in DOMAIN v
            BY <2>1
          <6>2. c \in Range(v)
            BY <2>1, <6>1 DEF Range
          <6> QED
            BY <4>3, <5>1, <6>2
        <5>2. CASE i \in 1..Len(k)
          <6>1. k[i] \in Range(u)
            BY <3>3, <4>3, <5>2 DEF Range, k
          <6>2. PICK j \in 1..Len(u) : u[j] = k[i]
            BY <2>1, <6>1 DEF Range
          <6>3. j \in DOMAIN v /\ v[j] = k[i]
            BY <2>1, <6>2
          <6> QED
            BY <4>3, <5>2, <6>3 DEF Range
        <5> QED
          BY <4>3, <5>1, <5>2
      <4> QED
        BY <4>3, <4>5, <4>6 DEF Range
    <3> QED
      BY <3>5, <3>6
  <2> QED
    BY <2>2, <2>3
<1> HIDE DEF P
<1>3. Seq(Chars) \subseteq P
  BY <1>1, <1>2, SequenceInduction
<1> QED
  BY <1>3 DEF P

-----------------------------------------------------------------------------
(* Version 2's header line                                                 *)

\* Where a character first occurs.
LEMMA FindIs ==
  ASSUME NEW T, NEW s \in Seq(T), NEW c
  PROVE  \/ Find(s, c) = 0 /\ \A i \in 1..Len(s) : s[i] # c
         \/ /\ Find(s, c) \in 1..Len(s) /\ s[Find(s, c)] = c
            /\ \A i \in 1..(Find(s, c) - 1) : s[i] # c
<1> DEFINE at == {i \in DOMAIN s : s[i] = c}
<1>1. DOMAIN s = 1..Len(s) /\ Len(s) \in Nat
  OBVIOUS
<1>2. Find(s, c) = IF at = {} THEN 0 ELSE Min(at)
  BY DEF Find
<1>3. CASE at = {}
  BY <1>1, <1>2, <1>3
<1>4. CASE at # {}
  <2>1. at \in SUBSET Nat
    BY <1>1
  <2> HIDE DEF at
  <2>2. PICK m \in at : (\A n \in at : m <= n) /\ Min(at) = m
    BY <1>4, <2>1, LeastNumber
  <2>3. Find(s, c) = m /\ m \in 1..Len(s) /\ s[m] = c
    BY <1>1, <1>2, <1>4, <2>2 DEF at
  <2>4. ASSUME NEW i \in 1..(m - 1), s[i] = c
        PROVE  FALSE
    <3>1. i \in at /\ ~(m <= i)
      BY <1>1, <2>3, <2>4 DEF at
    <3> QED
      BY <2>2, <3>1
  <2> QED
    BY <2>3, <2>4
<1> QED
  BY <1>3, <1>4

\* It is where it is found.
LEMMA FoundAt ==
  ASSUME NEW T, NEW s \in Seq(T), NEW c, NEW m \in 1..Len(s), s[m] = c, \A i \in 1..(m - 1) : s[i] # c
  PROVE  Find(s, c) = m
<1>1. \/ Find(s, c) = 0 /\ \A i \in 1..Len(s) : s[i] # c
      \/ /\ Find(s, c) \in 1..Len(s) /\ s[Find(s, c)] = c
         /\ \A i \in 1..(Find(s, c) - 1) : s[i] # c
  BY FindIs
<1> DEFINE f == Find(s, c)
<1>2. f \in 1..Len(s) /\ s[f] = c /\ \A i \in 1..(f - 1) : s[i] # c
  BY <1>1
<1> HIDE DEF f
<1>3. ~(f < m) /\ ~(m < f)
  BY <1>2
<1>4. f = m
  BY <1>2, <1>3
<1> QED
  BY <1>4 DEF f

\* What is before and after a position.
LEMMA BeforeAfter ==
  ASSUME NEW T, NEW s \in Seq(T), NEW m \in 0..Len(s)
  PROVE  /\ m >= 1 => /\ Before(s, m) \in Seq(T) /\ Len(Before(s, m)) = m - 1
                      /\ \A i \in 1..(m - 1) : Before(s, m)[i] = s[i]
         /\ After(s, m) \in Seq(T) /\ Len(After(s, m)) = Len(s) - m
         /\ \A i \in 1..(Len(s) - m) : After(s, m)[i] = s[m + i]
<1>1. Len(s) \in Nat /\ \A i \in 1..Len(s) : s[i] \in T
  OBVIOUS
<1> DEFINE n == Len(s)
           b == Before(s, m)
           a == After(s, m)
<1>2. /\ a \in Seq(T) /\ Len(a) = n - m /\ \A i \in 1..(n - m) : a[i] = s[m + i]
  <2>1. \A i \in (m + 1)..n : s[i] \in T
    BY <1>1
  <2>2. m + 1 \in Int /\ n \in Int
    BY <1>1
  <2>3. /\ SubSeq(s, m + 1, n) \in Seq(T)
        /\ Len(SubSeq(s, m + 1, n)) = IF m + 1 <= n THEN n - (m + 1) + 1 ELSE 0
        /\ \A i \in 1..(n - (m + 1) + 1) : SubSeq(s, m + 1, n)[i] = s[(m + 1) + i - 1]
    BY <2>1, <2>2, SubSeqProperties
  <2>4. a = SubSeq(s, m + 1, n)
    BY DEF After
  <2>5. n - (m + 1) + 1 = n - m /\ \A i \in 1..(n - m) : (m + 1) + i - 1 = m + i
    BY <1>1
  <2>6. n \in Nat /\ m \in 0..n
    BY <1>1
  <2> HIDE DEF a, n
  <2>7. m + 1 <= n \/ n - m = 0
    BY <2>6
  <2>8. Len(a) = n - m
    BY <2>3, <2>4, <2>5, <2>7
  <2> QED
    BY <2>3, <2>4, <2>5, <2>8
<1>3. ASSUME m >= 1
      PROVE  /\ b \in Seq(T) /\ Len(b) = m - 1 /\ \A i \in 1..(m - 1) : b[i] = s[i]
  BY <1>1, <1>3 DEF Before
<1> QED
  BY <1>2, <1>3

\* A sequence is what is before a position, what is there, and what is after it.
LEMMA AroundPosition ==
  ASSUME NEW T, NEW s \in Seq(T), NEW m \in 1..Len(s), NEW c, s[m] = c
  PROVE  s = Before(s, m) \o <<c>> \o After(s, m)
<1> DEFINE n == Len(s)
           b == Before(s, m)
           a == After(s, m)
<1>1. Len(s) \in Nat /\ m \in 0..Len(s) /\ m >= 1 /\ c \in T /\ n \in Nat /\ m \in 1..n
  OBVIOUS
<1>2. /\ b \in Seq(T) /\ Len(b) = m - 1 /\ \A i \in 1..(m - 1) : b[i] = s[i]
      /\ a \in Seq(T) /\ Len(a) = n - m /\ \A i \in 1..(n - m) : a[i] = s[m + i]
  BY <1>1, BeforeAfter, ZenonT(60)
<1> HIDE DEF a, b, n
<1> DEFINE d == b \o <<c>>
<1>3. /\ d \in Seq(T) /\ Len(d) = m /\ \A i \in 1..m : d[i] = s[i]
  <2>1. <<c>> \in Seq(T) /\ Len(<<c>>) = 1 /\ <<c>>[1] = c
    BY <1>1
  <2> DEFINE e == <<c>>
  <2> HIDE DEF e
  <2>2. e \in Seq(T) /\ Len(e) = 1 /\ e[1] = c
    BY <2>1 DEF e
  <2>3. /\ b \o e \in Seq(T) /\ Len(b \o e) = Len(b) + Len(e)
        /\ \A i \in 1..Len(b) + Len(e) : (b \o e)[i] = IF i <= Len(b) THEN b[i] ELSE e[i - Len(b)]
    BY <1>2, <2>2, ConcatProperties
  <2>4. ASSUME NEW i \in 1..m
        PROVE  (b \o e)[i] = s[i]
    <3>1. i = m \/ i \in 1..(m - 1)
      BY <1>1
    <3> QED
      BY <1>1, <1>2, <2>2, <2>3, <3>1
  <2> QED
    BY <1>1, <1>2, <2>2, <2>3, <2>4 DEF e
<1> HIDE DEF d
<1>4. /\ d \o a \in Seq(T) /\ Len(d \o a) = Len(d) + Len(a)
      /\ \A i \in 1..Len(d) + Len(a) : (d \o a)[i] = IF i <= Len(d) THEN d[i] ELSE a[i - Len(d)]
  BY <1>2, <1>3, ConcatProperties, ZenonT(60)
<1>5. Len(d \o a) = n
  BY <1>1, <1>2, <1>3, <1>4
<1>6. ASSUME NEW i \in 1..n
      PROVE  (d \o a)[i] = s[i]
  <2>1. i \in 1..m \/ (i - m \in 1..(n - m) /\ ~(i <= m) /\ m + (i - m) = i)
    BY <1>1
  <2> QED
    BY <1>1, <1>2, <1>3, <1>4, <2>1
<1>7. d \o a = s
  BY <1>4, <1>5, <1>6, SeqEqual DEF n
<1> QED
  BY <1>7 DEF d, a, b

\* Sequence s is what t starts with.
StartsWith(t, s) == Len(s) <= Len(t) /\ \A i \in 1..Len(s) : s[i] = t[i]

\* What starts another sequence finds a character where that does.
LEMMA FoundInStart ==
  ASSUME NEW T, NEW s \in Seq(T), NEW t \in Seq(T), StartsWith(t, s), NEW c, Find(s, c) # 0
  PROVE  /\ Find(t, c) = Find(s, c) /\ Before(t, Find(t, c)) = Before(s, Find(s, c))
         /\ Before(s, Find(s, c)) \in Seq(T)
         /\ StartsWith(After(t, Find(t, c)), After(s, Find(s, c)))
         /\ After(s, Find(s, c)) \in Seq(T) /\ After(t, Find(t, c)) \in Seq(T)
<1> DEFINE m == Find(s, c)
<1>1. m \in 1..Len(s) /\ s[m] = c /\ \A i \in 1..(m - 1) : s[i] # c
  BY FindIs
<1>2. Len(s) \in Nat /\ Len(t) \in Nat
  OBVIOUS
<1> HIDE DEF m
<1>3. m \in 1..Len(t) /\ t[m] = c /\ \A i \in 1..(m - 1) : i \in 1..Len(s) /\ t[i] # c
  BY <1>1, <1>2 DEF StartsWith
<1>4. Find(t, c) = m
  BY <1>3, FoundAt
<1>5. m \in 0..Len(s) /\ m \in 0..Len(t) /\ m >= 1
  BY <1>1, <1>2, <1>3
<1>6. /\ Before(s, m) \in Seq(T) /\ Len(Before(s, m)) = m - 1
      /\ \A i \in 1..(m - 1) : Before(s, m)[i] = s[i]
      /\ After(s, m) \in Seq(T) /\ Len(After(s, m)) = Len(s) - m
      /\ \A i \in 1..(Len(s) - m) : After(s, m)[i] = s[m + i]
  BY <1>5, BeforeAfter, ZenonT(60)
<1>7. /\ Before(t, m) \in Seq(T) /\ Len(Before(t, m)) = m - 1
      /\ \A i \in 1..(m - 1) : Before(t, m)[i] = t[i]
      /\ After(t, m) \in Seq(T) /\ Len(After(t, m)) = Len(t) - m
      /\ \A i \in 1..(Len(t) - m) : After(t, m)[i] = t[m + i]
  BY <1>5, BeforeAfter, ZenonT(60)
<1>8. \A i \in 1..(m - 1) : Before(t, m)[i] = Before(s, m)[i]
  BY <1>1, <1>3, <1>6, <1>7 DEF StartsWith
<1>9. Before(t, m) = Before(s, m)
  BY <1>6, <1>7, <1>8, SeqEqual
<1>10. Len(s) - m <= Len(t) - m
  BY <1>2, <1>5 DEF StartsWith
<1>11. ASSUME NEW i \in 1..(Len(s) - m)
       PROVE  After(s, m)[i] = After(t, m)[i]
  <2>1. i \in 1..(Len(t) - m) /\ m + i \in 1..Len(s)
    BY <1>2, <1>5, <1>10
  <2> QED
    BY <1>6, <1>7, <2>1 DEF StartsWith
<1> QED
  BY <1>4, <1>6, <1>7, <1>9, <1>10, <1>11 DEF m, StartsWith

\* Header line p stores what the machine makes of URL u, split at the first ? unless
\* the request is static.
StoresResult(p, u) ==
  LET v == Run(u).url
      q == Find(v, Question)
  IN \/ ~Run(u).ok /\ p.url = u /\ p.query = <<>> /\ p.asserted
     \/ Run(u).ok /\ p.static /\ p.url = v /\ p.query = <<>> /\ p.asserted
     \/ Run(u).ok /\ ~p.static /\ q = 0 /\ p.query = <<>> /\ ~p.asserted
     \/ Run(u).ok /\ ~p.static /\ q # 0 /\ p.url = Before(v, q) /\ p.query = After(v, q) /\ p.asserted

\* Header line p is that of a line of which m precedes the first space and u the second.
IsHeaderLine(p, l, m, rest, u) ==
  /\ m = Before(l, Find(l, Space)) /\ rest = After(l, Find(l, Space))
  /\ u = Before(rest, Find(rest, Space))
  /\ Find(l, Space) # 0 /\ Find(rest, Space) # 0 /\ IsVersion(After(rest, Find(rest, Space)))
  /\ m \in Methods /\ u # <<>> /\ u[1] = Slash
  /\ p.method = m /\ p.static = (m # POST /\ ~HasQuery(u)) /\ p.complex = IsComplex(u)
  /\ IF IsComplex(u) THEN StoresResult(p, u) ELSE p.url = u /\ p.query = <<>> /\ p.asserted

\* What a request is before its URL is looked at again.
IsUnsplit(r, m, s, x, u) ==
  r = [good |-> TRUE, method |-> m, static |-> s, complex |-> x, url |-> u, query |-> <<>>,
       asserted |-> TRUE]

\* ParseComplexUrl() stores the result of the machine, and keeps the method.
LEMMA ParseComplexUrlIs ==
  ASSUME NEW r, NEW m, NEW s, NEW x, NEW u, IsUnsplit(r, m, s, x, u), NEW p, p = ParseComplexUrl(r)
  PROVE  p.method = m /\ p.static = s /\ p.complex = x /\ StoresResult(p, u)
<1> DEFINE v == Run(u).url
           q == Find(v, Question)
           b == Before(v, q)
           a == After(v, q)
           ok == Run(u).ok
<1>1. r = [good |-> TRUE, method |-> m, static |-> s, complex |-> x, url |-> u, query |-> <<>>,
           asserted |-> TRUE]
  BY DEF IsUnsplit
<1>2. p = IF ~ok THEN r
          ELSE IF s THEN [r EXCEPT !.url = v]
          ELSE IF q = 0 THEN [r EXCEPT !.asserted = FALSE]
          ELSE [r EXCEPT !.url = b, !.query = a]
  <2>1. r.url = u /\ r.static = s
    BY <1>1
  <2>2. ParseComplexUrl(r) =
          IF ~Run(r.url).ok THEN r
          ELSE IF r.static THEN [r EXCEPT !.url = Run(r.url).url]
          ELSE IF Find(Run(r.url).url, Question) = 0 THEN [r EXCEPT !.asserted = FALSE]
          ELSE [r EXCEPT !.url = Before(Run(r.url).url, Find(Run(r.url).url, Question)),
                         !.query = After(Run(r.url).url, Find(Run(r.url).url, Question))]
    BY DEF ParseComplexUrl, StoreUrl
  <2> QED
    BY <2>1, <2>2
<1>3. StoresResult(p, u) <=>
        \/ ~ok /\ p.url = u /\ p.query = <<>> /\ p.asserted
        \/ ok /\ p.static /\ p.url = v /\ p.query = <<>> /\ p.asserted
        \/ ok /\ ~p.static /\ q = 0 /\ p.query = <<>> /\ ~p.asserted
        \/ ok /\ ~p.static /\ q # 0 /\ p.url = b /\ p.query = a /\ p.asserted
  BY DEF StoresResult
<1> HIDE DEF v, q, b, a, ok
<1>4. CASE ~ok
  BY <1>1, <1>2, <1>3, <1>4
<1>5. CASE ok /\ s
  BY <1>1, <1>2, <1>3, <1>5
<1>6. CASE ok /\ ~s /\ q = 0
  BY <1>1, <1>2, <1>3, <1>6
<1>7. CASE ok /\ ~s /\ q # 0
  BY <1>1, <1>2, <1>3, <1>7
<1> QED
  BY <1>4, <1>5, <1>6, <1>7

\* What a header line says that is no error.
LEMMA GoodLine ==
  ASSUME NEW l, NEW p, p = ParseHeaderLine(l), p.good
  PROVE  \E m, rest, u : IsHeaderLine(p, l, m, rest, u)
<1> DEFINE m == Before(l, Find(l, Space))
           rest == After(l, Find(l, Space))
           u == Before(rest, Find(rest, Space))
           s == m # POST /\ ~HasQuery(u)
           x == IsComplex(u)
           r == [NoLine EXCEPT !.good = TRUE, !.method = m, !.url = u, !.complex = x, !.static = s]
           bad == \/ Find(l, Space) = 0 \/ m \notin Methods
                  \/ Find(rest, Space) = 0 \/ u = <<>> \/ u[1] # Slash
                  \/ ~IsVersion(After(rest, Find(rest, Space)))
<1>1. p = IF bad THEN NoLine ELSE IF r.complex THEN ParseComplexUrl(r) ELSE r
  BY DEF ParseHeaderLine
<1>2. ~bad => IsHeaderLine(p, l, m, rest, u) <=>
                /\ p.method = m /\ p.static = s /\ p.complex = x
                /\ IF x THEN StoresResult(p, u) ELSE p.url = u /\ p.query = <<>> /\ p.asserted
  BY DEF IsHeaderLine
<1>3. ~NoLine.good
  BY DEF NoLine
<1> HIDE DEF m, rest, u, s, x, bad
<1>4. IsUnsplit(r, m, s, x, u)
  <2>1. r = [NoLine EXCEPT !.good = TRUE, !.method = m, !.url = u, !.complex = x, !.static = s]
    OBVIOUS
  <2> HIDE DEF r
  <2> QED
    BY <2>1 DEF IsUnsplit, NoLine
<1> HIDE DEF r
<1>5. /\ r.method = m /\ r.static = s /\ r.complex = x /\ r.url = u /\ r.query = <<>> /\ r.asserted
  BY <1>4 DEF IsUnsplit
<1>6. ~bad /\ p = IF x THEN ParseComplexUrl(r) ELSE r
  BY <1>1, <1>3, <1>5
<1>7. CASE ~x
  BY <1>2, <1>5, <1>6, <1>7
<1>8. CASE x
  <2>1. p = ParseComplexUrl(r)
    BY <1>6, <1>8
  <2>2. p.method = m /\ p.static = s /\ p.complex = x /\ StoresResult(p, u)
    BY <1>4, <2>1, ParseComplexUrlIs
  <2> QED
    BY <1>2, <1>6, <1>8, <2>2
<1> QED
  BY <1>7, <1>8

-----------------------------------------------------------------------------
(* Query arguments                                                         *)

\* Function f says where the parts p of s start: part k is what follows position f[k],
\* up to the next place where c is.
IsCut(f, s, c, p) ==
  /\ f \in [1..Len(p) -> 0..Len(s)] /\ f[1] = 0
  /\ \A j, k \in 1..Len(p) : j < k => f[j] < f[k]
  /\ \A i \in 1..Len(s) : s[i] = c <=> \E k \in 1..Len(p) : f[k] = i
  /\ \A k \in 1..Len(p) : /\ Len(p[k]) = (IF k = Len(p) THEN Len(s) ELSE f[k + 1] - 1) - f[k]
                          /\ \A i \in 1..Len(p[k]) : p[k][i] = s[f[k] + i]

\* One more character c starts a new part.
LEMMA CutStarts ==
  ASSUME NEW T, NEW s \in Seq(Chars), NEW c \in Chars, NEW p \in Seq(Seq(T)), p # <<>>,
         NEW f, IsCut(f, s, c, p)
  PROVE  \E g : IsCut(g, Append(s, c), c, Append(p, <<>>))
<1> DEFINE n == Len(p)
           m == Len(s)
           t == Append(s, c)
           q == Append(p, <<>>)
           g == [k \in 1..(n + 1) |-> IF k = n + 1 THEN m + 1 ELSE f[k]]
<1>1. n \in Nat \ {0} /\ m \in Nat
  OBVIOUS
<1>2. Len(t) = m + 1 /\ (\A i \in 1..m : t[i] = s[i]) /\ t[m + 1] = c
  BY AppendProperties
<1>3. Len(q) = n + 1 /\ (\A k \in 1..n : q[k] = p[k]) /\ q[n + 1] = <<>>
  <2>1. <<>> \in Seq(T)
    OBVIOUS
  <2> QED
    BY <2>1, AppendProperties
<1>4. /\ f \in [1..n -> 0..m] /\ f[1] = 0
      /\ \A j, k \in 1..n : j < k => f[j] < f[k]
      /\ \A i \in 1..m : s[i] = c <=> \E k \in 1..n : f[k] = i
      /\ \A k \in 1..n : /\ Len(p[k]) = (IF k = n THEN m ELSE f[k + 1] - 1) - f[k]
                         /\ \A i \in 1..Len(p[k]) : p[k][i] = s[f[k] + i]
  BY DEF IsCut
<1> HIDE DEF n, m, t, q
<1>5. /\ g \in [1..(n + 1) -> 0..(m + 1)] /\ g[n + 1] = m + 1 /\ \A k \in 1..n : g[k] = f[k]
  BY <1>1, <1>4
<1> HIDE DEF g
<1>6. \A k \in 1..(n + 1) : k = n + 1 \/ k \in 1..n
  BY <1>1
<1>7. \A k \in 1..n : k \in 1..(n + 1) /\ f[k] \in 0..m
  BY <1>1, <1>4
<1>8. ASSUME NEW j \in 1..(n + 1), NEW k \in 1..(n + 1), j < k
      PROVE  g[j] < g[k]
  <2>1. j \in 1..n
    BY <1>1, <1>8
  <2>2. CASE k \in 1..n
    BY <1>4, <1>5, <1>8, <2>1, <2>2
  <2>3. CASE k = n + 1
    <3>1. f[j] \in 0..m
      BY <1>7, <2>1
    <3> QED
      BY <1>1, <1>5, <2>1, <2>3, <3>1
  <2> QED
    BY <1>6, <2>2, <2>3
<1>9. ASSUME NEW i \in 1..(m + 1)
      PROVE  t[i] = c <=> \E k \in 1..(n + 1) : g[k] = i
  <2>1. CASE i = m + 1
    <3>1. n + 1 \in 1..(n + 1)
      BY <1>1
    <3> QED
      BY <1>2, <1>5, <2>1, <3>1
  <2>2. CASE i \in 1..m
    <3>1. t[i] = c <=> \E k \in 1..n : f[k] = i
      BY <1>2, <1>4, <2>2
    <3>2. (\E k \in 1..n : f[k] = i) => \E k \in 1..(n + 1) : g[k] = i
      BY <1>5, <1>7
    <3>3. ASSUME NEW k \in 1..(n + 1), g[k] = i
          PROVE  k \in 1..n /\ f[k] = i
      <4>1. i # m + 1
        BY <1>1, <2>2
      <4> QED
        BY <1>5, <1>6, <3>3, <4>1
    <3> QED
      BY <3>1, <3>2, <3>3
  <2> QED
    BY <1>1, <2>1, <2>2
<1>10. ASSUME NEW k \in 1..(n + 1)
       PROVE  /\ Len(q[k]) = (IF k = n + 1 THEN m + 1 ELSE g[k + 1] - 1) - g[k]
              /\ \A i \in 1..Len(q[k]) : q[k][i] = t[g[k] + i]
  <2>1. CASE k = n + 1
    <3>1. q[k] = <<>> /\ Len(<<>>) = 0
      BY <1>3, <2>1
    <3>2. g[k] = m + 1 /\ (m + 1) - (m + 1) = 0 /\ 1..0 = {}
      BY <1>1, <1>5, <2>1
    <3> QED
      BY <2>1, <3>1, <3>2
  <2>2. CASE k \in 1..n
    <3>1. q[k] = p[k] /\ g[k] = f[k] /\ k # n + 1
      BY <1>1, <1>3, <1>5, <2>2
    <3>2. g[k + 1] - 1 = IF k = n THEN m ELSE f[k + 1] - 1
      <4>1. k = n \/ k + 1 \in 1..n
        BY <1>1, <2>2
      <4> QED
        BY <1>1, <1>5, <4>1
    <3>3. Len(p[k]) = (IF k = n THEN m ELSE f[k + 1] - 1) - f[k]
          /\ \A i \in 1..Len(p[k]) : p[k][i] = s[f[k] + i]
      BY <1>4, <2>2
    <3>4. ASSUME NEW i \in 1..Len(p[k])
          PROVE  f[k] + i \in 1..m
      <4>1. (IF k = n THEN m ELSE f[k + 1] - 1) <= m /\ (IF k = n THEN m ELSE f[k + 1] - 1) \in Int
        <5>1. k = n \/ k + 1 \in 1..n
          BY <1>1, <2>2
        <5>2. k # n => f[k + 1] \in 0..m
          BY <1>7, <5>1
        <5> QED
          BY <1>1, <5>2
      <4>2. f[k] \in 0..m
        BY <1>7, <2>2
      <4> DEFINE e == IF k = n THEN m ELSE f[k + 1] - 1
                 a == f[k]
      <4> HIDE DEF e, a
      <4>3. i \in 1..(e - a) /\ e <= m /\ e \in Int /\ a \in 0..m
        BY <3>3, <4>1, <4>2 DEF e, a
      <4>4. a + i \in 1..m
        BY <1>1, <4>3
      <4> QED
        BY <4>4 DEF a
    <3> QED
      BY <1>2, <3>1, <3>2, <3>3, <3>4, SMTT(30)
  <2> QED
    BY <1>6, <2>1, <2>2
<1>11. g[1] = 0
  <2>1. 1 \in 1..n
    BY <1>1
  <2> QED
    BY <1>4, <1>5, <2>1
<1>12. IsCut(g, t, c, q)
  BY <1>2, <1>3, <1>5, <1>8, <1>9, <1>10, <1>11 DEF IsCut
<1> QED
  BY <1>12 DEF t, q

\* Any other character belongs to the last part.
LEMMA CutGrows ==
  ASSUME NEW T, NEW s \in Seq(Chars), NEW c, NEW x \in Chars, x # c, NEW p \in Seq(Seq(T)), p # <<>>,
         x \in T, NEW f, IsCut(f, s, c, p)
  PROVE  IsCut(f, Append(s, x), c, Append(Front(p), Append(Last(p), x)))
<1> DEFINE n == Len(p)
           m == Len(s)
           t == Append(s, x)
           l == Last(p)
           r == Append(l, x)
           q == Append(Front(p), r)
           z == f[n]
<1>1. n \in Nat \ {0} /\ m \in Nat
  OBVIOUS
<1>2. Len(t) = m + 1 /\ (\A i \in 1..m : t[i] = s[i]) /\ t[m + 1] = x
  BY AppendProperties
<1>3. /\ Front(p) \in Seq(Seq(T)) /\ l \in Seq(T) /\ Len(Front(p)) = n - 1 /\ p = Append(Front(p), l)
  BY FrontLast
<1>4. l = p[n]
  BY DEF Last
<1>5. /\ f \in [1..n -> 0..m] /\ f[1] = 0
      /\ \A j, k \in 1..n : j < k => f[j] < f[k]
      /\ \A i \in 1..m : s[i] = c <=> \E k \in 1..n : f[k] = i
      /\ \A k \in 1..n : /\ Len(p[k]) = (IF k = n THEN m ELSE f[k + 1] - 1) - f[k]
                         /\ \A i \in 1..Len(p[k]) : p[k][i] = s[f[k] + i]
  BY DEF IsCut
<1> HIDE DEF l
<1>6. /\ r \in Seq(T) /\ Len(l) \in Nat /\ Len(r) = Len(l) + 1 /\ (\A i \in 1..Len(l) : r[i] = l[i])
      /\ r[Len(l) + 1] = x
  BY <1>3, AppendProperties
<1> HIDE DEF r
<1>7. Len(q) = n /\ (\A k \in 1..(n - 1) : q[k] = p[k]) /\ q[n] = r
  <2> DEFINE h == Front(p)
  <2>1. h \in Seq(Seq(T)) /\ Len(h) = n - 1 /\ p = Append(h, l)
    BY <1>3
  <2> HIDE DEF h, n
  <2>2. /\ Len(Append(h, r)) = Len(h) + 1 /\ \A k \in 1..Len(h) : Append(h, r)[k] = h[k]
        /\ Append(h, r)[Len(h) + 1] = r
    BY <1>6, <2>1, AppendProperties
  <2>3. \A k \in 1..Len(h) : Append(h, l)[k] = h[k]
    BY <1>3, <2>1, AppendProperties
  <2>4. Len(h) + 1 = n
    BY <1>1, <2>1
  <2> QED
    BY <2>1, <2>2, <2>3, <2>4 DEF h
<1> HIDE DEF n, m, t, q
<1>8. n \in 1..n /\ z \in 0..m
  BY <1>1, <1>5
<1>9. Len(l) = m - z /\ \A i \in 1..Len(l) : l[i] = s[z + i]
  BY <1>4, <1>5, <1>8
<1> HIDE DEF z
<1>10. f \in [1..n -> 0..(m + 1)]
  <2>1. \A i \in 0..m : i \in 0..(m + 1)
    BY <1>1
  <2> QED
    BY <1>5, <2>1
<1>11. ASSUME NEW i \in 1..(m + 1)
       PROVE  t[i] = c <=> \E k \in 1..n : f[k] = i
  <2>1. CASE i = m + 1
    <3>1. t[i] # c
      BY <1>2, <2>1
    <3>2. ASSUME NEW k \in 1..n, f[k] = i
          PROVE  FALSE
      <4>1. f[k] \in 0..m
        BY <1>5
      <4> QED
        BY <1>1, <2>1, <3>2, <4>1
    <3> QED
      BY <3>1, <3>2
  <2>2. CASE i \in 1..m
    BY <1>2, <1>5, <2>2
  <2> QED
    BY <1>1, <2>1, <2>2
<1>12. ASSUME NEW k \in 1..n
       PROVE  /\ Len(q[k]) = (IF k = n THEN m + 1 ELSE f[k + 1] - 1) - f[k]
              /\ \A i \in 1..Len(q[k]) : q[k][i] = t[f[k] + i]
  <2>1. CASE k = n
    <3>1. q[k] = r /\ f[k] = z
      BY <1>7, <2>1 DEF z
    <3>2. Len(r) = (m + 1) - z
      BY <1>1, <1>6, <1>8, <1>9
    <3>3. ASSUME NEW i \in 1..Len(r)
          PROVE  r[i] = t[z + i]
      <4>1. CASE i \in 1..Len(l)
        <5>1. z + i \in 1..m
          BY <1>1, <1>8, <1>9, <4>1
        <5> QED
          BY <1>2, <1>6, <1>9, <4>1, <5>1
      <4>2. CASE i = Len(l) + 1
        <5>1. z + i = m + 1
          BY <1>1, <1>8, <1>9, <4>2
        <5> QED
          BY <1>2, <1>6, <4>2, <5>1
      <4> QED
        BY <1>6, <4>1, <4>2
    <3> QED
      BY <2>1, <3>1, <3>2, <3>3
  <2>2. CASE k # n
    <3>1. k \in 1..(n - 1) /\ k + 1 \in 1..n
      BY <1>1, <2>2
    <3> DEFINE a == f[k]
               b == f[k + 1]
    <3>2. a \in 0..m /\ b \in 0..m /\ q[k] = p[k]
      BY <1>5, <1>7, <3>1
    <3>3. Len(p[k]) = (b - 1) - a /\ \A i \in 1..Len(p[k]) : p[k][i] = s[a + i]
      BY <1>5, <2>2
    <3> HIDE DEF a, b
    <3>4. \A i \in 1..Len(p[k]) : a + i \in 1..m
      BY <1>1, <3>2, <3>3
    <3>5. Len(q[k]) = (b - 1) - a /\ \A i \in 1..Len(q[k]) : q[k][i] = t[a + i]
      BY <1>2, <3>2, <3>3, <3>4
    <3> QED
      BY <2>2, <3>5 DEF a, b
  <2> QED
    BY <2>1, <2>2
<1>13. IsCut(f, t, c, q)
  BY <1>2, <1>5, <1>7, <1>10, <1>11, <1>12 DEF IsCut
<1> QED
  BY <1>13 DEF t, q, l, r

\* Split() cuts where the character is.
LEMMA SplitCuts ==
  ASSUME NEW s \in Seq(Chars), NEW c \in Chars
  PROVE  \E f : IsCut(f, s, c, Split(s, c))
<1> DEFINE P == {u \in Seq(Chars) : \E f : IsCut(f, u, c, Split(u, c))}
<1>1. <<>> \in P
  <2> DEFINE f == [k \in 1..1 |-> 0]
             p == Split(<<>>, c)
  <2>1. Len(p) = 1 /\ p[1] = <<>> /\ Len(<<>>) = 0
    <3>1. p = <<<<>>>>
      BY SplitIs
    <3>2. Len(<<<<>>>>) = 1 /\ <<<<>>>>[1] = <<>>
      OBVIOUS
    <3> QED
      BY <3>1, <3>2
  <2>2. f \in [1..1 -> 0..0] /\ f[1] = 0 /\ 1..0 = {} /\ 1..1 = {1}
    OBVIOUS
  <2> HIDE DEF f, p
  <2>3. IsCut(f, <<>>, c, p)
    BY <2>1, <2>2 DEF IsCut
  <2> QED
    BY <2>3 DEF p
<1>2. ASSUME NEW u \in Seq(Chars), NEW x \in Chars, u \in P
      PROVE  Append(u, x) \in P
  <2> DEFINE p == Split(u, c)
             T == Chars \ {c}
  <2>1. /\ p \in Seq(Seq(T)) /\ p # <<>> /\ Split(Append(u, x), c) = SplitTurn(p, x, c)
    BY SplitIs DEF Parts
  <2>2. PICK f : IsCut(f, u, c, p)
    BY <1>2
  <2>3. Append(u, x) \in Seq(Chars)
    BY AppendProperties
  <2>4. x # c => x \in T
    OBVIOUS
  <2> HIDE DEF p, T
  <2>5. \E g : IsCut(g, Append(u, x), c, Split(Append(u, x), c))
    <3>1. CASE x = c
      BY <2>1, <2>2, <3>1, CutStarts DEF SplitTurn
    <3>2. CASE x # c
      <4>1. IsCut(f, Append(u, x), c, Append(Front(p), Append(Last(p), x)))
        BY <2>1, <2>2, <2>4, <3>2, CutGrows
      <4>2. Split(Append(u, x), c) = Append(Front(p), Append(Last(p), x))
        BY <2>1, <3>2 DEF SplitTurn
      <4> QED
        BY <4>1, <4>2
    <3> QED
      BY <3>1, <3>2
  <2> QED
    BY <2>3, <2>5
<1> HIDE DEF P
<1>3. Seq(Chars) \subseteq P
  BY <1>1, <1>2, SequenceInduction
<1> QED
  BY <1>3 DEF P

\* The query's part p starts after position a; its end is the end of the query or an
\* ampersand.
IsPart(s, a, p) ==
  /\ a \in 0..Len(s) /\ a + Len(p) <= Len(s) /\ \A i \in 1..Len(p) : p[i] = s[a + i]
  /\ a + Len(p) = Len(s) \/ s[a + Len(p) + 1] = Ampersand
  /\ \A i \in 1..Len(p) : p[i] # Ampersand
  /\ \E i \in 1..Len(p) : p[i] = Equal

\* What a part with a = is a pair of.
PairOf(p) == <<Before(p, Find(p, Equal)), After(p, Find(p, Equal))>>

\* A turn of ParseArgs() takes the pair of the part at the front of what is left.
LEMMA PairIs ==
  ASSUME NEW s \in Seq(Chars), NEW a, NEW p \in Seq(Chars), IsPart(s, a, p)
  PROVE  Pair(After(s, a)) = PairOf(p)
<1> DEFINE q == After(s, a)
           n == Len(s)
           k == Len(p)
           m == Find(p, Equal)
           e == Position(q, Ampersand)
<1>1. n \in Nat /\ k \in Nat /\ a \in 0..n /\ a + k <= n
  BY DEF IsPart
<1>2. q \in Seq(Chars) /\ Len(q) = n - a /\ \A i \in 1..(n - a) : q[i] = s[a + i]
  BY <1>1, BeforeAfter
<1>3. (\A i \in 1..k : p[i] = s[a + i] /\ p[i] # Ampersand) /\ (a + k = n \/ s[a + k + 1] = Ampersand)
  BY DEF IsPart
<1>4. m \in 1..k
  <2>1. \E i \in 1..k : p[i] = Equal
    BY DEF IsPart
  <2> QED
    BY <2>1, FindIs
<1>5. Pair(q) = <<Before(q, Position(q, Equal)), SubSeq(q, Find(q, Equal) + 1, e - 1)>>
  BY DEF Pair
<1>6. q[k + 1] = s[a + (k + 1)] \/ a + k = n
  <2>1. a + k = n \/ k + 1 \in 1..(n - a)
    BY <1>1
  <2> QED
    BY <1>2, <2>1
<1>7. a + (k + 1) = a + k + 1
  BY <1>1
<1> HIDE DEF q, n, k
<1>8. k <= Len(q) /\ \A i \in 1..k : p[i] = q[i] /\ q[i] # Ampersand
  <2>1. \A i \in 1..k : i \in 1..(n - a)
    BY <1>1
  <2> QED
    BY <1>1, <1>2, <1>3, <2>1
<1>9. StartsWith(q, p)
  BY <1>8 DEF StartsWith, k
<1>10. Find(q, Equal) = m /\ Before(q, Find(q, Equal)) = Before(p, m)
  <2>1. Find(p, Equal) # 0
    BY <1>1, <1>4
  <2> QED
    BY <1>2, <1>9, <2>1, FoundInStart
<1> HIDE DEF m
<1>11. Position(q, Equal) = m
  BY <1>4, <1>10 DEF Position
<1>12. e = k + 1
  <2>1. CASE a + k = n
    <3>1. Len(q) = k
      BY <1>1, <1>2, <2>1
    <3>2. Find(q, Ampersand) = 0
      BY <1>2, <1>8, <3>1, FindIs
    <3> QED
      BY <3>1, <3>2 DEF Position
  <2>2. CASE a + k # n
    <3>1. k + 1 \in 1..Len(q) /\ \A i \in 1..((k + 1) - 1) : i \in 1..k
      BY <1>1, <1>2, <2>2
    <3>2. q[k + 1] = Ampersand
      BY <1>3, <1>6, <1>7, <2>2
    <3>3. Find(q, Ampersand) = k + 1
      BY <1>2, <1>8, <3>1, <3>2, FoundAt
    <3> QED
      BY <1>1, <3>3 DEF Position
  <2> QED
    BY <2>1, <2>2
<1> HIDE DEF e
<1>13. SubSeq(q, m + 1, k) = After(p, m)
  <2>1. /\ m + 1 \in Int /\ k \in Int /\ Len(q) \in Nat /\ k <= Len(q)
        /\ \A i \in (m + 1)..k : i \in 1..k /\ i \in 1..Len(q)
    BY <1>1, <1>2, <1>4, <1>8
  <2>2. \A i \in (m + 1)..k : p[i] = q[i] /\ q[i] \in Chars
    BY <1>2, <1>8, <2>1
  <2> DEFINE l == IF m + 1 <= k THEN k - (m + 1) + 1 ELSE 0
             b == SubSeq(q, m + 1, k)
             d == SubSeq(p, m + 1, k)
  <2>3. b \in Seq(Chars) /\ Len(b) = l /\ \A i \in 1..l : b[i] = q[(m + 1) + i - 1]
    BY <2>1, <2>2, SubSeqProperties
  <2>4. \A i \in (m + 1)..k : p[i] \in Chars
    BY <2>2
  <2>5. d \in Seq(Chars) /\ Len(d) = l /\ \A i \in 1..l : d[i] = p[(m + 1) + i - 1]
    BY <2>1, <2>4, SubSeqProperties
  <2>6. \A i \in 1..l : (m + 1) + i - 1 \in (m + 1)..k
    BY <1>1, <1>4
  <2>7. d = After(p, m)
    BY DEF After, k
  <2> HIDE DEF l, b, d
  <2>8. b = d
    BY <2>2, <2>3, <2>5, <2>6, SeqEqual
  <2> QED
    BY <2>7, <2>8 DEF b
<1>14. e - 1 = k
  BY <1>1, <1>12
<1>15. Pair(q) = <<Before(p, m), After(p, m)>>
  BY <1>5, <1>10, <1>11, <1>13, <1>14
<1> QED
  BY <1>15 DEF q, m, PairOf

\* The parts of a query are where a cut says.
LEMMA CutIsPart ==
  ASSUME NEW s \in Seq(Chars), NEW p \in Parts(Ampersand), NEW f, IsCut(f, s, Ampersand, p),
         NEW k \in 1..Len(p), Equal \in Range(p[k])
  PROVE  IsPart(s, f[k], p[k]) /\ p[k] \in Seq(Chars)
<1> DEFINE m == Len(s)
           n == Len(p)
           a == f[k]
           t == p[k]
           b == IF k = n THEN m ELSE f[k + 1] - 1
<1>1. m \in Nat /\ n \in Nat /\ k \in 1..n /\ p \in Seq(Seq(Chars \ {Ampersand}))
  BY DEF Parts
<1>2. t \in Seq(Chars \ {Ampersand}) /\ t \in Seq(Chars) /\ Len(t) \in Nat
      /\ \A i \in 1..Len(t) : t[i] # Ampersand
  <2>1. t \in Seq(Chars \ {Ampersand})
    BY <1>1
  <2>2. Chars \ {Ampersand} \subseteq Chars
    OBVIOUS
  <2> HIDE DEF t
  <2> QED
    BY <2>1, <2>2, SeqMonotonic
<1>3. \E i \in 1..Len(t) : t[i] = Equal
  BY <1>2 DEF Range
<1>4. /\ f \in [1..n -> 0..m] /\ \A i \in 1..n : f[i] # 0 /\ f[i] \in 1..m => s[f[i]] = Ampersand
  BY DEF IsCut
<1>5. Len(t) = b - a /\ \A i \in 1..Len(t) : t[i] = s[a + i]
  BY DEF IsCut
<1>6. k = n \/ k + 1 \in 1..n
  BY <1>1
<1>7. k # n => f[k + 1] # 0 /\ f[k + 1] \in 1..m
  <2> SUFFICES ASSUME k # n PROVE f[k + 1] # 0 /\ f[k + 1] \in 1..m
    OBVIOUS
  <2>1. f[k] < f[k + 1]
    <3>1. k + 1 \in 1..n /\ k \in 1..n /\ k < k + 1
      BY <1>1, <1>6
    <3>2. \A j, i \in 1..n : j < i => f[j] < f[i]
      BY DEF IsCut
    <3> QED
      BY <3>1, <3>2
  <2>2. f[k] \in 0..m /\ f[k + 1] \in 0..m
    BY <1>1, <1>4, <1>6
  <2> QED
    BY <2>1, <2>2
<1>8. k # n => s[f[k + 1]] = Ampersand
  BY <1>4, <1>6, <1>7
<1> DEFINE c == f[k + 1]
<1>9. a \in 0..m
  BY <1>1, <1>4
<1>10. b = IF k = n THEN m ELSE c - 1
  OBVIOUS
<1> HIDE DEF a, t, b, c, m, n
<1>11. a + Len(t) = b
  <2>1. b \in Int
    BY <1>1, <1>7, <1>10 DEF c
  <2> QED
    BY <1>2, <1>5, <1>9, <2>1
<1>12. b <= m /\ (b = m \/ (b + 1 = c /\ k # n))
  BY <1>1, <1>7, <1>10 DEF c
<1>13. IsPart(s, a, t)
  <2>1. a + Len(t) <= m /\ (a + Len(t) = m \/ s[a + Len(t) + 1] = Ampersand)
    BY <1>8, <1>11, <1>12 DEF c
  <2> QED
    BY <1>2, <1>3, <1>5, <1>9, <2>1 DEF IsPart, m
<1> QED
  BY <1>2, <1>13 DEF a, t

\* The pairs, in the order in which the loop finds them: pair k starts at f[k].
ArePairs(pairs, f, n, t) ==
  /\ n \in Nat /\ f \in [1..n -> Nat] /\ \A j, k \in 1..n : j < k => f[j] < f[k]
  /\ DOMAIN pairs = {f[k] : k \in 1..n} /\ \A k \in 1..n : pairs[f[k]] = t[k]

\* The names are those of the pairs, and the pair of a name that starts first is its
\* first.
FirstCounts(pairs, n, t) ==
  /\ {pairs[j][1] : j \in DOMAIN pairs} = {t[k][1] : k \in 1..n}
  /\ \A i \in 1..n : (\A k \in 1..(i - 1) : t[k][1] # t[i][1]) =>
       pairs[Min({j \in DOMAIN pairs : pairs[j][1] = t[i][1]})][2] = t[i][2]

\* That is so when the loop finds them in their order.
LEMMA FirstPairCounts ==
  ASSUME NEW pairs, NEW f, NEW n, NEW t, ArePairs(pairs, f, n, t)
  PROVE  FirstCounts(pairs, n, t)
<1>1. /\ n \in Nat /\ f \in [1..n -> Nat] /\ \A j, k \in 1..n : j < k => f[j] < f[k]
      /\ DOMAIN pairs = {f[k] : k \in 1..n} /\ \A k \in 1..n : pairs[f[k]] = t[k]
  BY DEF ArePairs
<1>2. {pairs[j][1] : j \in DOMAIN pairs} = {t[k][1] : k \in 1..n}
  BY <1>1
<1>3. ASSUME NEW i \in 1..n, \A k \in 1..(i - 1) : t[k][1] # t[i][1]
      PROVE  pairs[Min({j \in DOMAIN pairs : pairs[j][1] = t[i][1]})][2] = t[i][2]
  <2> DEFINE S == {j \in DOMAIN pairs : pairs[j][1] = t[i][1]}
  <2>1. S \in SUBSET Nat /\ f[i] \in S
    BY <1>1
  <2>2. ASSUME NEW j \in S
        PROVE  f[i] <= j
    <3>1. PICK k \in 1..n : j = f[k]
      BY <1>1
    <3>2. t[k][1] = t[i][1]
      BY <1>1, <3>1
    <3>3. ~(k < i)
      BY <1>1, <1>3, <3>2
    <3>4. k = i \/ i < k
      BY <1>1, <3>3
    <3> QED
      BY <1>1, <3>1, <3>4
  <2> HIDE DEF S
  <2>3. PICK m \in S : (\A j \in S : m <= j) /\ Min(S) = m
    BY <2>1, LeastNumber
  <2> DEFINE a == f[i]
  <2>4. a \in Nat /\ m \in Nat /\ a <= m /\ m <= a
    BY <1>1, <2>1, <2>2, <2>3
  <2> HIDE DEF a
  <2>5. m = a
    BY <2>4
  <2>6. pairs[Min(S)][2] = t[i][2]
    BY <1>1, <2>3, <2>5 DEF a
  <2> QED
    BY <2>6 DEF S
<1> QED
  BY <1>2, <1>3 DEF FirstCounts

\* What ParseArgs() makes of a query.
ArgsOf(query) ==
  LET parts == Split(query, Ampersand)
      name(p) == Before(p, Find(p, Equal))
      args == ParseArgs(query)
  IN /\ DOMAIN args = {name(parts[i]) : i \in DOMAIN parts}
     /\ \A i \in DOMAIN parts :
          (\A k \in 1..(i - 1) : name(parts[k]) # name(parts[i]))
            => args[name(parts[i])] = After(parts[i], Find(parts[i], Equal))

\* A query in which every pair has a = is split into a map, the first of equal names
\* counting.
THEOREM QueryArgs ==
  ASSUME NEW query \in Seq(Chars), \A p \in Range(Split(query, Ampersand)) : Equal \in Range(p)
  PROVE  ArgsOf(query)
<1> DEFINE parts == Split(query, Ampersand)
           args == ParseArgs(query)
           n == Len(parts)
           pairs == [i \in Starts(query) |-> Pair(After(query, i))]
           t == [k \in 1..n |-> PairOf(parts[k])]
<1>1. Ampersand \in Chars
  BY DEF Ampersand, Chars
<1>2. parts \in Parts(Ampersand) /\ DOMAIN parts = 1..n /\ n \in Nat \ {0}
  <2>1. parts \in Parts(Ampersand)
    BY SplitIs
  <2> HIDE DEF parts
  <2> QED
    BY <2>1 DEF Parts
<1>3. PICK f : IsCut(f, query, Ampersand, parts)
  BY <1>1, SplitCuts
<1>4. \A k \in 1..n : Equal \in Range(parts[k])
  <2>1. \A k \in 1..n : parts[k] \in Range(parts)
    BY <1>2 DEF Range
  <2> QED
    BY <2>1
<1> HIDE DEF parts
<1>5. \A k \in 1..n : Pair(After(query, f[k])) = PairOf(parts[k])
  BY <1>2, <1>3, <1>4, CutIsPart, PairIs
<1>6. /\ f \in [1..n -> 0..Len(query)] /\ f[1] = 0
      /\ \A j, k \in 1..n : j < k => f[j] < f[k]
      /\ \A i \in 1..Len(query) : query[i] = Ampersand <=> \E k \in 1..n : f[k] = i
  BY <1>3 DEF IsCut
<1>7. Starts(query) = {f[k] : k \in 1..n}
  <2>1. DOMAIN query = 1..Len(query) /\ Len(query) \in Nat /\ 1 \in 1..n
    BY <1>2
  <2>2. \A i \in 0..Len(query) : i = 0 \/ i \in 1..Len(query)
    BY <2>1
  <2> QED
    BY <1>6, <2>1, <2>2 DEF Starts
<1>8. ArePairs(pairs, f, n, t)
  <2>1. f \in [1..n -> Nat]
    BY <1>6
  <2>2. \A k \in 1..n : pairs[f[k]] = t[k]
    BY <1>5, <1>7
  <2>3. DOMAIN pairs = {f[k] : k \in 1..n}
    BY <1>7
  <2> QED
    BY <1>2, <1>6, <2>1, <2>2, <2>3 DEF ArePairs
<1> DEFINE keys == {pairs[i][1] : i \in DOMAIN pairs}
<1>9. args = [key \in keys |-> pairs[Min({i \in DOMAIN pairs : pairs[i][1] = key})][2]]
  BY DEF ParseArgs
<1>10. \A k \in 1..n : /\ t[k][1] = Before(parts[k], Find(parts[k], Equal))
                       /\ t[k][2] = After(parts[k], Find(parts[k], Equal))
  BY DEF PairOf
<1> HIDE DEF pairs, t, args, n
<1>11. FirstCounts(pairs, n, t)
  BY <1>8, FirstPairCounts
<1>12. /\ keys = {t[k][1] : k \in 1..n}
       /\ \A i \in 1..n : (\A k \in 1..(i - 1) : t[k][1] # t[i][1]) =>
            pairs[Min({j \in DOMAIN pairs : pairs[j][1] = t[i][1]})][2] = t[i][2]
  BY <1>11 DEF FirstCounts
<1> HIDE DEF keys
<1>13. DOMAIN args = {Before(parts[k], Find(parts[k], Equal)) : k \in 1..n}
  BY <1>9, <1>10, <1>12
<1>14. ASSUME NEW i \in 1..n,
              \A k \in 1..(i - 1) : Before(parts[k], Find(parts[k], Equal)) # Before(parts[i], Find(parts[i], Equal))
       PROVE  args[Before(parts[i], Find(parts[i], Equal))] = After(parts[i], Find(parts[i], Equal))
  <2>1. \A k \in 1..(i - 1) : k \in 1..n
    BY <1>2
  <2>2. \A k \in 1..(i - 1) : t[k][1] # t[i][1]
    BY <1>10, <1>14, <2>1
  <2>3. t[i][1] \in keys
    BY <1>12
  <2>4. args[t[i][1]] = t[i][2]
    BY <1>9, <1>12, <2>2, <2>3
  <2> QED
    BY <1>10, <2>4
<1>15. DOMAIN parts = 1..n
  BY <1>2
<1> QED
  BY <1>13, <1>14, <1>15 DEF ArgsOf, parts, args

\* The query is a string of characters.
LEMMA QueryType ==
  ASSUME NEW l \in Seq(Chars), NEW p, p = ParseHeaderLine(l), p.good
  PROVE  p.query \in Seq(Chars)
<1>1. PICK m, rest, u : IsHeaderLine(p, l, m, rest, u)
  BY GoodLine
<1>2. rest = After(l, Find(l, Space)) /\ u = Before(rest, Find(rest, Space))
      /\ Find(l, Space) # 0 /\ Find(rest, Space) # 0
      /\ (p.query = <<>> \/ StoresResult(p, u))
  BY <1>1 DEF IsHeaderLine
<1>3. \A s \in Seq(Chars) : \A c : Find(s, c) # 0 =>
        Before(s, Find(s, c)) \in Seq(Chars) /\ After(s, Find(s, c)) \in Seq(Chars)
  <2> TAKE s \in Seq(Chars)
  <2> TAKE c
  <2> HAVE Find(s, c) # 0
  <2>1. StartsWith(s, s)
    <3>1. Len(s) \in Nat
      OBVIOUS
    <3> QED
      BY <3>1 DEF StartsWith
  <2> QED
    BY <2>1, FoundInStart
<1>4. rest \in Seq(Chars)
  BY <1>2, <1>3
<1>5. u \in Seq(Chars)
  BY <1>2, <1>3, <1>4
<1>6. Run(u).url \in Seq(Chars)
  <2>1. Run(u) \in Machines
    BY <1>5, RunIs
  <2> QED
    BY <2>1 DEF Machines
<1>7. CASE p.query = <<>>
  BY <1>7
<1>8. CASE p.query # <<>>
  <2> DEFINE v == Run(u).url
             q == Find(v, Question)
  <2>1. q # 0 /\ p.query = After(v, q)
    BY <1>2, <1>8 DEF StoresResult
  <2> HIDE DEF v
  <2>2. v \in Seq(Chars)
    BY <1>6 DEF v
  <2> QED
    BY <1>3, <2>1, <2>2
<1> QED
  BY <1>7, <1>8

-----------------------------------------------------------------------------
(* Escapes                                                                 *)

\* What a part of a URL after a percent sign is decoded to; nothing if the URL ends in it.
Decode(p) == IF Len(p) < 2 THEN <<>>
             ELSE <<(p[1] - 48) * 16 + p[2] - 48>> \o SubSeq(p, 3, Len(p))
DecodeTurn(s, p) == s \o Decode(p)

\* The URL of what is before the first percent sign and the parts after one.
Decoded(b, parts) == FoldLeft(LAMBDA s, p : s \o Decode(p), b, parts)

\* Parts that grow by a character.
LEMMA DecodeIs ==
  ASSUME NEW p \in Seq(Chars)
  PROVE  /\ Decode(p) \in Seq(Int)
         /\ Len(p) < 2 => Decode(p) = <<>>
         /\ \A c \in Chars : Decode(Append(p, c)) =
                               IF Len(p) = 0 THEN <<>>
                               ELSE IF Len(p) = 1 THEN <<(p[1] - 48) * 16 + c - 48>>
                               ELSE Append(Decode(p), c)
<1> DEFINE n == Len(p)
           e == <<(p[1] - 48) * 16 + p[2] - 48>>
           r == SubSeq(p, 3, n)
<1>1. n \in Nat /\ \A i \in 1..n : p[i] \in Chars
  OBVIOUS
<1>2. \A i \in Chars : i \in Int
  BY DEF Chars
<1>3. n < 2 => Decode(p) = <<>> /\ <<>> \in Seq(Int)
  BY DEF Decode
<1>4. n >= 2 => Decode(p) = e \o r /\ e \in Seq(Int) /\ r \in Seq(Int)
  <2> SUFFICES ASSUME n >= 2 PROVE Decode(p) = e \o r /\ e \in Seq(Int) /\ r \in Seq(Int)
    OBVIOUS
  <2>1. p[1] \in Int /\ p[2] \in Int
    BY <1>1, <1>2
  <2>2. e \in Seq(Int)
    BY <2>1
  <2>3. \A i \in 3..n : p[i] \in Int
    BY <1>1, <1>2
  <2>4. r \in Seq(Int)
    BY <1>1, <2>3, SubSeqProperties
  <2> QED
    BY <1>1, <2>2, <2>4 DEF Decode
<1>5. ASSUME NEW c \in Chars
      PROVE  Decode(Append(p, c)) = IF n = 0 THEN <<>>
                                    ELSE IF n = 1 THEN <<(p[1] - 48) * 16 + c - 48>>
                                    ELSE Append(Decode(p), c)
  <2> DEFINE a == Append(p, c)
  <2>1. /\ a \in Seq(Chars) /\ Len(a) = n + 1 /\ (\A i \in 1..n : a[i] = p[i]) /\ a[n + 1] = c
    BY AppendProperties
  <2> HIDE DEF a
  <2>2. n = 0 => Decode(a) = <<>>
    BY <2>1 DEF Decode
  <2>3. ASSUME n = 1
        PROVE  Decode(a) = <<(p[1] - 48) * 16 + c - 48>>
    <3>1. a[1] = p[1] /\ a[2] = c /\ Len(a) = 2
      BY <2>1, <2>3
    <3> DEFINE d == <<(p[1] - 48) * 16 + c - 48>>
    <3>2. d \in Seq(Int)
      BY <1>1, <1>2, <2>3
    <3>3. SubSeq(a, 3, 2) = <<>>
      BY <2>1, SubSeqEmpty
    <3>4. Decode(a) = d \o SubSeq(a, 3, 2)
      BY <3>1 DEF Decode
    <3> HIDE DEF d
    <3>5. Decode(a) = d
      BY <3>2, <3>3, <3>4, ConcatEmptySeq
    <3> QED
      BY <3>5 DEF d
  <2>4. ASSUME n >= 2
        PROVE  Decode(a) = Append(Decode(p), c)
    <3>1. Decode(a) = e \o SubSeq(a, 3, n + 1)
      <4>1. a[1] = p[1] /\ a[2] = p[2]
        BY <1>1, <2>1, <2>4
      <4> QED
        BY <1>1, <2>1, <2>4, <4>1 DEF Decode
    <3>2. SubSeq(a, 3, n + 1) = Append(r, c)
      <4> DEFINE l == n - 2
                 b == SubSeq(a, 3, n + 1)
                 d == Append(r, c)
      <4>1. \A i \in 3..(n + 1) : a[i] \in Chars
        BY <1>1, <2>1
      <4>2. b \in Seq(Chars) /\ Len(b) = l + 1 /\ \A i \in 1..(l + 1) : b[i] = a[i + 2]
        BY <1>1, <2>4, <4>1, SubSeqProperties
      <4>3. \A i \in 3..n : p[i] \in Chars
        BY <1>1
      <4>4. r \in Seq(Chars) /\ Len(r) = l /\ \A i \in 1..l : r[i] = p[i + 2]
        <5>1. /\ r \in Seq(Chars) /\ Len(r) = IF 3 <= n THEN n - 3 + 1 ELSE 0
              /\ \A i \in 1..(n - 3 + 1) : r[i] = p[3 + i - 1]
          BY <1>1, <4>3, SubSeqProperties
        <5>2. 3 <= n \/ n = 2
          <6>1. n \in Nat /\ n >= 2
            BY <1>1, <2>4
          <6> HIDE DEF n
          <6> QED
            BY <6>1
        <5>3. n - 3 + 1 = l /\ \A i \in 1..l : 3 + i - 1 = i + 2
          BY <1>1
        <5> HIDE DEF r, n, l
        <5>4. n = 2 => l = 0
          BY DEF l
        <5> QED
          BY <5>1, <5>2, <5>3, <5>4
      <4> HIDE DEF r
      <4>5. /\ d \in Seq(Chars) /\ Len(d) = l + 1 /\ (\A i \in 1..l : d[i] = r[i]) /\ d[l + 1] = c
        BY <4>4, AppendProperties
      <4>6. l \in Nat /\ l + 1 + 2 = n + 1 /\ \A i \in 1..l : i + 2 \in 1..n
        BY <1>1, <2>4
      <4> HIDE DEF l, b, d
      <4>7. ASSUME NEW i \in 1..(l + 1)
            PROVE  b[i] = d[i]
        <5>1. i = l + 1 \/ i \in 1..l
          BY <4>6
        <5> QED
          BY <2>1, <4>2, <4>4, <4>5, <4>6, <5>1
      <4>8. b = d
        BY <4>2, <4>5, <4>7, SeqEqual
      <4> QED
        BY <4>8 DEF b, d
    <3>3. e \in Seq(Int) /\ r \in Seq(Int) /\ c \in Int /\ Decode(p) = e \o r
      BY <1>2, <1>4, <2>4
    <3> HIDE DEF e, r
    <3>4. e \o Append(r, c) = Append(e \o r, c)
      <4>1. Append(r, c) = r \o <<c>> /\ <<c>> \in Seq(Int) /\ e \o r \in Seq(Int)
        BY <3>3, AppendIsConcat, ConcatProperties
      <4>2. Append(e \o r, c) = (e \o r) \o <<c>>
        BY <3>3, <4>1, AppendIsConcat
      <4> QED
        BY <3>3, <4>1, <4>2, ConcatAssociative
    <3> QED
      BY <3>1, <3>2, <3>3, <3>4
  <2>5. \A i \in Nat : i = 0 \/ (i # 0 /\ i = 1) \/ (i # 0 /\ i # 1 /\ i >= 2)
    OBVIOUS
  <2>6. n \in Nat
    BY <1>1
  <2>7. Decode(a) = IF n = 0 THEN <<>>
                    ELSE IF n = 1 THEN <<(p[1] - 48) * 16 + c - 48>>
                    ELSE Append(Decode(p), c)
    <3> HIDE DEF n
    <3>1. CASE n = 0
      BY <2>2, <3>1
    <3>2. CASE n # 0 /\ n = 1
      BY <2>3, <3>2
    <3>3. CASE n # 0 /\ n # 1 /\ n >= 2
      BY <2>4, <3>3
    <3> QED
      BY <2>5, <2>6, <3>1, <3>2, <3>3
  <2> QED
    BY <2>7 DEF a
<1>6. Decode(p) \in Seq(Int)
  <2> HIDE DEF e, r, n
  <2>1. e \in Seq(Int) /\ r \in Seq(Int) => e \o r \in Seq(Int)
    BY ConcatProperties
  <2>2. CASE n < 2
    BY <1>3, <2>2
  <2>3. CASE n >= 2
    <3>1. Decode(p) = e \o r /\ e \o r \in Seq(Int)
      BY <1>4, <2>1, <2>3
    <3> QED
      BY <3>1
  <2>4. n < 2 \/ n >= 2
    BY <1>1
  <2> QED
    BY <2>2, <2>3, <2>4
<1> QED
  BY <1>3, <1>5, <1>6

\* A turn of the fold takes a string to a string.
LEMMA DecodeTurnType ==
  ASSUME NEW s \in Seq(Int), NEW p \in Seq(Chars)
  PROVE  DecodeTurn(s, p) \in Seq(Int)
  BY DecodeIs, ConcatProperties DEF DecodeTurn

\* Function h is the table of the fold Decoded().
DecodedOf(h, parts, b) ==
  h = [d \in SUBSET DOMAIN parts |->
         IF d = {} THEN b ELSE DecodeTurn(h[d \ {Max(d)}], parts[Max(d)])]

\* Decoded() is a fold.
LEMMA DecodedTurns ==
  ASSUME NEW parts \in Seq(Seq(Chars)), NEW b \in Seq(Int), NEW step,
         step = [p \in Seq(Int) \X Seq(Chars) |-> DecodeTurn(p[1], p[2])]
  PROVE  /\ b \in Seq(Int) /\ step \in [Seq(Int) \X Seq(Chars) -> Seq(Int)]
         /\ \E h : AreTurns(h, b, step, parts, Seq(Int)) /\ Decoded(b, parts) = h[1..Len(parts)]
<1>1. /\ step \in [Seq(Int) \X Seq(Chars) -> Seq(Int)]
      /\ \A a \in Seq(Int) : \A x \in Seq(Chars) : step[<<a, x>>] = DecodeTurn(a, x)
  BY DecodeTurnType
<1>2. b \in Seq(Int)
  OBVIOUS
<1>3. DOMAIN parts = 1..Len(parts) /\ Len(parts) \in Nat /\ \A i \in 1..Len(parts) : parts[i] \in Seq(Chars)
  OBVIOUS
<1>4. PICK h \in [SUBSET (1..Len(parts)) -> Seq(Int)] : IsFoldTable(h, b, step, parts)
  BY <1>1, <1>2, FoldTable
<1>5. ASSUME NEW d \in SUBSET DOMAIN parts
      PROVE  h[d] = IF d = {} THEN b ELSE DecodeTurn(h[d \ {Max(d)}], parts[Max(d)])
  <2>1. CASE d = {}
    BY <1>3, <1>4, <2>1 DEF IsFoldTable
  <2>2. CASE d # {}
    <3>1. PICK m \in d : Max(d) = m
      BY <1>3, <2>2, GreatestNumber
    <3>2. h[d \ {Max(d)}] \in Seq(Int) /\ parts[Max(d)] \in Seq(Chars)
      BY <1>3, <3>1
    <3> QED
      BY <1>1, <1>3, <1>4, <2>2, <3>2 DEF IsFoldTable
  <2> QED
    BY <2>1, <2>2
<1>6. DecodedOf(h, parts, b)
  BY <1>3, <1>5 DEF DecodedOf
<1>7. PICK t : t = CHOOSE g : DecodedOf(g, parts, b)
  OBVIOUS
<1>8. DecodedOf(t, parts, b)
  BY <1>6, <1>7
<1>9. Decoded(b, parts) = t[1..Len(parts)]
  <2>1. Decoded(b, parts) = (CHOOSE g : DecodedOf(g, parts, b))[DOMAIN parts]
    BY Zenon DEF Decoded, DecodeTurn, FoldLeft, MapThenFoldSet, DecodedOf
  <2> QED
    BY <1>3, <1>7, <2>1
<1>10. AreTurns(t, b, step, parts, Seq(Int))
  <2>1. \A d \in SUBSET DOMAIN parts :
          t[d] = IF d = {} THEN b ELSE DecodeTurn(t[d \ {Max(d)}], parts[Max(d)])
    BY <1>8 DEF DecodedOf
  <2>2. \A k \in 1..Len(parts) : t[1..k] = DecodeTurn(t[1..(k - 1)], parts[k])
    BY <1>3, <2>1, Segments1
  <2>3. t[1..0] = b
    <3>1. 1..0 = {} /\ {} \in SUBSET DOMAIN parts
      OBVIOUS
    <3> QED
      BY <2>1, <3>1, Zenon
  <2> QED
    BY <1>1, <1>3, <2>2, <2>3 DEF AreTurns
<1> QED
  BY <1>1, <1>2, <1>9, <1>10

\* What no parts after a percent sign add, and one more part.
LEMMA DecodedIs ==
  ASSUME NEW b \in Seq(Int)
  PROVE  /\ Decoded(b, <<>>) = b
         /\ \A parts \in Seq(Seq(Chars)) :
              /\ Decoded(b, parts) \in Seq(Int)
              /\ \A x \in Seq(Chars) : Decoded(b, Append(parts, x)) = DecodeTurn(Decoded(b, parts), x)
<1> DEFINE step == [p \in Seq(Int) \X Seq(Chars) |-> DecodeTurn(p[1], p[2])]
           f == [s \in Seq(Seq(Chars)) |-> Decoded(b, s)]
<1>1. \A s \in Seq(Seq(Chars)) :
        /\ b \in Seq(Int) /\ step \in [Seq(Int) \X Seq(Chars) -> Seq(Int)]
        /\ \E h : AreTurns(h, b, step, s, Seq(Int)) /\ f[s] = h[1..Len(s)]
  BY DecodedTurns
<1>2. IsFoldOf(f, b, step, Seq(Int), Seq(Chars))
  <2>1. <<>> \in Seq(Seq(Chars))
    OBVIOUS
  <2> HIDE DEF f, step
  <2> QED
    BY <1>1, <2>1 DEF IsFoldOf
<1>3. /\ f[<<>>] = b
      /\ \A s \in Seq(Seq(Chars)) : f[s] \in Seq(Int) /\ \A x \in Seq(Chars) : f[Append(s, x)] = step[<<f[s], x>>]
  <2> HIDE DEF f, step
  <2> QED
    BY <1>2, FoldLaws
<1>4. \A a \in Seq(Int) : \A x \in Seq(Chars) : step[<<a, x>>] = DecodeTurn(a, x)
  OBVIOUS
<1>5. /\ <<>> \in Seq(Seq(Chars))
      /\ \A s \in Seq(Seq(Chars)) : f[s] = Decoded(b, s) /\ \A x \in Seq(Chars) : f[Append(s, x)] = Decoded(b, Append(s, x))
  BY AppendProperties
<1> HIDE DEF f, step
<1> QED
  BY <1>3, <1>4, <1>5, ZenonT(60)

\* Every part after a percent sign starts with two digits, but for the last, which may
\* be shorter.
IsValid(p) == \A i \in 2..Len(p) : /\ Len(p[i]) >= 2 \/ i = Len(p)
                                   /\ \A k \in 1..2 \cap DOMAIN p[i] : IsDigit(p[i][k])

\* A last part that is an escape is not whole yet.
IsOpen(p) == Len(p) >= 2 /\ Len(Last(p)) < 2

\* Parts p end with l.
EndsWith(p, l) == /\ p \in Parts(Percent) /\ p # <<>> /\ l = Last(p) /\ l \in Seq(Chars)
                  /\ Len(p) \in Nat \ {0} /\ Len(l) \in Nat /\ l = p[Len(p)]
                  /\ Front(p) \in Seq(Seq(Chars \ {Percent})) /\ Len(Front(p)) = Len(p) - 1
                  /\ p = Append(Front(p), l)

\* The parts of a string end with one, and what stands before it are parts.
LEMMA PartsEnd ==
  ASSUME NEW p \in Parts(Percent)
  PROVE  EndsWith(p, Last(p))
<1>1. p \in Seq(Seq(Chars \ {Percent})) /\ p # <<>>
  BY DEF Parts
<1>2. /\ Front(p) \in Seq(Seq(Chars \ {Percent})) /\ Last(p) \in Seq(Chars \ {Percent})
      /\ Len(Front(p)) = Len(p) - 1 /\ Len(p) \in Nat \ {0} /\ p = Append(Front(p), Last(p))
  BY <1>1, FrontLast
<1>3. Last(p) = p[Len(p)]
  BY DEF Last
<1> DEFINE l == Last(p)
<1>4. l \in Seq(Chars) /\ Len(l) \in Nat
  <2>1. Chars \ {Percent} \subseteq Chars
    OBVIOUS
  <2> HIDE DEF l
  <2>2. l \in Seq(Chars \ {Percent})
    BY <1>2 DEF l
  <2> QED
    BY <2>1, <2>2, SeqMonotonic
<1> QED
  BY <1>1, <1>2, <1>3, <1>4 DEF EndsWith

\* Sequence q is p with one more part at its end, or with another last part.
IsMoreParts(q, p, x) == /\ Len(q) = Len(p) + 1 /\ q[Len(p) + 1] = x
                        /\ \A i \in 1..Len(p) : q[i] = p[i]
IsOtherLast(q, p, x) == /\ Len(q) = Len(p) /\ q[Len(p)] = x
                        /\ \A i \in 1..(Len(p) - 1) : q[i] = p[i]

\* A percent sign in an escape that is not whole makes the URL invalid, and no other does.
LEMMA ValidMore ==
  ASSUME NEW p, NEW l, EndsWith(p, l), NEW q, IsMoreParts(q, p, <<>>)
  PROVE  IsValid(q) <=> IsValid(p) /\ ~IsOpen(p)
<1> DEFINE n == Len(p)
<1>1. /\ n \in Nat \ {0} /\ Len(q) = n + 1 /\ q[n + 1] = <<>> /\ \A i \in 1..n : q[i] = p[i]
      /\ l = p[n] /\ l = Last(p) /\ Len(l) \in Nat
  BY DEF EndsWith, IsMoreParts
<1> DEFINE Two(x) == \A k \in 1..2 \cap DOMAIN x : IsDigit(x[k])
<1>2. IsValid(q) <=> \A i \in 2..(n + 1) : (Len(q[i]) >= 2 \/ i = n + 1) /\ Two(q[i])
  BY <1>1 DEF IsValid
<1>3. IsValid(p) <=> \A i \in 2..n : (Len(p[i]) >= 2 \/ i = n) /\ Two(p[i])
  BY DEF IsValid
<1>4. IsOpen(p) <=> n >= 2 /\ ~(Len(l) >= 2)
  BY <1>1 DEF IsOpen
<1>5. Two(<<>>)
  OBVIOUS
<1> HIDE DEF Two, n
<1>6. \A i \in 2..(n + 1) : i = n + 1 \/ (i \in 2..n /\ i \in 1..n /\ i # n + 1)
  BY <1>1
<1>7. \A i \in 2..n : i \in 2..(n + 1) /\ i \in 1..n /\ i # n + 1
  BY <1>1
<1>8. n >= 2 => n \in 2..n
  BY <1>1
<1>9. ASSUME IsValid(q) PROVE IsValid(p) /\ ~IsOpen(p)
  <2>1. \A i \in 2..n : Len(p[i]) >= 2 /\ Two(p[i])
    BY <1>1, <1>2, <1>7, <1>9
  <2> QED
    BY <1>1, <1>3, <1>4, <1>8, <2>1
<1>10. ASSUME IsValid(p), ~IsOpen(p) PROVE IsValid(q)
  <2>1. n >= 2 => Len(l) >= 2
    BY <1>4, <1>10
  <2>2. ASSUME NEW i \in 2..n PROVE Len(q[i]) >= 2 /\ Two(q[i])
    <3>1. q[i] = p[i] /\ Two(p[i]) /\ (Len(p[i]) >= 2 \/ i = n)
      BY <1>1, <1>3, <1>7, <1>10
    <3>2. n >= 2
      BY <1>1
    <3> QED
      BY <1>1, <2>1, <3>1, <3>2
  <2>3. Two(q[n + 1])
    BY <1>1, <1>5
  <2> QED
    BY <1>2, <1>6, <2>2, <2>3
<1> QED
  BY <1>9, <1>10

\* Another character at the end of an escape that is not whole must be a digit.
LEMMA ValidGrows ==
  ASSUME NEW p, NEW l, EndsWith(p, l), NEW c \in Chars, NEW q, IsOtherLast(q, p, Append(l, c))
  PROVE  IsValid(q) <=> IsValid(p) /\ (IsOpen(p) => IsDigit(c))
<1> DEFINE n == Len(p)
           m == Len(l)
           a == Append(l, c)
<1>1. /\ n \in Nat \ {0} /\ Len(q) = n /\ q[n] = a /\ \A i \in 1..(n - 1) : q[i] = p[i]
      /\ l = p[n] /\ l = Last(p) /\ m \in Nat
  BY DEF EndsWith, IsOtherLast
<1>2. Len(a) = m + 1 /\ (\A k \in 1..m : a[k] = l[k]) /\ a[m + 1] = c
      /\ DOMAIN a = 1..(m + 1) /\ DOMAIN l = 1..m
  BY AppendProperties DEF EndsWith
<1> DEFINE Two(x) == \A k \in 1..2 \cap DOMAIN x : IsDigit(x[k])
<1>3. IsValid(q) <=> \A i \in 2..n : (Len(q[i]) >= 2 \/ i = n) /\ Two(q[i])
  BY <1>1 DEF IsValid
<1>4. IsValid(p) <=> \A i \in 2..n : (Len(p[i]) >= 2 \/ i = n) /\ Two(p[i])
  BY DEF IsValid
<1>5. IsOpen(p) <=> n >= 2 /\ m < 2
  BY <1>1 DEF IsOpen
<1> HIDE DEF n, m, a
<1>6. Two(a) <=> Two(l) /\ (m < 2 => IsDigit(c))
  <2>1. \A k \in 1..2 \cap DOMAIN a : k = m + 1 \/ k \in 1..2 \cap DOMAIN l
    BY <1>1, <1>2
  <2>2. \A k \in 1..2 \cap DOMAIN l : k \in 1..2 \cap DOMAIN a /\ a[k] = l[k]
    BY <1>1, <1>2
  <2>3. m + 1 \in 1..2 \cap DOMAIN a <=> m < 2
    BY <1>1, <1>2
  <2> QED
    BY <1>2, <2>1, <2>2, <2>3
<1> HIDE DEF Two
<1>7. \A i \in 2..n : i = n \/ (i \in 1..(n - 1) /\ i # n)
  BY <1>1
<1>8. n >= 2 <=> n \in 2..n
  BY <1>1
<1>9. \A i \in 2..n : n >= 2
  BY <1>1
<1>10. ASSUME NEW i \in 2..n
       PROVE  (Len(q[i]) >= 2 \/ i = n) /\ Two(q[i])
                <=> (Len(p[i]) >= 2 \/ i = n) /\ Two(p[i]) /\ (i = n /\ m < 2 => IsDigit(c))
  <2>1. CASE i = n
    BY <1>1, <1>6, <2>1
  <2>2. CASE i # n
    <3>1. q[i] = p[i]
      BY <1>1, <1>7, <2>2
    <3> QED
      BY <2>2, <3>1
  <2> QED
    BY <2>1, <2>2
<1> QED
  BY <1>3, <1>4, <1>5, <1>8, <1>9, <1>10

\* What the parts of a URL are decoded to.
Meaning(p) == Decoded(p[1], Tail(p))

\* The meaning of parts that end with l is that of those before it and what l adds.
LEMMA MeaningIs ==
  ASSUME NEW f \in Seq(Seq(Chars)), NEW l \in Seq(Chars)
  PROVE  /\ f = <<>> => Meaning(Append(f, l)) = l
         /\ f # <<>> => /\ Meaning(f) \in Seq(Int)
                        /\ Meaning(Append(f, l)) = Meaning(f) \o Decode(l)
<1>1. l \in Seq(Int) /\ \A s \in Seq(Chars) : s \in Seq(Int)
  <2>1. Chars \subseteq Int
    BY DEF Chars
  <2> QED
    BY <2>1, SeqMonotonic
<1>2. ASSUME f = <<>>
      PROVE  Meaning(Append(f, l)) = l
  <2> DEFINE a == Append(f, l)
  <2>1. a = <<l>> /\ Len(<<l>>) = 1 /\ <<l>>[1] = l /\ Tail(<<l>>) = <<>>
    BY <1>2
  <2> HIDE DEF a
  <2>2. Meaning(a) = Decoded(l, <<>>)
    BY <2>1 DEF Meaning
  <2>3. Decoded(l, <<>>) = l
    BY <1>1, DecodedIs
  <2> QED
    BY <2>2, <2>3 DEF a
<1>3. ASSUME f # <<>>
      PROVE  /\ Meaning(f) \in Seq(Int)
             /\ Meaning(Append(f, l)) = Meaning(f) \o Decode(l)
  <2> DEFINE a == Append(f, l)
             T == Seq(Chars)
             b == f[1]
             t == Tail(f)
  <2>1. f \in Seq(T) /\ l \in T
    OBVIOUS
  <2> HIDE DEF T
  <2>2. b \in T /\ t \in Seq(T) /\ a[1] = b
    BY <1>3, <2>1
  <2>3. Tail(a) = Append(t, l)
    BY <1>3, <2>1, HeadTailAppend
  <2>4. Meaning(f) = Decoded(b, t)
    BY DEF Meaning
  <2>5. Meaning(a) = Decoded(b, Append(t, l))
    BY <2>2, <2>3 DEF Meaning
  <2> HIDE DEF b, t, a
  <2>6. b \in Seq(Int) /\ t \in Seq(Seq(Chars))
    BY <1>1, <2>2 DEF T
  <2>7. Decoded(b, t) \in Seq(Int) /\ Decoded(b, Append(t, l)) = DecodeTurn(Decoded(b, t), l)
    BY <2>6, DecodedIs
  <2> QED
    BY <2>4, <2>5, <2>7 DEF DecodeTurn, a
<1> QED
  BY <1>2, <1>3

\* A new part adds nothing.
LEMMA MeaningMore ==
  ASSUME NEW p, NEW l, EndsWith(p, l)
  PROVE  Meaning(p) \in Seq(Int) /\ Meaning(Append(p, <<>>)) = Meaning(p)
<1>1. p \in Seq(Seq(Chars)) /\ p # <<>>
  <2>1. p \in Seq(Seq(Chars \ {Percent})) /\ p # <<>>
    BY DEF EndsWith, Parts
  <2>2. Seq(Chars \ {Percent}) \subseteq Seq(Chars)
    <3>1. Chars \ {Percent} \subseteq Chars
      OBVIOUS
    <3> QED
      BY <3>1, SeqMonotonic
  <2> QED
    BY <2>1, <2>2, SeqMonotonic
<1> DEFINE e == <<>>
<1>2. e \in Seq(Chars)
  OBVIOUS
<1>3. Decode(e) = e
  BY DEF Decode
<1> HIDE DEF e
<1>4. Meaning(p) \in Seq(Int) /\ Meaning(Append(p, e)) = Meaning(p) \o Decode(e)
  BY <1>1, <1>2, MeaningIs
<1>5. Meaning(p) \o <<>> = Meaning(p)
  BY <1>4, ConcatEmptySeq
<1> QED
  BY <1>3, <1>4, <1>5 DEF e

\* Parts q have the meaning of p and of character c that follows them.
MeansMore(q, p, l, c) ==
  /\ ~IsOpen(p) => Meaning(q) = Append(Meaning(p), c)
  /\ IsOpen(p) /\ Len(l) = 0 => Meaning(q) = Meaning(p)
  /\ IsOpen(p) /\ Len(l) = 1 => Meaning(q) = Append(Meaning(p), (l[1] - 48) * 16 + c - 48)

\* A character adds itself to the meaning, or is half of an escape.
LEMMA MeaningGrows ==
  ASSUME NEW p, NEW l, EndsWith(p, l), NEW c \in Chars, NEW q, q = Append(Front(p), Append(l, c))
  PROVE  MeansMore(q, p, l, c)
<1> DEFINE f == Front(p)
           a == Append(l, c)
           d == (l[1] - 48) * 16 + c - 48
<1>1. /\ l \in Seq(Chars) /\ Len(l) \in Nat /\ l = Last(p) /\ p = Append(f, l) /\ Len(f) = Len(p) - 1
      /\ Len(p) \in Nat \ {0}
  BY DEF EndsWith
<1>2. f \in Seq(Seq(Chars))
  <2>1. Seq(Chars \ {Percent}) \subseteq Seq(Chars)
    <3>1. Chars \ {Percent} \subseteq Chars
      OBVIOUS
    <3> QED
      BY <3>1, SeqMonotonic
  <2>2. f \in Seq(Seq(Chars \ {Percent}))
    BY DEF EndsWith
  <2> QED
    BY <2>1, <2>2, SeqMonotonic
<1>3. a \in Seq(Chars)
  BY <1>1, AppendProperties
<1>4. /\ Decode(a) = IF Len(l) = 0 THEN <<>> ELSE IF Len(l) = 1 THEN <<d>> ELSE Append(Decode(l), c)
      /\ Decode(l) \in Seq(Int) /\ (Len(l) < 2 => Decode(l) = <<>>)
  BY <1>1, DecodeIs
<1>5. IsOpen(p) <=> Len(p) >= 2 /\ Len(l) < 2
  BY <1>1 DEF IsOpen
<1>6. q = Append(f, a)
  OBVIOUS
<1>7. c \in Int /\ (Len(l) = 1 => d \in Int)
  <2>1. \A x \in Chars : x \in Int
    BY DEF Chars
  <2>2. Len(l) = 1 => l[1] \in Chars
    BY <1>1
  <2> QED
    BY <2>1, <2>2
<1> HIDE DEF f, a
<1>8. CASE f = <<>>
  <2>1. Meaning(q) = a /\ Meaning(p) = l
    <3>1. Meaning(q) = a
      BY <1>2, <1>3, <1>6, <1>8, MeaningIs
    <3>2. Meaning(p) = l
      BY <1>1, <1>2, <1>8, MeaningIs
    <3> QED
      BY <3>1, <3>2
  <2>2. Len(p) = 1
    <3>1. Len(f) = 0
      BY <1>8
    <3> QED
      BY <1>1, <3>1
  <2>3. ~IsOpen(p)
    BY <1>5, <2>2
  <2> QED
    BY <2>1, <2>3 DEF MeansMore, a
<1>9. CASE f # <<>>
  <2> DEFINE m == Meaning(f)
  <2>1. m \in Seq(Int) /\ Meaning(q) = m \o Decode(a)
    BY <1>2, <1>3, <1>6, <1>9, MeaningIs
  <2>2. Meaning(p) = m \o Decode(l)
    BY <1>1, <1>2, <1>9, MeaningIs
  <2>3. Len(p) >= 2
    <3>1. Len(f) # 0
      BY <1>2, <1>9
    <3> QED
      BY <1>1, <3>1
  <2> HIDE DEF m, d
  <2>4. ASSUME ~IsOpen(p) PROVE Meaning(q) = Append(Meaning(p), c)
    <3>1. Len(l) # 0 /\ Len(l) # 1
      BY <1>1, <1>5, <2>3, <2>4
    <3> DEFINE x == Decode(l)
    <3>2. Decode(a) = Append(x, c) /\ x \in Seq(Int)
      BY <1>4, <3>1
    <3> HIDE DEF x
    <3>3. Append(x, c) = x \o <<c>> /\ <<c>> \in Seq(Int) /\ m \o x \in Seq(Int)
      BY <1>7, <2>1, <3>2, AppendIsConcat, ConcatProperties
    <3>4. Append(m \o x, c) = (m \o x) \o <<c>>
      BY <1>7, <3>3, AppendIsConcat
    <3>5. m \o (x \o <<c>>) = (m \o x) \o <<c>>
      BY <2>1, <3>2, <3>3, ConcatAssociative
    <3> QED
      BY <2>1, <2>2, <3>2, <3>3, <3>4, <3>5 DEF x
  <2>5. m \o <<>> = m
    BY <2>1, ConcatEmptySeq
  <2>6. ASSUME IsOpen(p) PROVE Meaning(p) = m
    BY <1>4, <1>5, <2>2, <2>5, <2>6
  <2>7. ASSUME IsOpen(p), Len(l) = 0 PROVE Meaning(q) = m
    BY <1>4, <2>1, <2>5, <2>7
  <2>8. ASSUME IsOpen(p), Len(l) = 1 PROVE Meaning(q) = Append(m, d)
    <3>1. Decode(a) = <<d>> /\ d \in Int
      BY <1>4, <1>7, <2>8
    <3>2. Append(m, d) = m \o <<d>>
      BY <2>1, <3>1, AppendIsConcat
    <3> QED
      BY <2>1, <3>1, <3>2
  <2> QED
    BY <2>4, <2>6, <2>7, <2>8 DEF MeansMore, d
<1> QED
  BY <1>8, <1>9

\* A turn in an escape: a digit is stored, or completes the code, which is appended.
LEMMA FeedEscape ==
  ASSUME NEW m \in Machines, m.ok, m.state \in {"kPersentFirst", "kPersentSecond"},
         NEW c \in Chars, IsPercentDigit(c) => IsDigit(c), NEW n, n = Feed(m, c)
  PROVE  /\ ~IsDigit(c) => ~n.ok
         /\ IsDigit(c) /\ m.state = "kPersentFirst" =>
              /\ n.ok /\ n.state = "kPersentSecond" /\ n.digit = c - 48
              /\ n.url = m.url /\ n.trap = m.trap
         /\ IsDigit(c) /\ m.state = "kPersentSecond" /\ m.digit \in 0..9 =>
              /\ n.ok /\ n.state = m.trap /\ n.url = Append(m.url, m.digit * 16 + c - 48)
<1>1. n = FeedPercent(m, c)
  BY DEF Feed
<1>2. IsDigit(c) <=> IsPercentDigit(c)
  BY DEF IsPercentDigit
<1>3. CASE ~IsDigit(c)
  <2>1. n = [m EXCEPT !.ok = FALSE]
    BY <1>1, <1>2, <1>3 DEF FeedPercent
  <2>2. ~n.ok
    BY <2>1 DEF Machines
  <2> QED
    BY <1>3, <2>2
<1>4. CASE IsDigit(c)
  <2> DEFINE v == DigitValue(c)
             d == v % 256
             code == (m.digit * 16 + v) % 256
  <2>1. v = c - 48 /\ v \in 0..9
    BY <1>4 DEF DigitValue, IsDigit
  <2> HIDE DEF v
  <2>2. d = c - 48
    BY <2>1
  <2>3. CASE m.state = "kPersentFirst"
    <3>1. n = [m EXCEPT !.state = "kPersentSecond", !.digit = d]
      BY <1>1, <1>2, <1>4, <2>3 DEF FeedPercent, v
    <3> HIDE DEF d
    <3>2. n.ok /\ n.state = "kPersentSecond" /\ n.digit = d /\ n.url = m.url /\ n.trap = m.trap
      BY <3>1 DEF Machines
    <3> QED
      BY <1>4, <2>2, <2>3, <3>2
  <2>4. CASE m.state = "kPersentSecond"
    <3>1. n = [m EXCEPT !.state = m.trap, !.digit = code, !.url = Append(@, code)]
      BY <1>1, <1>2, <1>4, <2>4 DEF FeedPercent, v
    <3> DEFINE a == Append(m.url, code)
    <3>2. m.digit \in 0..9 => code = m.digit * 16 + c - 48
      <4> DEFINE g == m.digit
      <4> HIDE DEF g
      <4>1. ASSUME g \in 0..9 PROVE (g * 16 + v) % 256 = g * 16 + c - 48
        <5>1. g * 16 + v \in 0..255 /\ g * 16 + v = g * 16 + c - 48
          BY <2>1, <4>1 DEF Chars
        <5>2. \A i \in 0..255 : i % 256 = i
          OBVIOUS
        <5> QED
          BY <5>1, <5>2
      <4> QED
        BY <4>1 DEF g
    <3> HIDE DEF code, a
    <3>3. n.ok /\ n.state = m.trap /\ n.url = a
      BY <3>1 DEF Machines, a
    <3> QED
      BY <1>4, <2>4, <3>2, <3>3 DEF a
  <2> QED
    BY <2>3, <2>4
<1> QED
  BY <1>3, <1>4

\* A percent sign outside an escape starts one, and inside it is an error.
LEMMA FeedSign ==
  ASSUME NEW m \in Machines, m.ok, NEW n, n = Feed(m, Percent)
  PROVE  /\ m.state \notin Places => ~n.ok
         /\ m.state \in Places =>
              n.ok /\ n.state = "kPersentFirst" /\ n.trap = m.state /\ n.url = m.url
<1>1. Percent \in Chars /\ ~IsPercentDigit(Percent) /\ ~IsDigit(Percent)
  BY DEF Percent, Chars, IsPercentDigit, LowerCase, IsDigit
<1>2. CASE m.state \notin Places
  <2>1. m.state \in {"kPersentFirst", "kPersentSecond"}
    BY <1>2 DEF Machines
  <2> QED
    BY <1>1, <1>2, <2>1, FeedEscape
<1>3. CASE m.state \in Places
  <2>1. n = [m EXCEPT !.state = "kPersentFirst", !.trap = m.state]
    BY <1>3 DEF Feed, Places
  <2>2. n.ok /\ n.state = "kPersentFirst" /\ n.trap = m.state /\ n.url = m.url
    BY <2>1 DEF Machines
  <2> QED
    BY <1>3, <2>2
<1> QED
  BY <1>2, <1>3

\* Another character outside an escape is copied, unless it makes an empty or a dot segment.
LEMMA FeedOther ==
  ASSUME NEW m \in Machines, m.ok, m.state \in Places, NEW c \in Chars, c # Percent,
         NEW n, n = Feed(m, c)
  PROVE  /\ n.ok /\ n.state \in Places
         /\ m.state = "kUsual" \/ (m.state = "kSlash" /\ c \notin {Slash, Dot}) =>
              /\ n.url = Append(m.url, c)
              /\ n.state = IF c = Slash THEN "kSlash" ELSE "kUsual"
<1>1. n = FeedPlain(m, c)
  BY DEF Feed, Places
<1>2. /\ n.ok = m.ok /\ n.state = Target(m.state, c)
      /\ n.url = IF m.state = "kDoubleDot" /\ c = Slash THEN EraseSegment(m.url)
                 ELSE IF Copies(m.state, c) THEN Append(m.url, c) ELSE m.url
  <2>1. /\ FeedPlain(m, c).ok = m.ok /\ FeedPlain(m, c).state = Target(m.state, c)
        /\ FeedPlain(m, c).url = IF m.state = "kDoubleDot" /\ c = Slash THEN EraseSegment(m.url)
                                 ELSE IF Copies(m.state, c) THEN Append(m.url, c) ELSE m.url
    BY FeedPlainIs
  <2> QED
    BY <1>1, <2>1, Zenon
<1>3. Target(m.state, c) \in Places
  BY DEF Target, Places
<1>4. ASSUME m.state = "kUsual" \/ (m.state = "kSlash" /\ c \notin {Slash, Dot})
      PROVE  /\ Target(m.state, c) = IF c = Slash THEN "kSlash" ELSE "kUsual"
             /\ Copies(m.state, c)
  BY <1>4 DEF Target, Copies
<1> QED
  BY <1>2, <1>3, <1>4

\* No slash in a text is followed by a slash, a dot or an escape.
IsSimple(text) == \A i \in 1..(Len(text) - 1) :
                    text[i] = Slash => text[i + 1] \notin {Slash, Dot, Percent}

\* The machine m has read text u, of which p are the parts and l is the last: it has an
\* error if they are not valid, it is in an escape if the last part is not whole, and
\* if the text is simple its URL is what they mean.
Follows(u, m, p, l) ==
  /\ m.ok <=> IsValid(p)
  /\ m.ok => /\ ~IsOpen(p) => m.state \in Places
             /\ IsOpen(p) => m.state = IF Len(l) = 0 THEN "kPersentFirst" ELSE "kPersentSecond"
             /\ IsOpen(p) /\ Len(l) = 1 => IsDigit(l[1]) /\ m.digit = l[1] - 48
  /\ m.ok /\ IsSimple(u) =>
       /\ m.url = Meaning(p)
       /\ IF IsOpen(p) THEN m.trap = "kUsual"
          ELSE m.state = IF u # <<>> /\ Last(u) = Slash THEN "kSlash" ELSE "kUsual"

\* A text that starts another.
LEMMA SimpleStarts ==
  ASSUME NEW u \in Seq(Chars), NEW c \in Chars
  PROVE  /\ Append(u, c) # <<>> /\ Last(Append(u, c)) = c
         /\ IsSimple(Append(u, c)) =>
              IsSimple(u) /\ (u # <<>> /\ Last(u) = Slash => c \notin {Slash, Dot, Percent})
<1> DEFINE v == Append(u, c)
           n == Len(u)
<1>1. /\ n \in Nat /\ v \in Seq(Chars) /\ Len(v) = n + 1 /\ v[n + 1] = c
      /\ (\A i \in 1..n : v[i] = u[i]) /\ (u # <<>> => n \in 1..n)
  BY AppendProperties
<1> HIDE DEF v
<1>2. v # <<>> /\ Last(v) = c
  BY <1>1 DEF Last
<1>3. ASSUME IsSimple(v)
      PROVE  IsSimple(u) /\ (u # <<>> /\ Last(u) = Slash => c \notin {Slash, Dot, Percent})
  <2>1. \A i \in 1..n : v[i] = Slash => v[i + 1] \notin {Slash, Dot, Percent}
    <3>1. Len(v) - 1 = n
      BY <1>1
    <3> QED
      BY <1>3, <3>1 DEF IsSimple
  <2>2. \A i \in 1..(n - 1) : i \in 1..n /\ i + 1 \in 1..n
    BY <1>1
  <2>3. IsSimple(u)
    BY <1>1, <2>1, <2>2 DEF IsSimple
  <2>4. u # <<>> /\ Last(u) = Slash => c \notin {Slash, Dot, Percent}
    BY <1>1, <2>1 DEF Last
  <2> QED
    BY <2>3, <2>4
<1> QED
  BY <1>2, <1>3 DEF v

\* The machine follows a percent sign.
LEMMA FollowsSign ==
  ASSUME NEW u \in Seq(Chars), NEW m \in Machines, NEW p, NEW l, EndsWith(p, l),
         Follows(u, m, p, l), NEW n, n = Feed(m, Percent)
  PROVE  Follows(Append(u, Percent), n, Append(p, <<>>), <<>>)
<1> DEFINE v == Append(u, Percent)
           q == Append(p, <<>>)
<1>1. p \in Seq(Seq(Chars \ {Percent})) /\ Len(p) \in Nat \ {0}
  BY DEF EndsWith, Parts
<1>2. IsMoreParts(q, p, <<>>) /\ Last(q) = <<>> /\ Len(q) = Len(p) + 1
  <2> DEFINE T == Seq(Chars \ {Percent})
             e == <<>>
  <2>1. p \in Seq(T) /\ e \in T
    BY <1>1
  <2> HIDE DEF T, e
  <2>2. /\ Len(Append(p, e)) = Len(p) + 1 /\ Append(p, e)[Len(p) + 1] = e
        /\ (\A i \in 1..Len(p) : Append(p, e)[i] = p[i]) /\ Last(Append(p, e)) = e
    BY <2>1, AppendProperties, AppendParts
  <2> QED
    BY <2>2 DEF IsMoreParts, e
<1>3. IsValid(q) <=> IsValid(p) /\ ~IsOpen(p)
  BY <1>2, ValidMore
<1>4. Meaning(q) = Meaning(p)
  BY MeaningMore
<1>5. Percent \in Chars
  BY DEF Percent, Chars
<1>6. v # <<>> /\ Last(v) = Percent
      /\ (IsSimple(v) => IsSimple(u) /\ (u # <<>> /\ Last(u) = Slash => FALSE))
  BY <1>5, SimpleStarts
<1> HIDE DEF v, q
<1>7. IsOpen(q) /\ Len(<<>>) = 0
  BY <1>1, <1>2 DEF IsOpen
<1>8. CASE ~m.ok
  <2>1. n = m
    BY <1>8 DEF Feed
  <2>2. ~n.ok /\ ~IsValid(q)
    BY <1>3, <1>8, <2>1 DEF Follows
  <2> QED
    BY <2>2 DEF Follows, v, q
<1>9. CASE m.ok /\ IsOpen(p)
  <2>1. m.state \notin Places
    BY <1>9 DEF Follows, Places
  <2>2. ~n.ok /\ ~IsValid(q)
    BY <1>3, <1>9, <2>1, FeedSign
  <2> QED
    BY <2>2 DEF Follows, v, q
<1>10. CASE m.ok /\ ~IsOpen(p)
  <2>1. m.state \in Places /\ IsValid(p)
    BY <1>10 DEF Follows
  <2>2. n.ok /\ n.state = "kPersentFirst" /\ n.trap = m.state /\ n.url = m.url /\ IsValid(q)
    BY <1>3, <1>10, <2>1, FeedSign
  <2>3. ASSUME IsSimple(v)
        PROVE  n.url = Meaning(q) /\ n.trap = "kUsual"
    <3>1. m.url = Meaning(p) /\ m.state = "kUsual"
      BY <1>6, <1>10, <2>3 DEF Follows
    <3> QED
      BY <1>4, <2>2, <3>1
  <2>4. Follows(v, n, q, <<>>)
    BY <1>7, <2>2, <2>3 DEF Follows
  <2> QED
    BY <2>4 DEF v, q
<1> QED
  BY <1>8, <1>9, <1>10

\* The machine follows any other character.
LEMMA FollowsOther ==
  ASSUME NEW u \in Seq(Chars), NEW m \in Machines, NEW p, NEW l, EndsWith(p, l),
         Follows(u, m, p, l), NEW c \in Chars, c # Percent, IsPercentDigit(c) => IsDigit(c),
         NEW n, n = Feed(m, c)
  PROVE  Follows(Append(u, c), n, Append(Front(p), Append(l, c)), Append(l, c))
<1> DEFINE v == Append(u, c)
           a == Append(l, c)
           q == Append(Front(p), a)
<1>1. /\ l \in Seq(Chars) /\ Len(l) \in Nat /\ Len(p) \in Nat \ {0} /\ p = Append(Front(p), l)
      /\ Front(p) \in Seq(Seq(Chars \ {Percent})) /\ Len(Front(p)) = Len(p) - 1 /\ l = Last(p)
      /\ l \in Seq(Chars \ {Percent})
  <2>1. p \in Seq(Seq(Chars \ {Percent})) /\ Len(p) \in Nat \ {0} /\ l = p[Len(p)]
    BY DEF EndsWith, Parts
  <2>2. Len(p) \in 1..Len(p)
    BY <2>1
  <2>3. l \in Seq(Chars \ {Percent})
    BY <2>1, <2>2
  <2> QED
    BY <2>3 DEF EndsWith
<1>2. /\ a \in Seq(Chars \ {Percent}) /\ Len(a) = Len(l) + 1 /\ a[Len(l) + 1] = c
      /\ \A i \in 1..Len(l) : a[i] = l[i]
  BY <1>1, AppendProperties
<1> HIDE DEF a
<1>3. IsOtherLast(q, p, a) /\ Last(q) = a /\ Len(q) = Len(p)
  <2> DEFINE f == Front(p)
             T == Seq(Chars \ {Percent})
  <2>1. f \in Seq(T) /\ a \in T /\ l \in T /\ Len(f) = Len(p) - 1 /\ p = Append(f, l)
    BY <1>1, <1>2
  <2> HIDE DEF f, T
  <2>2. /\ Len(Append(f, a)) = Len(f) + 1 /\ Append(f, a)[Len(f) + 1] = a
        /\ (\A i \in 1..Len(f) : Append(f, a)[i] = f[i]) /\ Last(Append(f, a)) = a
    BY <2>1, AppendProperties, AppendParts
  <2>3. \A i \in 1..Len(f) : Append(f, l)[i] = f[i]
    BY <2>1, AppendProperties
  <2>4. Len(f) + 1 = Len(p)
    BY <1>1, <2>1
  <2>5. \A i \in 1..(Len(p) - 1) : Append(f, a)[i] = p[i]
    BY <2>1, <2>2, <2>3
  <2> QED
    BY <2>2, <2>4, <2>5 DEF IsOtherLast, f
<1>4. IsValid(q) <=> IsValid(p) /\ (IsOpen(p) => IsDigit(c))
  BY <1>3, ValidGrows DEF a
<1>5. MeansMore(q, p, l, c)
  BY MeaningGrows DEF a
<1>6. v # <<>> /\ Last(v) = c
      /\ (IsSimple(v) => IsSimple(u) /\ (u # <<>> /\ Last(u) = Slash => c \notin {Slash, Dot, Percent}))
  BY SimpleStarts
<1> HIDE DEF v, q
<1> SUFFICES Follows(v, n, q, a)
  BY DEF v, q, a
<1>7. IsOpen(q) <=> IsOpen(p) /\ Len(l) = 0
  BY <1>1, <1>2, <1>3 DEF IsOpen
<1>8. CASE ~m.ok
  <2>1. n = m
    BY <1>8 DEF Feed
  <2>2. ~n.ok /\ ~IsValid(q)
    BY <1>4, <1>8, <2>1 DEF Follows
  <2> QED
    BY <2>2 DEF Follows
<1>9. CASE m.ok /\ ~IsOpen(p)
  <2>1. m.state \in Places /\ IsValid(p)
    BY <1>9 DEF Follows
  <2>2. /\ n.ok /\ n.state \in Places
        /\ m.state = "kUsual" \/ (m.state = "kSlash" /\ c \notin {Slash, Dot}) =>
             n.url = Append(m.url, c) /\ n.state = IF c = Slash THEN "kSlash" ELSE "kUsual"
    <3> HIDE DEF Follows
    <3> QED
      BY <1>9, <2>1, FeedOther
  <2>3. ~IsOpen(q) /\ IsValid(q)
    BY <1>4, <1>7, <1>9, <2>1
  <2>4. ASSUME IsSimple(v)
        PROVE  n.url = Meaning(q) /\ n.state = IF c = Slash THEN "kSlash" ELSE "kUsual"
    <3>1. m.url = Meaning(p) /\ m.state = IF u # <<>> /\ Last(u) = Slash THEN "kSlash" ELSE "kUsual"
      BY <1>6, <1>9, <2>4 DEF Follows
    <3>2. m.state = "kUsual" \/ (m.state = "kSlash" /\ c \notin {Slash, Dot})
      BY <1>6, <2>4, <3>1
    <3> QED
      BY <1>5, <1>9, <2>2, <3>1, <3>2 DEF MeansMore
  <2> QED
    BY <1>6, <2>2, <2>3, <2>4 DEF Follows
<1>10. CASE m.ok /\ IsOpen(p)
  <2>1. /\ Len(l) \in {0, 1} /\ IsValid(p)
        /\ m.state = IF Len(l) = 0 THEN "kPersentFirst" ELSE "kPersentSecond"
        /\ Len(l) = 1 => IsDigit(l[1]) /\ m.digit = l[1] - 48
    <3>1. Len(l) \in {0, 1}
      <4>1. Len(l) \in Nat /\ Len(l) < 2
        BY <1>1, <1>10 DEF IsOpen
      <4>2. \A i \in Nat : i < 2 => i \in {0, 1}
        OBVIOUS
      <4> QED
        BY <4>1, <4>2
    <3> QED
      BY <1>10, <3>1 DEF Follows
  <2>2. m.state \in {"kPersentFirst", "kPersentSecond"}
    BY <2>1
  <2>3. CASE ~IsDigit(c)
    <3>1. ~n.ok /\ ~IsValid(q)
      BY <1>4, <1>10, <2>2, <2>3, FeedEscape
    <3> QED
      BY <3>1 DEF Follows
  <2>4. CASE IsDigit(c) /\ Len(l) = 0
    <3>1. /\ n.ok /\ n.state = "kPersentSecond" /\ n.digit = c - 48 /\ n.url = m.url /\ n.trap = m.trap
      <4>1. m.state = "kPersentFirst"
        BY <2>1, <2>4
      <4> QED
        BY <1>10, <2>2, <2>4, <4>1, FeedEscape
    <3>2. IsOpen(q) /\ IsValid(q) /\ Len(a) = 1 /\ a[1] = c
      BY <1>2, <1>4, <1>7, <1>10, <2>1, <2>4
    <3>3. ASSUME IsSimple(v) PROVE n.url = Meaning(q) /\ n.trap = "kUsual"
      <4>1. m.url = Meaning(p) /\ m.trap = "kUsual"
        BY <1>6, <1>10, <3>3 DEF Follows
      <4> QED
        BY <1>5, <1>10, <2>4, <3>1, <4>1 DEF MeansMore
    <3> QED
      BY <2>4, <3>1, <3>2, <3>3 DEF Follows
  <2>5. CASE IsDigit(c) /\ Len(l) = 1
    <3>1. m.digit \in 0..9 /\ m.digit = l[1] - 48 /\ m.state = "kPersentSecond"
      <4> DEFINE x == l[1]
      <4>1. IsDigit(x) /\ m.digit = x - 48
        BY <2>1, <2>5
      <4> HIDE DEF x
      <4>2. m.digit \in 0..9
        BY <4>1 DEF IsDigit
      <4> QED
        BY <2>1, <2>5, <4>1, <4>2 DEF x
    <3>2. n.ok /\ n.state = m.trap /\ n.url = Append(m.url, m.digit * 16 + c - 48)
      BY <1>10, <2>2, <2>5, <3>1, FeedEscape
    <3>3. ~IsOpen(q) /\ IsValid(q) /\ n.state \in Places
      BY <1>4, <1>7, <1>10, <2>1, <2>5, <3>2 DEF Machines
    <3>4. ASSUME IsSimple(v) PROVE n.url = Meaning(q) /\ n.state = "kUsual"
      <4>1. m.url = Meaning(p) /\ m.trap = "kUsual"
        BY <1>6, <1>10, <3>4 DEF Follows
      <4>2. Meaning(q) = Append(Meaning(p), (l[1] - 48) * 16 + c - 48)
        BY <1>5, <1>10, <2>5 DEF MeansMore
      <4> QED
        BY <3>1, <3>2, <4>1, <4>2
    <3>5. Last(v) # Slash
      BY <1>6, <2>5 DEF IsDigit, Slash
    <3> QED
      BY <3>2, <3>3, <3>4, <3>5 DEF Follows
  <2> QED
    BY <2>1, <2>3, <2>4, <2>5
<1> QED
  BY <1>8, <1>9, <1>10

\* What the escapes of a text are.
EscapesOf(text) ==
  LET parts == Split(text, Percent)
      valid == \A i \in 2..Len(parts) :
                 /\ Len(parts[i]) >= 2 \/ i = Len(parts)
                 /\ \A k \in 1..2 \cap DOMAIN parts[i] : IsDigit(parts[i][k])
      simple == \A i \in 1..(Len(text) - 1) :
                  text[i] = Slash => text[i + 1] \notin {Slash, Dot, Percent}
      decode(p) == IF Len(p) < 2 THEN <<>>
                   ELSE <<(p[1] - 48) * 16 + p[2] - 48>> \o SubSeq(p, 3, Len(p))
  IN /\ Run(text).ok <=> valid
     /\ valid /\ simple =>
          Run(text).url = FoldLeft(LAMBDA s, p : s \o decode(p), parts[1], Tail(parts))

\* The machine has no error if and only if every escape is two digits, but for one at
\* the end; and then a text in which no slash is followed by an escape, a dot or a slash
\* is decoded part by part.
THEOREM EscapesDecoded ==
  ASSUME NEW text \in Seq(Chars), OnlyDigits(text)
  PROVE  EscapesOf(text)
<1> DEFINE Q(u) == Follows(u, Run(u), Split(u, Percent), Last(Split(u, Percent)))
           P == {u \in Seq(Chars) : OnlyDigits(u) => Q(u)}
<1>1. <<>> \in P
  <2> DEFINE p == Split(<<>>, Percent)
  <2>1. p = <<<<>>>> /\ Run(<<>>) = Machine0
    BY SplitIs, RunIs
  <2>2. Len(<<<<>>>>) = 1 /\ <<<<>>>>[1] = <<>> /\ Tail(<<<<>>>>) = <<>>
    OBVIOUS
  <2>3. Len(p) = 1 /\ p[1] = <<>> /\ Tail(p) = <<>> /\ Last(p) = <<>>
    BY <2>1, <2>2 DEF Last
  <2> HIDE DEF p
  <2>4. IsValid(p) /\ ~IsOpen(p)
    BY <2>3 DEF IsValid, IsOpen
  <2>5. Meaning(p) = <<>>
    <3> DEFINE e == <<>>
    <3>1. e \in Seq(Int)
      OBVIOUS
    <3> HIDE DEF e
    <3>2. Decoded(e, <<>>) = e
      BY <3>1, DecodedIs
    <3> QED
      BY <2>3, <3>2 DEF Meaning, e
  <2>6. /\ Machine0.ok /\ Machine0.state = "kUsual" /\ Machine0.url = <<>>
        /\ Machine0.state \in Places
    BY DEF Machine0, Places
  <2>7. Follows(<<>>, Machine0, p, <<>>)
    BY <2>4, <2>5, <2>6 DEF Follows
  <2>8. Q(<<>>)
    BY <2>1, <2>3, <2>7 DEF p
  <2> HIDE DEF Q
  <2> QED
    BY <2>8
<1>2. ASSUME NEW u \in Seq(Chars), NEW c \in Chars, u \in P
      PROVE  Append(u, c) \in P
  <2> DEFINE v == Append(u, c)
             m == Run(u)
             p == Split(u, Percent)
             l == Last(p)
             q == Split(v, Percent)
  <2>1. /\ v \in Seq(Chars) /\ Run(v) = Feed(m, c) /\ m \in Machines
        /\ p \in Parts(Percent) /\ q = SplitTurn(p, c, Percent)
    BY AppendProperties, RunIs, SplitIs
  <2>2. EndsWith(p, l)
    BY <2>1, PartsEnd
  <2>3. OnlyDigits(v) => OnlyDigits(u) /\ (IsPercentDigit(c) => IsDigit(c))
    <3>1. /\ DOMAIN v = 1..(Len(u) + 1) /\ DOMAIN u = 1..Len(u) /\ v[Len(u) + 1] = c
          /\ \A i \in 1..Len(u) : v[i] = u[i] /\ i \in 1..(Len(u) + 1)
      BY AppendProperties
    <3>2. Len(u) + 1 \in 1..(Len(u) + 1)
      OBVIOUS
    <3> HIDE DEF v
    <3> QED
      BY <3>1, <3>2 DEF OnlyDigits, Range
  <2> SUFFICES ASSUME OnlyDigits(v) PROVE Follows(v, Run(v), q, Last(q))
    BY <2>1
  <2>4. Follows(u, m, p, l)
    BY <1>2, <2>3
  <2> HIDE DEF m, p, l, q
  <2>5. CASE c = Percent
    <3>1. q = Append(p, <<>>)
      BY <2>1, <2>5 DEF SplitTurn
    <3>2. Last(q) = <<>>
      <4> DEFINE T == Seq(Chars \ {Percent})
      <4>1. p \in Seq(T) /\ <<>> \in T
        BY <2>1 DEF Parts
      <4> HIDE DEF T
      <4> QED
        BY <3>1, <4>1, AppendParts
    <3>3. Follows(Append(u, Percent), Feed(m, Percent), Append(p, <<>>), <<>>)
      BY <2>1, <2>2, <2>4, FollowsSign
    <3> QED
      BY <2>1, <2>5, <3>1, <3>2, <3>3
  <2>6. CASE c # Percent
    <3> DEFINE a == Append(l, c)
    <3>1. q = Append(Front(p), a)
      BY <2>1, <2>6 DEF SplitTurn, l
    <3>2. Last(q) = a
      <4> DEFINE T == Seq(Chars \ {Percent})
                 f == Front(p)
      <4>1. f \in Seq(T) /\ a \in T
        <5>1. p \in Seq(T) /\ p # <<>>
          BY <2>1 DEF Parts
        <5>2. f \in Seq(T) /\ l \in T
          <6> HIDE DEF T
          <6> QED
            BY <5>1, FrontLast DEF l
        <5>3. c \in Chars \ {Percent}
          BY <2>6
        <5> QED
          BY <5>2, <5>3, AppendProperties
      <4> HIDE DEF T, f, a
      <4>2. q = Append(f, a)
        BY <3>1 DEF f
      <4> QED
        BY <4>1, <4>2, AppendParts
    <3>3. Follows(Append(u, c), Feed(m, c), Append(Front(p), Append(l, c)), Append(l, c))
      BY <2>1, <2>2, <2>3, <2>4, <2>6, FollowsOther
    <3> QED
      BY <2>1, <3>1, <3>2, <3>3
  <2> QED
    BY <2>5, <2>6
<1> HIDE DEF P
<1>3. Seq(Chars) \subseteq P
  BY <1>1, <1>2, SequenceInduction
<1> HIDE DEF Q
<1>4. Q(text)
  BY <1>3 DEF P
<1> DEFINE parts == Split(text, Percent)
<1>5. /\ Run(text).ok <=> IsValid(parts)
      /\ Run(text).ok /\ IsSimple(text) => Run(text).url = Meaning(parts)
  BY <1>4 DEF Q, Follows
<1>6. EscapesOf(text) <=> /\ Run(text).ok <=> IsValid(parts)
                          /\ IsValid(parts) /\ IsSimple(text) => Run(text).url = Meaning(parts)
  BY Zenon DEF EscapesOf, IsValid, IsSimple, Meaning, Decoded, Decode
<1> QED
  BY <1>5, <1>6

-----------------------------------------------------------------------------
(* Words                                                                   *)

\* The parts that are not empty.
WordList(parts) == FoldLeft(LAMBDA words, w : IF w = <<>> THEN words ELSE Append(words, w), <<>>, parts)
WordsTurn(words, w) == IF w = <<>> THEN words ELSE Append(words, w)

\* A turn of the fold takes words to words.
LEMMA WordsTurnType ==
  ASSUME NEW words \in Seq(Seq(Chars)), NEW w \in Seq(Chars)
  PROVE  WordsTurn(words, w) \in Seq(Seq(Chars))
  BY AppendProperties DEF WordsTurn

\* Function h is the table of the fold WordList().
WordListOf(h, parts) ==
  h = [d \in SUBSET DOMAIN parts |->
         IF d = {} THEN <<>> ELSE WordsTurn(h[d \ {Max(d)}], parts[Max(d)])]

\* WordList() is a fold.
LEMMA WordListTurns ==
  ASSUME NEW parts \in Seq(Seq(Chars)), NEW step,
         step = [p \in Seq(Seq(Chars)) \X Seq(Chars) |-> WordsTurn(p[1], p[2])]
  PROVE  /\ <<>> \in Seq(Seq(Chars)) /\ step \in [Seq(Seq(Chars)) \X Seq(Chars) -> Seq(Seq(Chars))]
         /\ \E h : AreTurns(h, <<>>, step, parts, Seq(Seq(Chars))) /\ WordList(parts) = h[1..Len(parts)]
<1>1. /\ step \in [Seq(Seq(Chars)) \X Seq(Chars) -> Seq(Seq(Chars))]
      /\ \A a \in Seq(Seq(Chars)) : \A x \in Seq(Chars) : step[<<a, x>>] = WordsTurn(a, x)
  BY WordsTurnType
<1>2. <<>> \in Seq(Seq(Chars))
  OBVIOUS
<1>3. DOMAIN parts = 1..Len(parts) /\ Len(parts) \in Nat /\ \A i \in 1..Len(parts) : parts[i] \in Seq(Chars)
  OBVIOUS
<1>4. PICK h \in [SUBSET (1..Len(parts)) -> Seq(Seq(Chars))] : IsFoldTable(h, <<>>, step, parts)
  BY <1>1, <1>2, FoldTable
<1>5. ASSUME NEW d \in SUBSET DOMAIN parts
      PROVE  h[d] = IF d = {} THEN <<>> ELSE WordsTurn(h[d \ {Max(d)}], parts[Max(d)])
  <2>1. CASE d = {}
    BY <1>3, <1>4, <2>1 DEF IsFoldTable
  <2>2. CASE d # {}
    <3>1. PICK m \in d : Max(d) = m
      BY <1>3, <2>2, GreatestNumber
    <3>2. h[d \ {Max(d)}] \in Seq(Seq(Chars)) /\ parts[Max(d)] \in Seq(Chars)
      BY <1>3, <3>1
    <3> QED
      BY <1>1, <1>3, <1>4, <2>2, <3>2 DEF IsFoldTable
  <2> QED
    BY <2>1, <2>2
<1>6. WordListOf(h, parts)
  BY <1>3, <1>5 DEF WordListOf
<1>7. PICK t : t = CHOOSE g : WordListOf(g, parts)
  OBVIOUS
<1>8. WordListOf(t, parts)
  BY <1>6, <1>7
<1>9. WordList(parts) = t[1..Len(parts)]
  <2>1. WordList(parts) = (CHOOSE g : WordListOf(g, parts))[DOMAIN parts]
    BY Zenon DEF WordList, WordsTurn, FoldLeft, MapThenFoldSet, WordListOf
  <2> QED
    BY <1>3, <1>7, <2>1
<1>10. AreTurns(t, <<>>, step, parts, Seq(Seq(Chars)))
  <2>1. \A d \in SUBSET DOMAIN parts :
          t[d] = IF d = {} THEN <<>> ELSE WordsTurn(t[d \ {Max(d)}], parts[Max(d)])
    BY <1>8 DEF WordListOf
  <2>2. \A k \in 1..Len(parts) : t[1..k] = WordsTurn(t[1..(k - 1)], parts[k])
    BY <1>3, <2>1, Segments1
  <2>3. t[1..0] = <<>>
    <3>1. 1..0 = {} /\ {} \in SUBSET DOMAIN parts
      OBVIOUS
    <3> QED
      BY <2>1, <3>1, Zenon
  <2> QED
    BY <1>1, <1>3, <2>2, <2>3 DEF AreTurns
<1> QED
  BY <1>1, <1>2, <1>9, <1>10

\* The words of nothing, and of one more part.
LEMMA WordListIs ==
  /\ WordList(<<>>) = <<>>
  /\ \A parts \in Seq(Seq(Chars)) :
       /\ WordList(parts) \in Seq(Seq(Chars))
       /\ \A x \in Seq(Chars) : WordList(Append(parts, x)) = WordsTurn(WordList(parts), x)
<1> DEFINE step == [p \in Seq(Seq(Chars)) \X Seq(Chars) |-> WordsTurn(p[1], p[2])]
           f == [s \in Seq(Seq(Chars)) |-> WordList(s)]
<1>1. \A s \in Seq(Seq(Chars)) :
        /\ <<>> \in Seq(Seq(Chars)) /\ step \in [Seq(Seq(Chars)) \X Seq(Chars) -> Seq(Seq(Chars))]
        /\ \E h : AreTurns(h, <<>>, step, s, Seq(Seq(Chars))) /\ f[s] = h[1..Len(s)]
  BY WordListTurns
<1>2. IsFoldOf(f, <<>>, step, Seq(Seq(Chars)), Seq(Chars))
  <2>1. <<>> \in Seq(Seq(Chars))
    OBVIOUS
  <2> HIDE DEF f, step
  <2> QED
    BY <1>1, <2>1 DEF IsFoldOf
<1>3. /\ f[<<>>] = <<>>
      /\ \A s \in Seq(Seq(Chars)) : f[s] \in Seq(Seq(Chars)) /\ \A x \in Seq(Chars) : f[Append(s, x)] = step[<<f[s], x>>]
  <2> HIDE DEF f, step
  <2> QED
    BY <1>2, FoldLaws
<1>4. \A a \in Seq(Seq(Chars)) : \A x \in Seq(Chars) : step[<<a, x>>] = WordsTurn(a, x)
  OBVIOUS
<1>5. /\ <<>> \in Seq(Seq(Chars))
      /\ \A s \in Seq(Seq(Chars)) : f[s] = WordList(s) /\ \A x \in Seq(Chars) : f[Append(s, x)] = WordList(Append(s, x))
  BY AppendProperties
<1> HIDE DEF f, step
<1>6. WordList(<<>>) = <<>>
  BY <1>3, <1>5
<1>7. ASSUME NEW parts \in Seq(Seq(Chars))
      PROVE  /\ WordList(parts) \in Seq(Seq(Chars))
             /\ \A x \in Seq(Chars) : WordList(Append(parts, x)) = WordsTurn(WordList(parts), x)
  <2>1. f[parts] \in Seq(Seq(Chars)) /\ f[parts] = WordList(parts)
    BY <1>3, <1>5
  <2>2. ASSUME NEW x \in Seq(Chars)
        PROVE  WordList(Append(parts, x)) = WordsTurn(WordList(parts), x)
    <3>1. f[Append(parts, x)] = step[<<f[parts], x>>] /\ f[Append(parts, x)] = WordList(Append(parts, x))
      BY <1>3, <1>5
    <3> QED
      BY <1>4, <2>1, <3>1
  <2> QED
    BY <2>1, <2>2
<1> QED
  BY <1>6, <1>7
=============================================================================
