-------------------------- MODULE ByteStreamProofs --------------------------
(***************************************************************************)
(* Whatever implements ByteStream delivers every byte at most once and in  *)
(* order.  Before that, facts about sequences of byte numbers, which the   *)
(* proofs about its implementations use too.                               *)
(***************************************************************************)
EXTENDS ByteStream, SequenceTheorems, TLAPS

-----------------------------------------------------------------------------
(* Sequences.                                                              *)

\* What is subtracted can be added again.
LEMMA Difference ==
  ASSUME NEW a \in Nat, NEW b \in Nat, b >= a
  PROVE  b - a \in Nat /\ a + (b - a) = b
OBVIOUS

\* Concatenation is associative.
LEMMA Associative ==
  ASSUME NEW s \in Seq(Nat), NEW t \in Seq(Nat), NEW u \in Seq(Nat)
  PROVE  (s \o t) \o u = s \o (t \o u)
BY ConcatAssociative, SMTT(30)

\* What a concatenation consists of.
LEMMA ConcatCells ==
  ASSUME NEW s \in Seq(Nat), NEW t \in Seq(Nat)
  PROVE  /\ s \o t \in Seq(Nat)
         /\ Len(s) \in Nat /\ Len(t) \in Nat
         /\ Len(s \o t) = Len(s) + Len(t)
         /\ \A k \in 1..Len(s) : (s \o t)[k] = s[k]
         /\ \A k \in Len(s)+1..Len(s)+Len(t) : (s \o t)[k] = t[k - Len(s)]
<1>1. Len(s) \in Nat /\ Len(t) \in Nat
  BY LenProperties
<1>2. /\ s \o t \in Seq(Nat)
      /\ Len(s \o t) = Len(s) + Len(t)
      /\ \A k \in 1..Len(s) + Len(t) :
            (s \o t)[k] = IF k <= Len(s) THEN s[k] ELSE t[k - Len(s)]
  BY ConcatProperties
<1> QED BY <1>1, <1>2

\* What concatenation does to lengths.
LEMMA ConcatLength ==
  ASSUME NEW s \in Seq(Nat), NEW t \in Seq(Nat)
  PROVE  /\ s \o t \in Seq(Nat)
         /\ Len(s \o t) = Len(s) + Len(t)
         /\ Len(s) \in Nat /\ Len(t) \in Nat
BY ConcatCells

\* A function that counts on from a is a sequence.
LEMMA CountUp ==
  ASSUME NEW a \in Nat, NEW n \in Nat
  PROVE  /\ [k \in 1..n |-> a + k] \in Seq(Nat)
         /\ Len([k \in 1..n |-> a + k]) = n
<1> DEFINE e(k) == a + k
<1>1. \A k \in 1..n : e(k) \in Nat
  OBVIOUS
<1>2. [k \in 1..n |-> e(k)] \in Seq(Nat)
  <2> HIDE DEF e
  <2> QED BY <1>1, IsASeq
<1> QED BY <1>2

\* A stretch of a sequence.
LEMMA Stretch ==
  ASSUME NEW s \in Seq(Nat), NEW a \in Nat, NEW n \in Nat, a + n <= Len(s)
  PROVE  /\ SubSeq(s, a + 1, a + n) \in Seq(Nat)
         /\ Len(SubSeq(s, a + 1, a + n)) = n
         /\ \A i \in 1..n : SubSeq(s, a + 1, a + n)[i] = s[a + i]
<1>1. Len(s) \in Nat /\ \A i \in 1..Len(s) : s[i] \in Nat
  BY LenProperties, ElementOfSeq
<1>2. \A i \in a+1..a+n : s[i] \in Nat
  BY <1>1
<1>3. /\ SubSeq(s, a+1, a+n) \in Seq(Nat)
      /\ Len(SubSeq(s, a+1, a+n)) = IF a+1 <= a+n THEN (a+n)-(a+1)+1 ELSE 0
      /\ \A i \in 1..(a+n)-(a+1)+1 : SubSeq(s, a+1, a+n)[i] = s[(a+1)+i-1]
  BY <1>1, <1>2, SubSeqProperties
<1>4. \A i \in 1..n : (a+1)+i-1 = a + i /\ i \in 1..(a+n)-(a+1)+1
  BY <1>1
<1> QED BY <1>1, <1>3, <1>4

\* Taking some from the front and keeping the rest changes nothing overall.
LEMMA FrontAndRest ==
  ASSUME NEW d \in Seq(Nat), NEW g \in Seq(Nat), NEW k \in 0..Len(g)
  PROVE  /\ SubSeq(g, 1, k) \in Seq(Nat)
         /\ SubSeq(g, k + 1, Len(g)) \in Seq(Nat)
         /\ (d \o SubSeq(g, 1, k)) \o SubSeq(g, k + 1, Len(g)) = d \o g
<1>1. Len(g) \in Nat
  BY LenProperties
<1>2. \A i \in 1..Len(g) : g[i] \in Nat
  BY ElementOfSeq
<1>3. SubSeq(g, 1, k) \in Seq(Nat)
  BY <1>1, <1>2, SubSeqProperties
<1>4. SubSeq(g, k + 1, Len(g)) \in Seq(Nat)
  BY <1>1, <1>2, SubSeqProperties
<1>5. SubSeq(g, 1, k) \o SubSeq(g, k + 1, Len(g)) = g
  <2>1. 1 \in 1..Len(g)+1 /\ k \in 1-1..Len(g) /\ Len(g) \in k..Len(g)
    BY <1>1
  <2>2. SubSeq(g, 1, k) \o SubSeq(g, k + 1, Len(g)) = SubSeq(g, 1, Len(g))
    BY <2>1, ConcatAdjacentSubSeq
  <2> QED BY <2>2, SubSeqFull
<1>6. (d \o SubSeq(g, 1, k)) \o SubSeq(g, k + 1, Len(g))
        = d \o (SubSeq(g, 1, k) \o SubSeq(g, k + 1, Len(g)))
  <2> DEFINE u == SubSeq(g, 1, k)
             v == SubSeq(g, k + 1, Len(g))
  <2>1. u \in Seq(Nat) /\ v \in Seq(Nat)
    BY <1>3, <1>4
  <2> HIDE DEF u, v
  <2>2. (d \o u) \o v = d \o (u \o v)
    BY <2>1, Associative
  <2> QED BY <2>2 DEF u, v
<1> QED BY <1>3, <1>4, <1>5, <1>6

\* The front of a sequence.
LEMMA Front ==
  ASSUME NEW s \in Seq(Nat), NEW n \in Nat, n <= Len(s)
  PROVE  /\ SubSeq(s, 1, n) \in Seq(Nat)
         /\ Len(SubSeq(s, 1, n)) = n
         /\ \A i \in 1..n : SubSeq(s, 1, n)[i] = s[i]
<1>1. 0 + n = n /\ 0 + 1 = 1 /\ 0 \in Nat /\ 0 + n <= Len(s)
  OBVIOUS
<1>2. /\ SubSeq(s, 0 + 1, 0 + n) \in Seq(Nat)
      /\ Len(SubSeq(s, 0 + 1, 0 + n)) = n
      /\ \A i \in 1..n : SubSeq(s, 0 + 1, 0 + n)[i] = s[0 + i]
  BY <1>1, Stretch
<1>3. \A i \in 1..n : 0 + i = i
  OBVIOUS
<1> QED BY <1>1, <1>2, <1>3

\* The rear of a sequence.
LEMMA Rear ==
  ASSUME NEW s \in Seq(Nat), NEW a \in Nat, NEW n \in Nat, a + n = Len(s)
  PROVE  /\ SubSeq(s, a + 1, Len(s)) \in Seq(Nat)
         /\ Len(SubSeq(s, a + 1, Len(s))) = n
         /\ \A i \in 1..n : SubSeq(s, a + 1, Len(s))[i] = s[a + i]
<1>1. a + n <= Len(s)
  BY LenProperties
<1>2. /\ SubSeq(s, a + 1, a + n) \in Seq(Nat)
      /\ Len(SubSeq(s, a + 1, a + n)) = n
      /\ \A i \in 1..n : SubSeq(s, a + 1, a + n)[i] = s[a + i]
  BY <1>1, Stretch
<1> QED BY <1>2

\* Sequences with the same cells are equal.
LEMMA SameCells ==
  ASSUME NEW s \in Seq(Nat), NEW t \in Seq(Nat), Len(s) = Len(t),
         \A i \in 1..Len(s) : s[i] = t[i]
  PROVE  s = t
BY SeqEqual

\* Cutting a concatenation inside its second part.
LEMMA CutConcat ==
  ASSUME NEW s \in Seq(Nat), NEW t \in Seq(Nat), NEW w \in 0..Len(t)
  PROVE  /\ SubSeq(s \o t, 1, Len(s) + w) = s \o SubSeq(t, 1, w)
         /\ SubSeq(s \o t, Len(s) + w + 1, Len(s) + Len(t)) = SubSeq(t, w + 1, Len(t))
<1> DEFINE u == s \o t
           f == SubSeq(t, 1, w)
           r == SubSeq(t, w + 1, Len(t))
           n == Len(t) - w
<1>1. /\ u \in Seq(Nat) /\ Len(s) \in Nat /\ Len(t) \in Nat
      /\ Len(u) = Len(s) + Len(t)
      /\ \A k \in 1..Len(s) : u[k] = s[k]
      /\ \A k \in Len(s)+1..Len(s)+Len(t) : u[k] = t[k - Len(s)]
  BY ConcatCells
<1>2. /\ w \in Nat /\ w <= Len(t) /\ n \in Nat /\ w + n = Len(t)
      /\ (Len(s) + w) + n = Len(s) + Len(t)
  BY <1>1
<1>3. f \in Seq(Nat) /\ Len(f) = w /\ \A i \in 1..w : f[i] = t[i]
  BY <1>2, Front
<1>4. r \in Seq(Nat) /\ Len(r) = n /\ \A i \in 1..n : r[i] = t[w + i]
  <2> HIDE DEF n
  <2> QED BY <1>2, Rear
<1> HIDE DEF u, f, r, n
<1>5. SubSeq(u, 1, Len(s) + w) = s \o f
  <2> DEFINE x == SubSeq(u, 1, Len(s) + w)
             y == s \o f
  <2>1. x \in Seq(Nat) /\ Len(x) = Len(s) + w /\ \A i \in 1..Len(s)+w : x[i] = u[i]
    <3> DEFINE l == Len(s) + w
    <3>1. l \in Nat /\ l <= Len(u)
      BY <1>1, <1>2
    <3> HIDE DEF l
    <3>2. /\ SubSeq(u, 1, l) \in Seq(Nat)
          /\ Len(SubSeq(u, 1, l)) = l
          /\ \A i \in 1..l : SubSeq(u, 1, l)[i] = u[i]
      BY <1>1, <3>1, Front
    <3> QED BY <3>2 DEF l
  <2>2. /\ y \in Seq(Nat) /\ Len(y) = Len(s) + w
        /\ \A k \in 1..Len(s) : y[k] = s[k]
        /\ \A k \in Len(s)+1..Len(s)+w : y[k] = f[k - Len(s)]
    <3>1. /\ y \in Seq(Nat) /\ Len(y) = Len(s) + Len(f)
          /\ \A k \in 1..Len(s) : y[k] = s[k]
          /\ \A k \in Len(s)+1..Len(s)+Len(f) : y[k] = f[k - Len(s)]
      BY <1>3, ConcatCells
    <3> QED BY <1>3, <3>1
  <2> HIDE DEF x, y
  <2>3. \A i \in 1..Len(x) : x[i] = y[i]
    <3> TAKE i \in 1..Len(x)
    <3>1. CASE i <= Len(s)
      BY <1>1, <1>2, <2>1, <2>2, <3>1
    <3>2. CASE i > Len(s)
      <4>1. i \in Len(s)+1..Len(s)+w /\ i - Len(s) \in 1..w
            /\ i \in Len(s)+1..Len(s)+Len(t)
        BY <1>1, <1>2, <2>1, <3>2
      <4> QED BY <1>1, <1>3, <2>1, <2>2, <4>1
    <3> QED BY <1>1, <2>1, <3>1, <3>2
  <2>4. x = y
    BY <2>1, <2>2, <2>3, SameCells
  <2> QED BY <2>4 DEF x, y
<1>6. SubSeq(u, Len(s) + w + 1, Len(s) + Len(t)) = r
  <2> DEFINE l == Len(s) + w
             x == SubSeq(u, l + 1, l + n)
  <2>1. l \in Nat /\ n \in Nat /\ l + n = Len(s) + Len(t) /\ l + n <= Len(u)
    BY <1>1, <1>2
  <2>2. x \in Seq(Nat) /\ Len(x) = n /\ \A i \in 1..n : x[i] = u[l + i]
    <3> HIDE DEF l
    <3> QED BY <1>1, <2>1, Stretch
  <2>3. \A i \in 1..n : u[l + i] = t[w + i]
    <3> TAKE i \in 1..n
    <3>1. l + i \in Len(s)+1..Len(s)+Len(t) /\ (l + i) - Len(s) = w + i
      BY <1>1, <1>2
    <3> QED BY <1>1, <3>1
  <2>4. x = r
    <3> HIDE DEF x, l
    <3> QED BY <1>4, <2>2, <2>3, SameCells
  <2> QED BY <2>1, <2>4
<1> QED BY <1>5, <1>6 DEF u, f, r

\* Cutting a stretch in two.
LEMMA CutStretch ==
  ASSUME NEW s \in Seq(Nat), NEW a \in Nat, NEW n \in Nat, NEW k \in 0..n,
         a + n <= Len(s)
  PROVE  /\ SubSeq(SubSeq(s, a + 1, a + n), 1, k) = SubSeq(s, a + 1, a + k)
         /\ SubSeq(SubSeq(s, a + 1, a + n), k + 1, n) = SubSeq(s, a + k + 1, a + n)
<1> DEFINE t == SubSeq(s, a + 1, a + n)
           m == n - k
           b == a + k
<1>1. /\ Len(s) \in Nat /\ k \in Nat /\ m \in Nat /\ k + m = n /\ 0 + k = k
      /\ b \in Nat /\ b + m = a + n /\ a + k <= Len(s) /\ 0 + 1 = 1 /\ k <= n
  BY LenProperties
<1>2. t \in Seq(Nat) /\ Len(t) = n /\ \A i \in 1..n : t[i] = s[a + i]
  BY Stretch
<1> HIDE DEF t
<1>3. SubSeq(t, 1, k) = SubSeq(s, a + 1, a + k)
  <2> DEFINE x == SubSeq(t, 0 + 1, 0 + k)
             y == SubSeq(s, a + 1, a + k)
  <2>1. x \in Seq(Nat) /\ Len(x) = k /\ \A i \in 1..k : x[i] = t[0 + i]
    BY <1>1, <1>2, Stretch
  <2>2. y \in Seq(Nat) /\ Len(y) = k /\ \A i \in 1..k : y[i] = s[a + i]
    <3>1. k \in Nat /\ a + k <= Len(s)
      BY <1>1
    <3> QED BY <3>1, Stretch
  <2>3. \A i \in 1..k : t[0 + i] = s[a + i]
    BY <1>1, <1>2
  <2>4. x = y
    <3> HIDE DEF x, y
    <3> QED BY <2>1, <2>2, <2>3, SameCells
  <2> QED BY <1>1, <2>4
<1>4. SubSeq(t, k + 1, n) = SubSeq(s, a + k + 1, a + n)
  <2> DEFINE x == SubSeq(t, k + 1, k + m)
             y == SubSeq(s, b + 1, b + m)
  <2>1. x \in Seq(Nat) /\ Len(x) = m /\ \A i \in 1..m : x[i] = t[k + i]
    <3> HIDE DEF m
    <3> QED BY <1>1, <1>2, Stretch
  <2>2. y \in Seq(Nat) /\ Len(y) = m /\ \A i \in 1..m : y[i] = s[b + i]
    <3>1. b + m <= Len(s)
      BY <1>1
    <3> HIDE DEF m, b
    <3> QED BY <1>1, <3>1, Stretch
  <2>3. \A i \in 1..m : t[k + i] = s[b + i]
    <3> TAKE i \in 1..m
    <3>1. k + i \in 1..n /\ a + (k + i) = b + i
      BY <1>1
    <3> QED BY <1>2, <3>1
  <2>4. x = y
    <3> HIDE DEF x, y, m, b
    <3> QED BY <2>1, <2>2, <2>3, SameCells
  <2> QED BY <1>1, <2>4
<1> QED BY <1>3, <1>4 DEF t

\* A stretch of no cells.
LEMMA NoCells ==
  ASSUME NEW d \in Seq(Nat), NEW s, NEW a \in Nat, NEW n \in Nat, n = 0
  PROVE  SubSeq(s, a + 1, a + n) = << >> /\ d \o SubSeq(s, a + 1, a + n) = d
<1>1. a + n \in Int /\ a + 1 \in Int /\ a + n < a + 1
  OBVIOUS
<1>2. SubSeq(s, a + 1, a + n) = << >>
  BY <1>1, SubSeqEmpty
<1> QED BY <1>2, ConcatEmptySeq

\* A sequence is what comes first and then what is left.
LEMMA AllCells ==
  ASSUME NEW g \in Seq(Nat)
  PROVE  /\ Len(g) \in Nat
         /\ SubSeq(g, 1, Len(g)) = g
         /\ SubSeq(g, Len(g) + 1, Len(g)) = << >>
         /\ SubSeq(g, 1, 0) = << >>
         /\ << >> \o g = g /\ g \o << >> = g
<1>1. Len(g) \in Nat /\ Len(g) \in Int /\ Len(g) + 1 \in Int /\ Len(g) < Len(g) + 1
  BY LenProperties
<1>2. SubSeq(g, Len(g) + 1, Len(g)) = << >> /\ SubSeq(g, 1, 0) = << >>
  BY <1>1, SubSeqEmpty
<1> QED BY <1>1, <1>2, SubSeqFull, ConcatEmptySeq

-----------------------------------------------------------------------------
(* The byte stream.                                                        *)

AtMost(s, n) == \A k \in 1..Len(s) : s[k] <= n

StreamInv == TypeOK /\ InOrder /\ AtMost(delivered \o queue, sent)

LEMMA RunProperties ==
  ASSUME NEW a \in Nat, NEW n \in Nat
  PROVE  /\ Run(a, n) \in Seq(Nat)
         /\ Len(Run(a, n)) = n
         /\ \A k \in 1..n : Run(a, n)[k] = a + k
<1> DEFINE e(k) == a + k
<1>1. \A k \in 1..n : e(k) \in Nat
  OBVIOUS
<1>2. [k \in 1..n |-> e(k)] \in Seq(Nat)
  <2> HIDE DEF e
  <2> QED BY <1>1, IsASeq
<1> QED BY <1>2 DEF Run

\* Bytes that arrive come after all that arrived before.
LEMMA RunExtends ==
  ASSUME NEW s \in Seq(Nat), NEW a \in Nat, NEW n \in Nat,
         Increasing(s), AtMost(s, a)
  PROVE  /\ Increasing(s \o Run(a, n))
         /\ AtMost(s \o Run(a, n), a + n)
<1> DEFINE r == Run(a, n)
           t == s \o r
<1>1. r \in Seq(Nat) /\ Len(r) = n /\ \A k \in 1..n : r[k] = a + k
  BY RunProperties
<1>2. /\ Len(t) = Len(s) + n /\ Len(s) \in Nat
      /\ \A k \in 1..Len(s) : t[k] = s[k]
      /\ \A k \in Len(s)+1..Len(s)+n : t[k] = r[k - Len(s)]
  <2> HIDE DEF r
  <2> QED BY <1>1, ConcatCells
<1> HIDE DEF r, t
<1>3. \A k \in Len(s)+1..Len(s)+n : t[k] = a + (k - Len(s)) /\ t[k] > a /\ t[k] <= a + n
  <2> TAKE k \in Len(s)+1..Len(s)+n
  <2>1. k - Len(s) \in 1..n
    BY <1>2
  <2> QED BY <1>1, <1>2, <2>1
<1>4. \A k \in 1..Len(s) : t[k] = s[k] /\ s[k] \in Nat /\ s[k] <= a
  BY <1>2, ElementOfSeq DEF AtMost
<1>5. \A k \in 1..Len(t) : k \in 1..Len(s) \/ k \in Len(s)+1..Len(s)+n
  BY <1>2
<1>6. Increasing(t)
  <2> SUFFICES ASSUME NEW j \in 1..Len(t), NEW k \in 1..Len(t), j < k
               PROVE  t[j] < t[k]
    BY DEF Increasing
  <2>1. CASE k \in 1..Len(s)
    BY <1>2, <1>4, <2>1 DEF Increasing
  <2>2. CASE k \in Len(s)+1..Len(s)+n /\ j \in 1..Len(s)
    <3>1. t[j] \in Nat /\ t[j] <= a
      BY <1>4, <2>2
    <3>2. t[k] = a + (k - Len(s)) /\ k - Len(s) \in 1..n
      BY <1>2, <1>3, <2>2
    <3> QED BY <3>1, <3>2
  <2>3. CASE k \in Len(s)+1..Len(s)+n /\ j \in Len(s)+1..Len(s)+n
    BY <1>2, <1>3, <2>3
  <2> QED BY <1>5, <2>1, <2>2, <2>3
<1>7. AtMost(t, a + n)
  BY <1>3, <1>4, <1>5 DEF AtMost
<1> QED BY <1>6, <1>7 DEF t, r

\* Cutting a stretch out of the second of two sequences leaves them in order.
LEMMA StretchKeepsOrder ==
  ASSUME NEW d \in Seq(Nat), NEW g \in Seq(Nat), NEW n \in Nat,
         NEW j \in 1..Len(g)+1, NEW k \in (j-1)..Len(g),
         Increasing(d \o g), AtMost(d \o g, n)
  PROVE  /\ SubSeq(g, j, k) \in Seq(Nat)
         /\ Increasing(d \o SubSeq(g, j, k))
         /\ AtMost(d \o SubSeq(g, j, k), n)
<1> DEFINE u == SubSeq(g, j, k)
           m == k - j + 1
           t == d \o g
           v == d \o u
<1>1. Len(d) \in Nat /\ Len(g) \in Nat /\ m \in 0..Len(g)
  BY LenProperties
<1>2. u \in Seq(Nat) /\ Len(u) = m /\ \A i \in 1..m : u[i] = g[j+i-1]
  <2>1. \A i \in j..k : g[i] \in Nat
    BY <1>1, ElementOfSeq
  <2> QED BY <1>1, <2>1, SubSeqProperties
<1> HIDE DEF u, m
<1>3. /\ Len(t) = Len(d) + Len(g)
      /\ \A i \in 1..Len(d) : t[i] = d[i]
      /\ \A i \in Len(d)+1..Len(d)+Len(g) : t[i] = g[i - Len(d)]
  BY ConcatCells
<1>4. /\ Len(v) = Len(d) + m
      /\ \A i \in 1..Len(d) : v[i] = d[i]
      /\ \A i \in Len(d)+1..Len(d)+m : v[i] = u[i - Len(d)]
  <2>1. /\ Len(v) = Len(d) + Len(u)
        /\ \A i \in 1..Len(d) : v[i] = d[i]
        /\ \A i \in Len(d)+1..Len(d)+Len(u) : v[i] = u[i - Len(d)]
    BY <1>2, ConcatCells
  <2> QED BY <1>2, <2>1
<1> DEFINE at(i) == IF i <= Len(d) THEN i ELSE i + (j - 1)
<1> HIDE DEF t, v
<1>5. \A i \in 1..Len(v) : at(i) \in 1..Len(t) /\ v[i] = t[at(i)]
  <2> TAKE i \in 1..Len(v)
  <2>1. CASE i <= Len(d)
    BY <1>1, <1>3, <1>4, <2>1
  <2>2. CASE i > Len(d)
    <3>1. /\ i \in Len(d)+1..Len(d)+m
          /\ i - Len(d) \in 1..m
          /\ at(i) = i + (j - 1)
          /\ at(i) \in Len(d)+1..Len(d)+Len(g)
          /\ j + (i - Len(d)) - 1 = at(i) - Len(d)
      BY <1>1, <1>4, <2>2 DEF m
    <3>2. v[i] = g[at(i) - Len(d)]
      BY <1>2, <1>4, <3>1
    <3> QED BY <1>1, <1>3, <3>1, <3>2
  <2> QED BY <1>1, <2>1, <2>2
<1>6. \A i, l \in 1..Len(v) : i < l => at(i) < at(l)
  <2>1. Len(v) \in Nat /\ Len(d) \in Nat /\ j \in Nat /\ j >= 1
    BY <1>1, <1>4 DEF m
  <2> QED BY <2>1
<1> HIDE DEF at
<1>7. Increasing(v)
  BY <1>5, <1>6 DEF Increasing, t
<1>8. AtMost(v, n)
  BY <1>5 DEF AtMost, t
<1> QED BY <1>2, <1>7, <1>8 DEF u, v

-----------------------------------------------------------------------------
LEMMA StreamStep == StreamInv /\ [Next]_vars => StreamInv'
<1> SUFFICES ASSUME StreamInv, [Next]_vars PROVE StreamInv'
  OBVIOUS
<1>1. CASE UNCHANGED vars
  BY <1>1 DEF StreamInv, TypeOK, InOrder, AtMost, vars
<1>2. ASSUME Arrive
      PROVE  /\ Grown \in Seq(Nat)
             /\ Increasing(delivered \o Grown)
             /\ AtMost(delivered \o Grown, sent')
  <2> DEFINE n == sent' - sent
             r == Run(sent, n)
  <2>1. n \in Nat /\ sent + n = sent' /\ sent \in Nat
    <3>1. sent \in Nat /\ sent' \in Nat /\ sent' >= sent
      BY <1>2 DEF Arrive, StreamInv, TypeOK
    <3> QED BY <3>1, Difference
  <2>2. r \in Seq(Nat)
    BY <2>1, RunProperties
  <2>3. delivered \o queue \in Seq(Nat) /\ delivered \in Seq(Nat) /\ queue \in Seq(Nat)
    BY ConcatCells DEF StreamInv, TypeOK
  <2>4. /\ Increasing((delivered \o queue) \o r)
        /\ AtMost((delivered \o queue) \o r, sent')
    <3>1. Increasing(delivered \o queue) /\ AtMost(delivered \o queue, sent)
      BY DEF StreamInv, InOrder
    <3>2. /\ Increasing((delivered \o queue) \o Run(sent, n))
          /\ AtMost((delivered \o queue) \o Run(sent, n), sent + n)
      <4> HIDE DEF n
      <4> QED BY <2>1, <2>3, <3>1, RunExtends
    <3> QED BY <2>1, <3>2
  <2>5. (delivered \o queue) \o r = delivered \o (queue \o r)
    BY <2>2, <2>3, Associative
  <2>6. Grown = queue \o r
    BY DEF Grown
  <2> QED BY <2>2, <2>3, <2>4, <2>5, <2>6, ConcatCells
<1>3. delivered \in Seq(Nat)
  BY DEF StreamInv, TypeOK
<1>4. CASE Deliver
  <2>1. Arrive
    BY <1>4 DEF Deliver
  <2>2. PICK k \in 0..Len(Grown) :
           /\ delivered' = delivered \o SubSeq(Grown, 1, k)
           /\ queue' = SubSeq(Grown, k + 1, Len(Grown))
    BY <1>4 DEF Deliver
  <2>3. /\ SubSeq(Grown, 1, k) \in Seq(Nat)
        /\ queue' \in Seq(Nat)
        /\ delivered' \o queue' = delivered \o Grown
    BY <1>2, <1>3, <2>1, <2>2, FrontAndRest
  <2>4. delivered' \in Seq(Nat)
    BY <1>3, <2>2, <2>3, ConcatCells
  <2> QED BY <1>2, <2>1, <2>3, <2>4 DEF StreamInv, TypeOK, InOrder, Arrive
<1>5. CASE Keep
  <2>1. Arrive /\ delivered' = delivered
    BY <1>5 DEF Keep
  <2>2. PICK j \in 1..Len(Grown)+1 :
           \E k \in (j-1)..Len(Grown) : queue' = SubSeq(Grown, j, k)
    BY <1>5 DEF Keep
  <2>5. PICK k \in (j-1)..Len(Grown) : queue' = SubSeq(Grown, j, k)
    BY <2>2
  <2>3. sent' \in Nat
    BY <2>1 DEF Arrive
  <2>4. /\ queue' \in Seq(Nat)
        /\ Increasing(delivered \o queue')
        /\ AtMost(delivered \o queue', sent')
    BY <1>2, <1>3, <2>1, <2>5, <2>3, StretchKeepsOrder
  <2> QED BY <1>3, <2>1, <2>3, <2>4 DEF StreamInv, TypeOK, InOrder
<1> QED BY <1>1, <1>4, <1>5 DEF Next

LEMMA StreamInit == Init => StreamInv
<1> SUFFICES ASSUME Init PROVE StreamInv
  OBVIOUS
<1>1. << >> \in Seq(Nat) /\ << >> \o << >> = << >> /\ Len(<< >>) = 0
  BY EmptySeq, ConcatEmptySeq
<1> QED BY <1>1 DEF Init, StreamInv, TypeOK, InOrder, Increasing, AtMost

\* Every implementation of the byte stream delivers in order, without
\* repetition, and holds back only what comes later.
THEOREM StreamInOrder == Spec => []InOrder
<1>1. StreamInv => InOrder
  BY DEF StreamInv
<1> QED BY <1>1, StreamInit, StreamStep, PTL DEF Spec
=============================================================================
