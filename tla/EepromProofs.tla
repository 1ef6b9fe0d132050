---------------------------- MODULE EepromProofs ----------------------------
(***************************************************************************)
(* Proofs about Eeprom, for every device, string, value and sequence of    *)
(* calls.  First what an image consists of: its checksum, its strings, the *)
(* bytes of each type and that they do not overlap where it matters; then  *)
(* what decode makes of any bytes at all; then the inductive invariant,    *)
(* one lemma per group of calls, and what follows from it.                 *)
(***************************************************************************)
EXTENDS Eeprom, WellFoundedInduction, TLAPS

-----------------------------------------------------------------------------
(* The recursive checksum.  The induction is by the least number.          *)

\* The order of the numbers.
Less == {p \in Nat \X Nat : p[1] < p[2]}

\* Every descent in the numbers ends.
LEMMA LessWellFounded == IsWellFoundedOn(Less, Nat)
  BY NatLessThanWellFounded DEF OpToRel, Less

\* A set of numbers that is not empty has a least one.
LEMMA Least ==
  ASSUME NEW T, T \subseteq Nat, T # {}
  PROVE  \E n \in T : \A m \in T : n <= m
<1>1. PICK n \in T : \A m \in T : <<m, n>> \notin Less
  BY LessWellFounded, WFMin
<1>2. \A m \in T : ~(m < n)
  BY <1>1 DEF Less
<1> QED BY <1>1, <1>2

\* The sum after the kth word, from the one before.
NextSum(image, sum, k) == Folded[<<sum, image[2*k - 2] + 256 * image[2*k - 1]>>]

\* g is the sums up to the nth.
Partial(image, g, n) ==
    g = [k \in 0 .. n |-> IF k = 0 THEN 43690 ELSE NextSum(image, g[k-1], k)]

\* Two partial sums agree as far as both go.
LEMMA PartialAgree ==
  ASSUME NEW image, NEW g, NEW h, NEW n \in Nat, NEW m \in Nat,
         Partial(image, g, n), Partial(image, h, m),
         NEW k \in Nat, k <= n, k <= m
  PROVE  g[k] = h[k]
<1> DEFINE Wrong == {j \in Nat : j <= n /\ j <= m /\ g[j] # h[j]}
<1>1. SUFFICES ASSUME Wrong # {} PROVE FALSE
  OBVIOUS
<1>2. PICK j \in Wrong : \A i \in Wrong : j <= i
  BY <1>1, Least, Wrong \subseteq Nat
<1>3. j \in 0 .. n /\ j \in 0 .. m
  BY <1>2
<1>4. /\ g[j] = IF j = 0 THEN 43690 ELSE NextSum(image, g[j-1], j)
      /\ h[j] = IF j = 0 THEN 43690 ELSE NextSum(image, h[j-1], j)
  BY <1>3 DEF Partial
<1>5. j # 0
  BY <1>2, <1>4
<1>6. j - 1 \in Nat /\ j - 1 \notin Wrong
  BY <1>2, <1>3, <1>5
<1>7. g[j-1] = h[j-1]
  BY <1>3, <1>6
<1> QED BY <1>2, <1>4, <1>7

\* There are partial sums up to any n.
LEMMA PartialExists ==
  ASSUME NEW image, NEW n \in Nat
  PROVE  \E g : Partial(image, g, n)
<1> DEFINE Missing == {m \in Nat : ~ \E g : Partial(image, g, m)}
<1>1. SUFFICES ASSUME Missing # {} PROVE FALSE
  OBVIOUS
<1>2. PICK m \in Missing : \A i \in Missing : m <= i
  BY <1>1, Least, Missing \subseteq Nat
<1>3. m \in Nat /\ ~ \E g : Partial(image, g, m)
  BY <1>2
<1>4. m # 0
  <2>1. Partial(image, [k \in 0 .. 0 |-> 43690], 0)
    BY DEF Partial
  <2> QED BY <1>3, <2>1
<1>5. m - 1 \in Nat /\ m - 1 \notin Missing
  BY <1>2, <1>3, <1>4
<1>6. PICK g : Partial(image, g, m - 1)
  BY <1>5
<1> DEFINE h == [k \in 0 .. m |-> IF k < m THEN g[k] ELSE NextSum(image, g[m-1], m)]
<1>7. \A k \in 0 .. m : h[k] = IF k = 0 THEN 43690 ELSE NextSum(image, h[k-1], k)
  <2> TAKE k \in 0 .. m
  <2>1. CASE k = m
    <3>1. h[m-1] = g[m-1]
      BY <1>3, <1>5
    <3> QED BY <2>1, <3>1, <1>4
  <2>2. CASE k < m
    <3>1. k \in 0 .. m - 1
      BY <1>3, <2>2
    <3>2. g[k] = IF k = 0 THEN 43690 ELSE NextSum(image, g[k-1], k)
      BY <1>6, <3>1 DEF Partial
    <3>3. k # 0 => h[k-1] = g[k-1]
      BY <1>3, <2>2, <3>1
    <3> QED BY <2>2, <3>2, <3>3
  <2> QED BY <1>3, <2>1, <2>2
<1>8. Partial(image, h, m)
  <2> DEFINE g0 == [k \in 0 .. m |-> IF k = 0 THEN 43690 ELSE NextSum(image, h[k-1], k)]
  <2>1. h = [k \in 0 .. m |-> h[k]]
    OBVIOUS
  <2>2. g0 = [k \in 0 .. m |-> g0[k]]
    OBVIOUS
  <2> HIDE DEF h
  <2>3. \A k \in 0 .. m : g0[k] = h[k]
    BY <1>7
  <2> SUFFICES h = g0
    BY DEF Partial
  <2> HIDE DEF g0
  <2> QED BY <2>1, <2>2, <2>3
<1> QED BY <1>3, <1>8

\* The checksum's recursion has a solution.
LEMMA SumsRecursion ==
  ASSUME NEW image
  PROVE  Sums(image) = [n \in Nat |-> IF n = 0 THEN 43690 ELSE NextSum(image, Sums(image)[n-1], n)]
<1> DEFINE part(n) == CHOOSE g : Partial(image, g, n)
           sum == [n \in Nat |-> part(n)[n]]
<1>1. \A n \in Nat : Partial(image, part(n), n)
  BY PartialExists
<1>2. \A n \in Nat : sum[n] = IF n = 0 THEN 43690 ELSE NextSum(image, sum[n-1], n)
  <2> TAKE n \in Nat
  <2> HIDE DEF part
  <2>1. part(n)[n] = IF n = 0 THEN 43690 ELSE NextSum(image, part(n)[n-1], n)
    BY <1>1 DEF Partial
  <2>2. CASE n = 0
    BY <2>1, <2>2
  <2>3. CASE n # 0
    <3>1. n - 1 \in Nat
      BY <2>3
    <3>2. part(n)[n-1] = part(n-1)[n-1]
      BY <1>1, <3>1, PartialAgree
    <3> QED BY <2>1, <2>3, <3>1, <3>2
  <2> QED BY <2>2, <2>3
<1>3. sum = [n \in Nat |-> sum[n]]
  OBVIOUS
<1> HIDE DEF sum
<1>4. PICK f : /\ f = [n \in Nat |-> f[n]]
               /\ \A n \in Nat : f[n] = IF n = 0 THEN 43690 ELSE NextSum(image, f[n-1], n)
  BY <1>2, <1>3
<1> DEFINE Solves(g) == g = [n \in Nat |-> IF n = 0 THEN 43690 ELSE NextSum(image, g[n-1], n)]
<1>5. Solves(f)
  <2> DEFINE g == [n \in Nat |-> IF n = 0 THEN 43690 ELSE NextSum(image, f[n-1], n)]
  <2>1. \A n \in Nat : g[n] = f[n]
    BY <1>4
  <2>2. g = [n \in Nat |-> g[n]]
    OBVIOUS
  <2> SUFFICES f = g
    OBVIOUS
  <2> HIDE DEF g
  <2> QED BY <1>4, <2>1, <2>2
<1>6. Sums(image) = CHOOSE g : Solves(g)
  BY DEF Sums, NextSum
<1>7. Solves(CHOOSE g : Solves(g))
  <2> HIDE DEF Solves
  <2> QED BY <1>5
<1> QED BY <1>6, <1>7

\* An address is a number below 256.
LEMMA AddressRange == \A a : a \in Address <=> a \in Nat /\ a < 256
  BY DEF Address

\* The recursion's start,
LEMMA SumStart == ASSUME NEW image PROVE Sums(image)[0] = 43690
  BY SumsRecursion

\* and its step, as far as image is concerned.
LEMMA SumStep ==
  ASSUME NEW image, NEW n \in Nat, n # 0
  PROVE  Sums(image)[n] = NextSum(image, Sums(image)[n-1], n)
  BY SumsRecursion

\* The exclusive or of two nibbles is a nibble,
LEMMA NibbleRange ==
  ASSUME NEW a \in 0 .. 15, NEW b \in 0 .. 15
  PROVE  XorNibble[<<a, b>>] \in 0 .. 15
<1> DEFINE bit(m) == When((a \div m) % 2 # (b \div m) % 2, m)
<1>1. \A m \in Nat : bit(m) \in {0, m}
  BY DEF When
<1>2. XorNibble[<<a, b>>] = bit(8) + bit(4) + bit(2) + bit(1)
  <2>1. <<a, b>> \in (0 .. 15) \X (0 .. 15)
    OBVIOUS
  <2> QED BY <2>1 DEF XorNibble
<1> HIDE DEF bit
<1> QED BY <1>1, <1>2

\* of two bytes a byte.
LEMMA XorRange ==
  ASSUME NEW a \in Byte, NEW b \in Byte
  PROVE  Xor(a, b) \in Byte
<1>1. /\ a \div 16 \in 0 .. 15 /\ b \div 16 \in 0 .. 15
      /\ a % 16 \in 0 .. 15 /\ b % 16 \in 0 .. 15
  BY DEF Byte
<1> DEFINE x == XorNibble[<<a \div 16, b \div 16>>]
           y == XorNibble[<<a % 16, b % 16>>]
<1>2. x \in 0 .. 15 /\ y \in 0 .. 15
  BY <1>1, NibbleRange
<1>3. Xor(a, b) = 16 * x + y
  BY DEF Xor
<1> HIDE DEF x, y
<1> QED BY <1>2, <1>3 DEF Byte

\* A word consists of its two bytes,
LEMMA BytesOfWord ==
  ASSUME NEW w \in Word
  PROVE  Low(w) \in Byte /\ High(w) \in Byte /\ Low(w) + 256 * High(w) = w
<1> DEFINE q == w \div 256
           r == w % 256
<1>1. w \in Nat /\ w < 65536
  BY SMT DEF Word
<1>2. q \in Nat /\ r \in 0 .. 255 /\ w = 256 * q + r
  BY <1>1, SMT
<1>3. Low(w) = r /\ High(w) = q % 256
  BY DEF Low, High
<1> HIDE DEF q, r
<1>4. q <= 255
  BY <1>1, <1>2, SMT
<1>5. q % 256 = q
  BY <1>2, <1>4, SMT
<1> QED BY <1>2, <1>3, <1>4, <1>5, SMT DEF Byte

\* and two bytes make a word.
LEMMA WordOfBytes ==
  ASSUME NEW a \in Byte, NEW b \in Byte
  PROVE  a + 256 * b \in Word /\ Low(a + 256 * b) = a /\ High(a + 256 * b) = b
<1>1. a \in 0 .. 255 /\ b \in 0 .. 255
  BY DEF Byte
<1>2. (a + 256 * b) % 256 = a
  BY <1>1, SMT
<1>3. (a + 256 * b) \div 256 = b
  BY <1>1, SMT
<1>4. b % 256 = b
  BY <1>1, SMT
<1> QED BY <1>1, <1>2, <1>3, <1>4, SMT DEF Low, High, Word

\* The checksum stays a word.
LEMMA FoldedRange ==
  ASSUME NEW sum \in Word, NEW word \in Word
  PROVE  Folded[<<sum, word>>] \in Word
<1> DEFINE x == 256 * Xor(High(sum), High(word)) + Xor(Low(sum), Low(word))
<1>1. Folded[<<sum, word>>] = ((2 * x) % 65536) + (x \div 32768)
  <2>1. <<sum, word>> \in Nat \X Nat
    BY SMT DEF Word
  <2> QED BY <2>1, SMT DEF Folded
<1>2. x \in Word
  <2>1. Xor(High(sum), High(word)) \in Byte /\ Xor(Low(sum), Low(word)) \in Byte
    BY XorRange, BytesOfWord
  <2> QED BY <2>1, SMT DEF Byte, Word
<1> HIDE DEF x
<1>3. CASE x < 32768
  <2>1. (2 * x) % 65536 = 2 * x /\ x \div 32768 = 0
    BY <1>2, <1>3, SMT DEF Word
  <2> QED BY <1>1, <1>2, <1>3, <2>1, SMT DEF Word
<1>4. CASE x >= 32768
  <2>1. (2 * x) % 65536 = 2 * x - 65536 /\ x \div 32768 = 1
    BY <1>2, <1>4, SMT DEF Word
  <2> QED BY <1>1, <1>2, <1>4, <2>1, SMT DEF Word
<1> QED BY <1>2, <1>3, <1>4, SMT DEF Word

\* Of bytes the sum is a word.
LEMMA SumIsWord ==
  ASSUME NEW image, \A a \in Address : image[a] \in Byte, NEW n \in 0 .. 128
  PROVE  Sums(image)[n] \in Word
<1> DEFINE Wrong == {k \in 0 .. 128 : Sums(image)[k] \notin Word}
<1>1. SUFFICES ASSUME Wrong # {} PROVE FALSE
  OBVIOUS
<1>2. PICK k \in Wrong : \A i \in Wrong : k <= i
  BY <1>1, Least, Wrong \subseteq Nat
<1>3. k \in 1 .. 128
  BY <1>2, SumStart, SMT DEF Word
<1>4. k - 1 \in 0 .. 128 /\ k - 1 \notin Wrong
  BY <1>2, <1>3
<1>5. Sums(image)[k-1] \in Word
  BY <1>4
<1>6. image[2*k - 2] + 256 * image[2*k - 1] \in Word
  <2>1. 2*k - 2 \in Address /\ 2*k - 1 \in Address
    BY <1>3, AddressRange
  <2> QED BY <2>1, WordOfBytes
<1>7. Sums(image)[k] = NextSum(image, Sums(image)[k-1], k)
  BY <1>3, SumStep
<1>8. NextSum(image, Sums(image)[k-1], k) \in Word
  BY <1>5, <1>6, FoldedRange DEF NextSum
<1> QED BY <1>2, <1>7, <1>8

\* The sum depends only on the words it is over.
LEMMA SumsAgree ==
  ASSUME NEW b, NEW c, NEW n \in Nat, \A a \in 0 .. 2*n - 1 : b[a] = c[a]
  PROVE  Sums(b)[n] = Sums(c)[n]
<1> DEFINE Wrong == {k \in 0 .. n : Sums(b)[k] # Sums(c)[k]}
<1>1. SUFFICES ASSUME Wrong # {} PROVE FALSE
  OBVIOUS
<1>2. PICK k \in Wrong : \A i \in Wrong : k <= i
  BY <1>1, Least, Wrong \subseteq Nat
<1>3. k \in 1 .. n
  BY <1>2, SumStart
<1>4. k - 1 \in 0 .. n /\ k - 1 \notin Wrong
  BY <1>2, <1>3
<1>5. Sums(b)[k-1] = Sums(c)[k-1]
  BY <1>4
<1>6. b[2*k - 2] = c[2*k - 2] /\ b[2*k - 1] = c[2*k - 1]
  <2>1. 2*k - 2 \in 0 .. 2*n - 1 /\ 2*k - 1 \in 0 .. 2*n - 1
    BY <1>3
  <2> QED BY <2>1
<1>7. /\ Sums(b)[k] = NextSum(b, Sums(b)[k-1], k)
      /\ Sums(c)[k] = NextSum(c, Sums(c)[k-1], k)
  BY <1>3, SumStep
<1>8. NextSum(b, Sums(b)[k-1], k) = NextSum(c, Sums(c)[k-1], k)
  BY <1>5, <1>6 DEF NextSum
<1> QED BY <1>2, <1>7, <1>8

-----------------------------------------------------------------------------
(* A structure, and the pieces of the image that is made of it.            *)

Strings == {"manufacturer", "product", "serial"}

\* The types of the fields.
StructRight(e) ==
    /\ DOMAIN e = DOMAIN Blank
    /\ \A f \in Numbers : e[f] \in Nat
    /\ \A f \in Strings : e[f] \in Seq(Byte)
    /\ \A f \in Quads : e[f] \in [1 .. 4 -> Nat]
    /\ e.channel_type \in [1 .. 2 -> Nat]
    /\ e.cbus \in [1 .. 10 -> Nat]
    /\ e.size \in {-1, 0, 64, 128, 256}
    /\ e.chip \in Int
    /\ e.initialized \in BOOLEAN

\* The structure of a new context.
LEMMA BlankRight == StructRight(Blank)
  BY DEF StructRight, Blank, Numbers, Strings, Quads, Four

\* What f @@ g is defined on,
LEMMA OverDomain ==
  ASSUME NEW f, NEW g
  PROVE  DOMAIN (f @@ g) = DOMAIN f \cup DOMAIN g
  BY DEF @@

\* and what it is there.
LEMMA OverValue ==
  ASSUME NEW f, NEW g, NEW x, x \in DOMAIN f \cup DOMAIN g
  PROVE  (f @@ g)[x] = IF x \in DOMAIN f THEN f[x] ELSE g[x]
  BY DEF @@

\* What a :> b is.
LEMMA AtIs ==
  ASSUME NEW a, NEW b
  PROVE  DOMAIN (a :> b) = {a} /\ (a :> b)[a] = b
  BY DEF :>

\* Bytes at addresses.
Piece(f) == DOMAIN f \subseteq Address /\ \A a \in DOMAIN f : f[a] \in Byte

\* One byte is a piece of an image,
LEMMA PieceAt ==
  ASSUME NEW a \in Address, NEW b \in Byte
  PROVE  Piece(a :> b)
<1>1. DOMAIN (a :> b) = {a} /\ (a :> b)[a] = b
  BY AtIs
<1> HIDE DEF :>
<1> QED BY <1>1 DEF Piece

\* and so are two pieces one over the other.
LEMMA PieceOver ==
  ASSUME NEW f, NEW g, Piece(f), Piece(g)
  PROVE  Piece(f @@ g)
<1> DEFINE h == f @@ g
<1>1. DOMAIN h = DOMAIN f \cup DOMAIN g
  BY OverDomain
<1>2. \A x \in DOMAIN f \cup DOMAIN g : h[x] = IF x \in DOMAIN f THEN f[x] ELSE g[x]
  BY OverValue
<1> SUFFICES Piece(h)
  OBVIOUS
<1> HIDE DEF h
<1> QED BY <1>1, <1>2 DEF Piece

\* What build puts in a byte, modulo 256,
LEMMA LowByte == ASSUME NEW n \in Int PROVE Low(n) \in Byte
  BY DEF Low, Byte

\* or shifted,
LEMMA HighByte == ASSUME NEW n \in Int PROVE High(n) \in Byte
  BY DEF High, Byte

\* or because it is small.
LEMMA RangeByte == ASSUME NEW n \in Int, 0 <= n, n <= 255 PROVE n \in Byte
  BY DEF Byte

\* The fields build reads.
LEMMA FieldTypes ==
  ASSUME NEW e, StructRight(e)
  PROVE  /\ e.vendor_id \in Nat /\ e.product_id \in Nat /\ e.is_not_pnp \in Nat
         /\ e.usb_version \in Nat /\ e.max_power \in Nat /\ e.invert \in Nat
         /\ e.manufacturer \in Seq(Byte) /\ e.product \in Seq(Byte) /\ e.serial \in Seq(Byte)
         /\ e.driver \in [1 .. 4 -> Nat] /\ e.rs485 \in [1 .. 4 -> Nat]
         /\ e.drive \in [1 .. 4 -> Nat] /\ e.schmitt \in [1 .. 4 -> Nat]
         /\ e.slew \in [1 .. 4 -> Nat]
         /\ e.channel_type \in [1 .. 2 -> Nat] /\ e.cbus \in [1 .. 10 -> Nat]
         /\ e.size \in {-1, 0, 64, 128, 256}
         /\ e.chip \in Int
  BY ZenonT(60) DEF StructRight, Numbers, Strings, Quads, Blank

-----------------------------------------------------------------------------
(* The strings.                                                            *)

\* A string whose length was kept in a byte is a string.
LEMMA KeptRight ==
  ASSUME NEW s \in Seq(Byte)
  PROVE  Kept(s) \in Seq(Byte) /\ Len(Kept(s)) = Len(s) % 256
<1>1. Len(s) % 256 \in 0 .. Len(s)
  <2>1. Len(s) \in Nat
    OBVIOUS
  <2> QED BY <2>1
<1> QED BY <1>1 DEF Kept

\* What a concatenation is.
Joined(s, u) == /\ s \o u \in Seq(Byte)
                /\ Len(s \o u) = Len(s) + Len(u)
                /\ Len(s) # 0 => (s \o u)[1] = s[1]

\* Concatenation, as one definition to expand when needed.
LEMMA Concatenated ==
  ASSUME NEW s \in Seq(Byte), NEW u \in Seq(Byte)
  PROVE  Joined(s, u)
  BY DEF Joined

\* A descriptor starts with its own length, in a byte.
LEMMA DescriptorRight ==
  ASSUME NEW s \in Seq(Byte), Len(s) <= 100
  PROVE  /\ Descriptor(s) \in Seq(Byte)
         /\ Len(Descriptor(s)) = 2 * Len(s) + 2
         /\ Descriptor(s)[1] = 2 * Len(s) + 2
<1> DEFINE chars == [k \in 1 .. 2 * Len(s) |-> IF k % 2 = 1 THEN s[(k + 1) \div 2] ELSE 0]
           head  == <<2 * Len(s) + 2, 3>>
<1>1. Len(s) \in Nat
  OBVIOUS
<1>2. \A k \in 1 .. 2 * Len(s) : chars[k] \in Byte
  <2> TAKE k \in 1 .. 2 * Len(s)
  <2>1. CASE k % 2 = 1
    <3>1. (k + 1) \div 2 \in 1 .. Len(s)
      BY <1>1
    <3>2. s[(k + 1) \div 2] \in Byte
      BY <3>1
    <3> QED BY <2>1, <3>2
  <2>2. CASE k % 2 # 1
    BY <2>2, RangeByte
  <2> QED BY <2>1, <2>2
<1>3. chars \in Seq(Byte) /\ Len(chars) = 2 * Len(s)
  <2>1. 2 * Len(s) \in Nat
    BY <1>1
  <2>2. chars \in [1 .. 2 * Len(s) -> Byte]
    BY <1>2
  <2> HIDE DEF chars
  <2> QED BY <2>1, <2>2
<1>4. head \in Seq(Byte) /\ Len(head) = 2 /\ head[1] = 2 * Len(s) + 2
  <2>1. 2 * Len(s) + 2 \in Byte /\ 3 \in Byte
    BY <1>1, RangeByte
  <2> QED BY <2>1
<1>5. Descriptor(s) = head \o chars
  BY DEF Descriptor
<1> HIDE DEF head, chars
<1>6. /\ head \o chars \in Seq(Byte)
      /\ Len(head \o chars) = Len(head) + Len(chars)
      /\ (head \o chars)[1] = head[1]
  <2>1. Joined(head, chars)
    BY <1>3, <1>4, Concatenated
  <2> QED BY <1>4, <2>1 DEF Joined
<1> QED BY <1>1, <1>3, <1>4, <1>5, <1>6

\* The bytes after the strings are three at most.
LEMMA PnPRight ==
  ASSUME NEW t, NEW e, StructRight(e)
  PROVE  PnP(t, e) \in Seq(Byte) /\ Len(PnP(t, e)) <= 3
<1>1. Low(e.is_not_pnp) \in Byte /\ 2 \in Byte /\ 3 \in Byte
  BY LowByte, FieldTypes, RangeByte
<1>2. <<2, 3, Low(e.is_not_pnp)>> \in Seq(Byte) /\ Len(<<2, 3, Low(e.is_not_pnp)>>) = 3
  BY <1>1
<1> QED BY <1>2 DEF PnP

\* What build has room for.
Fits(t, e) == t \in Types /\ StructRight(e) /\ Room(t, e) >= 0

\* With room for the strings, the text is nine bytes longer than the area at
\* most.
LEMMA TextRight ==
  ASSUME NEW t, NEW e, Fits(t, e)
  PROVE  /\ Text(t, e) \in Seq(Byte)
         /\ Len(Text(t, e)) \in 1 .. UserArea(t) + 9
         /\ Text(t, e)[1] = 2 * Len(Kept(e.manufacturer)) + 2
         /\ 2 * Len(Kept(e.manufacturer)) + 2 * Len(Kept(e.product))
               + 2 * Len(Kept(e.serial)) <= UserArea(t)
         /\ UserArea(t) \in 80 .. 96
<1> DEFINE m == Kept(e.manufacturer)
           p == Kept(e.product)
           n == Kept(e.serial)
<1>1. m \in Seq(Byte) /\ p \in Seq(Byte) /\ n \in Seq(Byte)
  <2>1. /\ e.manufacturer \in Seq(Byte) /\ e.product \in Seq(Byte)
        /\ e.serial \in Seq(Byte)
    BY FieldTypes DEF Fits
  <2> QED BY <2>1, KeptRight
<1>2. Len(m) \in Nat /\ Len(p) \in Nat /\ Len(n) \in Nat
  BY <1>1
<1>3. UserArea(t) \in 80 .. 96
  BY DEF Fits, Types, UserArea, Older, Dual
<1>4. 2 * Len(m) + 2 * Len(p) + 2 * Len(n) <= UserArea(t)
  <2>1. Room(t, e) = UserArea(t) - 2 * (Len(m) + Len(p) + Len(n))
    BY DEF Room
  <2>2. Room(t, e) >= 0
    BY DEF Fits
  <2> DEFINE a == Len(m)
             b == Len(p)
             c == Len(n)
             u == UserArea(t)
  <2>3. a \in Nat /\ b \in Nat /\ c \in Nat
    BY <1>2
  <2>4. u \in Int
    BY <1>3
  <2>5. u - 2 * (a + b + c) >= 0
    BY <2>1, <2>2
  <2> HIDE DEF a, b, c, u
  <2>6. 2 * a + 2 * b + 2 * c <= u
    BY <2>3, <2>4, <2>5
  <2> QED BY <2>6 DEF a, b, c, u
<1> DEFINE dm == Descriptor(m)
           dp == Descriptor(p)
           dn == Descriptor(n)
           pp == PnP(t, e)
<1>5. Text(t, e) = dm \o dp \o dn \o pp
  BY DEF Text
<1> HIDE DEF m, p, n
<1>6. /\ dm \in Seq(Byte) /\ Len(dm) = 2 * Len(m) + 2 /\ dm[1] = 2 * Len(m) + 2
      /\ dp \in Seq(Byte) /\ Len(dp) = 2 * Len(p) + 2
      /\ dn \in Seq(Byte) /\ Len(dn) = 2 * Len(n) + 2
  <2>1. Len(m) <= 100 /\ Len(p) <= 100 /\ Len(n) <= 100
    BY <1>2, <1>3, <1>4, SMTT(30)
  <2> QED BY <1>1, <2>1, DescriptorRight
<1>7. pp \in Seq(Byte) /\ Len(pp) <= 3 /\ Len(pp) \in Nat
  BY PnPRight DEF Fits
<1> HIDE DEF dm, dp, dn, pp
<1>8. /\ dm \o dp \in Seq(Byte) /\ Len(dm \o dp) = Len(dm) + Len(dp)
      /\ Len(dm \o dp) # 0 /\ (dm \o dp)[1] = dm[1]
  <2>1. Joined(dm, dp)
    BY <1>6, Concatenated
  <2> QED BY <1>2, <1>6, <2>1 DEF Joined
<1> DEFINE two == dm \o dp
<1>9. /\ two \o dn \in Seq(Byte) /\ Len(two \o dn) = Len(two) + Len(dn)
      /\ Len(two \o dn) # 0 /\ (two \o dn)[1] = dm[1]
  <2> HIDE DEF two
  <2>1. two \in Seq(Byte) /\ Len(two) \in Nat \ {0} /\ two[1] = dm[1]
    BY <1>2, <1>6, <1>8 DEF two
  <2>2. Joined(two, dn)
    BY <1>6, <2>1, Concatenated
  <2> QED BY <1>2, <1>6, <2>1, <2>2 DEF Joined
<1> DEFINE three == two \o dn
<1>10. /\ three \o pp \in Seq(Byte) /\ Len(three \o pp) = Len(three) + Len(pp)
       /\ (three \o pp)[1] = dm[1]
  <2> HIDE DEF three
  <2>1. three \in Seq(Byte) /\ Len(three) # 0 /\ three[1] = dm[1]
    BY <1>9 DEF three
  <2>2. Joined(three, pp)
    BY <1>7, <2>1, Concatenated
  <2> QED BY <1>7, <2>1, <2>2 DEF Joined
<1>11. Text(t, e) = three \o pp
  BY <1>5
<1>12. Text(t, e) \in Seq(Byte) /\ Text(t, e)[1] = 2 * Len(m) + 2
  BY <1>6, <1>10, <1>11
<1>13. Len(Text(t, e)) = 2 * Len(m) + 2 * Len(p) + 2 * Len(n) + 6 + Len(pp)
  <2> DEFINE a == Len(m)
             b == Len(p)
             c == Len(n)
             d == Len(pp)
  <2>1. Len(three) = (2 * a + 2) + (2 * b + 2) + (2 * c + 2)
    BY <1>6, <1>8, <1>9
  <2>2. Len(Text(t, e)) = Len(three) + d
    BY <1>10, <1>11
  <2>3. a \in Nat /\ b \in Nat /\ c \in Nat /\ d \in Nat
    BY <1>2, <1>7
  <2> HIDE DEF a, b, c, d, three
  <2>4. Len(Text(t, e)) = 2 * a + 2 * b + 2 * c + 6 + d
    BY <2>1, <2>2, <2>3
  <2> QED BY <2>4 DEF a, b, c, d
<1>14. Len(Text(t, e)) \in 1 .. UserArea(t) + 9
  <2> DEFINE a == Len(m)
             b == Len(p)
             c == Len(n)
             d == Len(pp)
             u == UserArea(t)
  <2>1. a \in Nat /\ b \in Nat /\ c \in Nat /\ d \in Nat /\ d <= 3 /\ u \in Nat
    <3>1. a \in Nat /\ b \in Nat /\ c \in Nat
      BY <1>2
    <3>2. d \in Nat /\ d <= 3
      BY <1>7
    <3>3. u \in Nat
      BY <1>3
    <3> QED BY <3>1, <3>2, <3>3
  <2>2. 2 * a + 2 * b + 2 * c <= u
    BY <1>4
  <2>3. Len(Text(t, e)) = 2 * a + 2 * b + 2 * c + 6 + d
    BY <1>13
  <2> HIDE DEF a, b, c, d, u
  <2>4. Len(Text(t, e)) \in 1 .. u + 9
    BY <2>1, <2>2, <2>3
  <2> QED BY <2>4 DEF u
<1> QED BY <1>3, <1>4, <1>12, <1>14 DEF m, p, n

\* Where the strings are in an image of this size.
Base(t, size) == StringStart(t) - (256 - size)

\* The strings end before the checksum, on every type and size.
LEMMA BaseRange ==
  ASSUME NEW t \in Types, NEW size \in {128, 256}
  PROVE  /\ StringStart(t) \in 148 .. 156
         /\ Base(t, size) \in 20 .. 156
         /\ size = 256 => Base(t, size) >= 148
         /\ Base(t, size) + UserArea(t) + 9 <= size - 2
         /\ size = 128 => Base(t, size) = StringStart(t) - 128
         /\ size = 256 => Base(t, size) = StringStart(t)
         /\ UserArea(t) \in 80 .. 96
  BY DEF Base, StringStart, UserArea, Types, Older, Dual

\* The way from the nth character to its address and back.
LEMMA Wrapped ==
  ASSUME NEW start \in 148 .. 156, NEW size \in {128, 256}, NEW k \in Nat,
         start - (256 - size) + k < size
  PROVE  /\ (start + k) % size = start - (256 - size) + k
         /\ (start - (256 - size) + k - start) % size = k
<1>1. CASE size = 256
  BY <1>1
<1>2. CASE size = 128
  <2>1. start + k - 128 \in 0 .. 127
    BY <1>2
  <2>2. (start + k) % 128 = start + k - 128
    BY <2>1
  <2>3. k < 128
    BY <1>2
  <2>4. (k - 128) % 128 = k
    BY <2>3
  <2>5. start - (256 - size) + k - start = k - 128
    BY <1>2
  <2> QED BY <1>2, <2>2, <2>4, <2>5
<1> QED BY <1>1, <1>2

\* So they do not wrap around: the text is at consecutive addresses.
LEMMA PlacedIs ==
  ASSUME NEW t \in Types, NEW size \in {128, 256}, NEW text \in Seq(Byte),
         Len(text) <= UserArea(t) + 9
  PROVE  /\ DOMAIN Placed(t, size, text) = Base(t, size) .. Base(t, size) + Len(text) - 1
         /\ \A a \in DOMAIN Placed(t, size, text) :
              Placed(t, size, text)[a] = text[a - Base(t, size) + 1]
<1> DEFINE start == StringStart(t)
           base  == Base(t, size)
           len   == Len(text)
           area  == UserArea(t)
<1>1. /\ start \in 148 .. 156 /\ base = start - (256 - size)
      /\ base \in 20 .. 156 /\ len \in Nat
      /\ \A k \in 0 .. len - 1 : base + k < size
  <2>1. /\ start \in 148 .. 156 /\ base \in 20 .. 156 /\ len \in Nat
        /\ base + area + 9 <= size - 2 /\ len <= area + 9 /\ area \in Int
    <3>1. len \in Nat
      OBVIOUS
    <3>2. /\ start \in 148 .. 156 /\ base \in 20 .. 156
          /\ base + area + 9 <= size - 2 /\ area \in 80 .. 96
      BY ONLY BaseRange, t \in Types, size \in {128, 256}
    <3>3. area \in Int
      BY <3>2
    <3> QED BY <3>1, <3>2, <3>3, SMTT(30)
  <2>2. base = start - (256 - size)
    BY DEF Base
  <2> HIDE DEF start, base, len, area
  <2>3. \A k \in 0 .. len - 1 : base + k < size
    BY <2>1
  <2> QED BY <2>1, <2>2, <2>3
<1>2. DOMAIN text = 1 .. len
  OBVIOUS
<1>3. Placed(t, size, text) =
        [a \in {(start + k - 1) % size : k \in 1 .. len} |-> text[1 + ((a - start) % size)]]
  BY <1>2 DEF Placed
<1> HIDE DEF start, base, len, area
<1>4. \A k \in 1 .. len : /\ (start + k - 1) % size = base + k - 1
                         /\ (base + k - 1 - start) % size = k - 1
  <2> TAKE k \in 1 .. len
  <2> DEFINE i == k - 1
  <2>1. i \in Nat /\ i \in 0 .. len - 1
    BY <1>1
  <2>2. base + i < size
    BY <1>1, <2>1
  <2>3. start + k - 1 = start + i /\ base + k - 1 = base + i /\ base + k - 1 - start = base + i - start
    BY <1>1, <2>1
  <2> HIDE DEF i
  <2>4. (start + i) % size = base + i /\ (base + i - start) % size = i
    BY <1>1, <2>1, <2>2, Wrapped
  <2> QED BY <2>3, <2>4 DEF i
<1>5. {(start + k - 1) % size : k \in 1 .. len} = base .. base + len - 1
  <2>1. \A k \in 1 .. len : (start + k - 1) % size \in base .. base + len - 1
    <3> TAKE k \in 1 .. len
    <3>1. base + k - 1 \in base .. base + len - 1
      BY <1>1
    <3> QED BY <1>4, <3>1
  <2>2. \A a \in base .. base + len - 1 : \E k \in 1 .. len : a = (start + k - 1) % size
    <3> TAKE a \in base .. base + len - 1
    <3>1. a - base + 1 \in 1 .. len /\ a = base + (a - base + 1) - 1
      BY <1>1
    <3> QED BY <1>4, <3>1
  <2> QED BY <2>1, <2>2
<1>6. \A a \in base .. base + len - 1 : 1 + ((a - start) % size) = a - base + 1
  <2> TAKE a \in base .. base + len - 1
  <2> DEFINE k == a - base + 1
  <2>1. k \in 1 .. len /\ base + k - 1 = a /\ 1 + (k - 1) = a - base + 1
    BY <1>1
  <2> HIDE DEF k
  <2>2. (base + k - 1 - start) % size = k - 1
    BY <1>4, <2>1
  <2>3. (a - start) % size = k - 1
    BY <1>1, <2>1, <2>2
  <2> QED BY <2>1, <2>3
<1>7. DOMAIN Placed(t, size, text) = base .. base + len - 1
  BY <1>3, <1>5
<1>8. \A a \in base .. base + len - 1 : Placed(t, size, text)[a] = text[1 + ((a - start) % size)]
  BY <1>3, <1>5
<1>9. \A a \in base .. base + len - 1 : Placed(t, size, text)[a] = text[a - base + 1]
  BY <1>6, <1>8
<1> QED BY <1>7, <1>9 DEF base, len

-----------------------------------------------------------------------------
(* The other pieces.                                                       *)

\* A piece at some of these addresses.
PieceIn(f, addresses) == Piece(f) /\ DOMAIN f \subseteq addresses

\* Pieces of an image at certain addresses: one byte,
LEMMA PieceInAt ==
  ASSUME NEW S, NEW a \in Address, a \in S, NEW b \in Byte
  PROVE  PieceIn(a :> b, S)
<1>1. DOMAIN (a :> b) = {a} /\ Piece(a :> b)
  BY AtIs, PieceAt
<1> HIDE DEF :>
<1> QED BY <1>1 DEF PieceIn

\* and two pieces.
LEMMA PieceInOver ==
  ASSUME NEW S, NEW f, NEW g, PieceIn(f, S), PieceIn(g, S)
  PROVE  PieceIn(f @@ g, S)
<1>1. Piece(f @@ g) /\ DOMAIN (f @@ g) = DOMAIN f \cup DOMAIN g
  BY PieceOver, OverDomain DEF PieceIn
<1> DEFINE h == f @@ g
<1> SUFFICES PieceIn(h, S)
  OBVIOUS
<1>2. Piece(h) /\ DOMAIN h = DOMAIN f \cup DOMAIN g
  BY <1>1
<1> HIDE DEF h
<1> QED BY <1>2 DEF PieceIn

\* The addresses of the fixed bytes are addresses.
LEMMA Addresses256 == \A a \in 0 .. 30 : a \in Address
  BY AddressRange

\* Where one string is, and its length.
LEMMA EntryPiece ==
  ASSUME NEW a \in 14 .. 18, NEW b \in Byte, NEW s \in Seq(Byte), Len(s) <= 100
  PROVE  PieceIn(Entry(a, b, s), 14 .. 19)
<1>1. 2 * Len(s) + 2 \in Byte
  <2>1. Len(s) \in Nat
    OBVIOUS
  <2> QED BY <2>1, RangeByte
<1>2. PieceIn(a :> b, 14 .. 19)
  <2>1. a \in Address /\ a \in 14 .. 19
    BY AddressRange
  <2> QED BY <2>1, PieceInAt
<1>3. PieceIn(a + 1 :> 2 * Len(s) + 2, 14 .. 19)
  <2>1. a + 1 \in Address /\ a + 1 \in 14 .. 19
    BY AddressRange
  <2> QED BY <1>1, <2>1, PieceInAt
<1> QED BY <1>2, <1>3, PieceInOver DEF Entry

\* The directory of strings is at 0E to 13.
LEMMA DirectoryPiece ==
  ASSUME NEW t, NEW e, Fits(t, e)
  PROVE  PieceIn(Directory(t, e), 14 .. 19)
<1> DEFINE m == Kept(e.manufacturer)
           p == Kept(e.product)
           n == Kept(e.serial)
           start(k) == Low(StringStart(t) + k)
           with128(k) == k + When(k < 128, 128)
           after == 2 * Len(m) + 2
           second == with128(start(after))
           third  == with128(start(after + 2 * Len(p) + 2))
<1>1. /\ m \in Seq(Byte) /\ p \in Seq(Byte) /\ n \in Seq(Byte)
      /\ Len(m) \in Nat /\ Len(p) \in Nat /\ Len(n) \in Nat
  <2>1. /\ e.manufacturer \in Seq(Byte) /\ e.product \in Seq(Byte)
        /\ e.serial \in Seq(Byte)
    BY FieldTypes DEF Fits
  <2>2. m \in Seq(Byte) /\ p \in Seq(Byte) /\ n \in Seq(Byte)
    BY <2>1, KeptRight
  <2> HIDE DEF m, p, n
  <2> QED BY <2>2
<1>2. Len(m) <= 100 /\ Len(p) <= 100 /\ Len(n) <= 100
  <2> DEFINE u == UserArea(t)
  <2>1. 2 * Len(m) + 2 * Len(p) + 2 * Len(n) <= u /\ u \in 80 .. 96
    BY TextRight
  <2> HIDE DEF m, p, n, u
  <2> QED BY <1>1, <2>1
<1>3. \A k \in Int : start(k) \in Byte
  <2>1. StringStart(t) \in Int
    BY BaseRange DEF Fits
  <2> QED BY <2>1, LowByte
<1>4. \A k \in Byte : with128(k) \in Byte
  BY DEF When, Byte
<1>5. start(0) \in Byte /\ second \in Byte /\ third \in Byte
  <2>1. after \in Int /\ after + 2 * Len(p) + 2 \in Int
    BY <1>1
  <2> HIDE DEF after, start, with128
  <2>2. start(0) \in Byte /\ start(after) \in Byte /\ start(after + 2 * Len(p) + 2) \in Byte
    BY <1>3, <2>1
  <2> QED BY <1>4, <2>2 DEF second, third
<1>6. Directory(t, e) = Entry(14, start(0), m) @@ Entry(16, second, p) @@ Entry(18, third, n)
  BY DEF Directory
<1> HIDE DEF m, p, n, start, second, third
<1>7. PieceIn(Entry(14, start(0), m), 14 .. 19) /\ PieceIn(Entry(16, second, p), 14 .. 19)
      /\ PieceIn(Entry(18, third, n), 14 .. 19)
  BY <1>1, <1>2, <1>5, EntryPiece
<1> QED BY <1>6, <1>7, PieceInOver

\* The configuration is a byte.
LEMMA ConfigByte ==
  ASSUME NEW t, NEW e
  PROVE  ChipConfig(t, e) \in Byte
<1> DEFINE a == When(e.in_is_isochronous = 1, 1)
           b == When(e.out_is_isochronous = 1, 2)
           c == When(t # "BM" /\ t # "232H" /\ e.suspend_pull_downs = 1, 4)
           d == When(e.use_serial # 0, 8)
           f == When(t \in {"BM", "2232C"} /\ e.use_usb_version = 16, 16)
<1>1. a \in {0, 1} /\ b \in {0, 2} /\ c \in {0, 4} /\ d \in {0, 8} /\ f \in {0, 16}
  BY DEF When
<1>2. ChipConfig(t, e) = IF t = "AM" THEN 0 ELSE a + b + c + d + f
  BY DEF ChipConfig
<1> HIDE DEF a, b, c, d, f
<1> QED BY <1>1, <1>2, RangeByte

\* What all types have is at 00 to 0A.
LEMMA GeneralPiece ==
  ASSUME NEW t \in Types, NEW e, StructRight(e)
  PROVE  PieceIn(General(t, e), 0 .. 10)
<1> DEFINE S == 0 .. 10
           flags == 128 + When(e.self_powered = 1, 64) + When(e.remote_wakeup = 1, 32)
<1>1. flags \in Byte
  <2>1. When(e.self_powered = 1, 64) \in {0, 64} /\ When(e.remote_wakeup = 1, 32) \in {0, 32}
    BY DEF When
  <2> QED BY <2>1, RangeByte
<1>2. Release(t) \in Byte
  BY RangeByte DEF Release, Types, Older, Dual
<1>3. /\ Low(e.vendor_id) \in Byte /\ High(e.vendor_id) \in Byte
      /\ Low(e.product_id) \in Byte /\ High(e.product_id) \in Byte
      /\ Low(e.max_power \div 2) \in Byte
  <2>1. e.vendor_id \in Int /\ e.product_id \in Int /\ e.max_power \div 2 \in Int
    BY FieldTypes
  <2> QED BY <2>1, LowByte, HighByte
<1>4. \A a \in S : a \in Address
  BY Addresses256
<1> HIDE DEF S, flags
<1>5. \A a \in S, b \in Byte : PieceIn(a :> b, S)
  BY <1>4, PieceInAt
<1>6. {2, 3, 4, 5, 7, 8, 9, 10} \subseteq S
  BY DEF S
<1>7. /\ PieceIn(2 :> Low(e.vendor_id), S) /\ PieceIn(3 :> High(e.vendor_id), S)
      /\ PieceIn(4 :> Low(e.product_id), S) /\ PieceIn(5 :> High(e.product_id), S)
      /\ PieceIn(7 :> Release(t), S) /\ PieceIn(8 :> flags, S)
      /\ PieceIn(9 :> Low(e.max_power \div 2), S) /\ PieceIn(10 :> ChipConfig(t, e), S)
  BY <1>1, <1>2, <1>3, <1>5, <1>6, ConfigByte
<1>8. PieceIn(General(t, e), S)
  BY <1>7, PieceInOver DEF General, flags
<1> QED BY <1>8 DEF S

\* What describes a channel fits a byte,
LEMMA ChannelBits ==
  ASSUME NEW t, NEW mode, NEW driver, NEW current
  PROVE  TypeBits(t, mode) \in 0 .. 8 /\ Channel(t, mode, driver, current) \in 0 .. 32
<1> DEFINE a == TypeBits(t, mode)
           b == When(driver = 8, 8)
           c == When(current = 16, 16)
<1>1. a \in {0, 1, 2, 4, 8}
  BY DEF TypeBits, When
<1>2. b \in {0, 8} /\ c \in {0, 16}
  BY DEF When
<1>3. Channel(t, mode, driver, current) = a + b + c
  BY DEF Channel
<1> HIDE DEF a, b, c
<1>4. a \in 0 .. 8 /\ a + b + c \in 0 .. 32
  BY <1>1, <1>2
<1> QED BY <1>3, <1>4 DEF a

\* a pin group a nibble,
LEMMA GroupNibble ==
  ASSUME NEW e, StructRight(e), NEW g \in 1 .. 4
  PROVE  Group(e, g) \in 0 .. 15
<1> DEFINE a == IF e.drive[g] > 3 THEN 3 ELSE e.drive[g]
           b == When(e.schmitt[g] = 8, 8)
           c == When(e.slew[g] = 4, 4)
<1>1. a \in 0 .. 3
  <2>1. e.drive[g] \in Nat
    <3>1. e.drive \in [1 .. 4 -> Nat]
      BY ONLY FieldTypes, StructRight(e)
    <3> QED BY <3>1
  <2> QED BY <2>1
<1>2. b \in {0, 8} /\ c \in {0, 4}
  BY DEF When
<1>3. Group(e, g) = a + b + c
  BY DEF Group
<1> HIDE DEF a, b, c
<1> QED BY <1>1, <1>2, <1>3

\* a CBUS pin of an R a nibble,
LEMMA CbusNibble ==
  ASSUME NEW e, StructRight(e), NEW pin \in 1 .. 10, NEW top \in 0 .. 13, NEW default \in 0 .. 13
  PROVE  Cbus(e, pin, top, default) \in 0 .. 13
<1>1. e.cbus[pin] \in Nat
  <2>1. e.cbus \in [1 .. 10 -> Nat]
    BY ONLY FieldTypes, StructRight(e)
  <2> QED BY <2>1
<1> QED BY <1>1 DEF Cbus

\* two of them a byte,
LEMMA TwoNibbles ==
  ASSUME NEW a \in 0 .. 15, NEW b \in 0 .. 15
  PROVE  a + 16 * b \in Byte
<1>1. a \in Int /\ 0 <= a /\ a <= 15 /\ b \in Int /\ 0 <= b /\ b <= 15
  OBVIOUS
<1>2. a + 16 * b \in Int /\ 0 <= a + 16 * b /\ a + 16 * b <= 255
  BY ONLY <1>1
<1> QED BY <1>2, RangeByte

\* and so do two pins of a 232H.
LEMMA AcbusByte ==
  ASSUME NEW e, StructRight(e), NEW i \in 0 .. 4
  PROVE  AcbusPair(e, i) \in Byte
<1> DEFINE even == e.cbus[2*i + 1]
           odd  == e.cbus[2*i + 2]
<1>1. even \in Nat /\ odd \in Nat
  <2>1. 2*i + 1 \in 1 .. 10 /\ 2*i + 2 \in 1 .. 10
    OBVIOUS
  <2>2. e.cbus \in [1 .. 10 -> Nat]
    BY FieldTypes
  <2> QED BY <2>1, <2>2
<1>2. AcbusPair(e, i) = When(even <= 12, even) + When(odd <= 12, Low(16 * even))
  BY DEF AcbusPair
<1> HIDE DEF even, odd
<1>3. When(even <= 12, even) \in 0 .. 12
  BY <1>1 DEF When
<1>4. Low(16 * even) \in 0 .. 240
  <2> DEFINE q == even \div 16
             r == even % 16
  <2>1. q \in Nat /\ r \in 0 .. 15 /\ even = 16 * q + r
    BY <1>1
  <2>2. Low(16 * even) = (16 * even) % 256
    BY DEF Low
  <2> HIDE DEF q, r
  <2>3. 16 * even = 256 * q + 16 * r
    BY <1>1, <2>1
  <2>4. (256 * q + 16 * r) % 256 = 16 * r
    BY <2>1
  <2> QED BY <2>1, <2>2, <2>3, <2>4
<1>5. When(odd <= 12, Low(16 * even)) \in 0 .. 240
  BY <1>4 DEF When
<1> QED BY <1>2, <1>3, <1>5, RangeByte

\* Where build puts what only some types have.
SpecificAddresses == {0, 1, 11, 12, 13} \cup 20 .. 30

\* A byte among those of a type.
LEMMA SpecificAt ==
  ASSUME NEW a \in SpecificAddresses, NEW b \in Byte
  PROVE  PieceIn(a :> b, SpecificAddresses)
<1>1. a \in Address
  BY AddressRange DEF SpecificAddresses
<1> QED BY <1>1, PieceInAt

\* The addresses build uses for them.
LEMMA SpecificAreAddresses == {0, 1, 11, 12, 13, 20, 21, 22, 24, 30} \subseteq SpecificAddresses
  BY DEF SpecificAddresses

\* The pieces that types share,
LEMMA UsbVersionPiece ==
  ASSUME NEW e, StructRight(e)
  PROVE  PieceIn(UsbVersion(e), SpecificAddresses)
<1>1. Low(e.usb_version) \in Byte /\ High(e.usb_version) \in Byte
  <2>1. e.usb_version \in Int
    BY FieldTypes
  <2> QED BY <2>1, LowByte, HighByte
<1>2. /\ PieceIn(12 :> Low(e.usb_version), SpecificAddresses)
      /\ PieceIn(13 :> High(e.usb_version), SpecificAddresses)
  BY <1>1, SpecificAreAddresses, SpecificAt
<1> QED BY <1>2, PieceInOver DEF UsbVersion

\* as the pin groups are,
LEMMA FourGroupsPiece ==
  ASSUME NEW e, StructRight(e)
  PROVE  PieceIn(FourGroups(e), SpecificAddresses)
<1>1. Group(e, 1) + 16 * Group(e, 2) \in Byte /\ Group(e, 3) + 16 * Group(e, 4) \in Byte
  BY GroupNibble, TwoNibbles
<1> QED BY <1>1, SpecificAreAddresses, SpecificAt, PieceInOver DEF FourGroups

\* and the byte that names the chip.
LEMMA ChipByte ==
  ASSUME NEW e, StructRight(e)
  PROVE  Low(e.chip) \in Byte
  BY FieldTypes, LowByte

\* The bytes of each type are bytes, in their place.
LEMMA Piece2232C ==
  ASSUME NEW e, StructRight(e)
  PROVE  PieceIn(Bytes2232C(e), SpecificAddresses)
<1> DEFINE a == Channel("2232C", e.channel_type[1], e.driver[1], e.high_current_a)
           b == Channel("2232C", e.channel_type[2], e.driver[2], e.high_current_b)
<1>1. a \in Byte /\ b \in Byte
  <2>1. a \in 0 .. 32 /\ b \in 0 .. 32
    BY ChannelBits
  <2> HIDE DEF a, b
  <2> QED BY <2>1, RangeByte
<1>2. Bytes2232C(e) = (0 :> a) @@ (1 :> b) @@ UsbVersion(e) @@ (20 :> Low(e.chip))
  BY DEF Bytes2232C
<1> HIDE DEF a, b
<1>3. /\ PieceIn(0 :> a, SpecificAddresses) /\ PieceIn(1 :> b, SpecificAddresses)
      /\ PieceIn(20 :> Low(e.chip), SpecificAddresses)
  BY <1>1, ChipByte, SpecificAreAddresses, SpecificAt
<1> QED BY <1>2, <1>3, UsbVersionPiece, PieceInOver

\* The same of an R,
LEMMA PieceR ==
  ASSUME NEW e, StructRight(e)
  PROVE  PieceIn(BytesR(e), SpecificAddresses)
<1> DEFINE a == When(e.high_current = 4, 4)
           b == Cbus(e, 1, 13, 3) + 16 * Cbus(e, 2, 13, 2)
           c == Cbus(e, 3, 13, 0) + 16 * Cbus(e, 4, 13, 1)
           d == Cbus(e, 5, 9, 5)
<1>1. a \in Byte /\ 64 \in Byte
  BY RangeByte DEF When
<1>2. b \in Byte /\ c \in Byte /\ d \in Byte
  <2>1. /\ {1, 2, 3, 4, 5} \subseteq 1 .. 10
        /\ {0, 1, 2, 3, 5, 9, 13} \subseteq 0 .. 13
    OBVIOUS
  <2>2. /\ Cbus(e, 1, 13, 3) \in 0 .. 13 /\ Cbus(e, 2, 13, 2) \in 0 .. 13
        /\ Cbus(e, 3, 13, 0) \in 0 .. 13 /\ Cbus(e, 4, 13, 1) \in 0 .. 13
        /\ d \in 0 .. 13
    BY <2>1, CbusNibble, Zenon
  <2>3. \A x \in 0 .. 13, y \in 0 .. 13 : x + 16 * y \in Byte
    BY TwoNibbles
  <2> HIDE DEF d
  <2>4. d \in Byte
    BY <2>2, RangeByte
  <2> QED BY <2>2, <2>3, <2>4, Zenon
<1>3. Low(e.invert) \in Byte
  BY FieldTypes, LowByte
<1>4. BytesR(e) = (0 :> a) @@ (1 :> 64) @@ (11 :> Low(e.invert)) @@ UsbVersion(e)
                  @@ (20 :> b) @@ (21 :> c) @@ (22 :> d)
  BY DEF BytesR
<1> HIDE DEF a, b, c, d
<1>5. /\ PieceIn(0 :> a, SpecificAddresses) /\ PieceIn(1 :> 64, SpecificAddresses)
      /\ PieceIn(11 :> Low(e.invert), SpecificAddresses)
      /\ PieceIn(20 :> b, SpecificAddresses) /\ PieceIn(21 :> c, SpecificAddresses)
      /\ PieceIn(22 :> d, SpecificAddresses)
  BY <1>1, <1>2, <1>3, SpecificAreAddresses, SpecificAt
<1> QED BY <1>4, <1>5, UsbVersionPiece, PieceInOver

\* a 2232H,
LEMMA Piece2232H ==
  ASSUME NEW e, StructRight(e)
  PROVE  PieceIn(Bytes2232H(e), SpecificAddresses)
<1> DEFINE a == Channel("2232H", e.channel_type[1], e.driver[1], 0)
           b == Channel("2232H", e.channel_type[2], e.driver[2], 0)
                + When(e.suspend_dbus7 = 128, 128)
<1>1. a \in Byte /\ b \in Byte
  <2>1. a \in 0 .. 32 /\ Channel("2232H", e.channel_type[2], e.driver[2], 0) \in 0 .. 32
    BY ChannelBits
  <2>2. When(e.suspend_dbus7 = 128, 128) \in {0, 128}
    BY DEF When
  <2> HIDE DEF a
  <2> QED BY <2>1, <2>2, RangeByte
<1>2. Bytes2232H(e) = (0 :> a) @@ (1 :> b) @@ FourGroups(e) @@ (24 :> Low(e.chip))
  BY DEF Bytes2232H
<1> HIDE DEF a, b
<1>3. /\ PieceIn(0 :> a, SpecificAddresses) /\ PieceIn(1 :> b, SpecificAddresses)
      /\ PieceIn(24 :> Low(e.chip), SpecificAddresses)
  BY <1>1, ChipByte, SpecificAreAddresses, SpecificAt
<1> QED BY <1>2, <1>3, FourGroupsPiece, PieceInOver

\* a 4232H
LEMMA Piece4232H ==
  ASSUME NEW e, StructRight(e)
  PROVE  PieceIn(Bytes4232H(e), SpecificAddresses)
<1> DEFINE a == When(e.driver[1] = 8, 8) + 16 * When(e.driver[3] = 8, 8)
           b == When(e.driver[2] = 8, 8) + 16 * When(e.driver[4] = 8, 8)
           bit(k, m) == When(e.rs485[k] # 0, m)
           c == bit(1, 16) + bit(2, 32) + bit(3, 64) + bit(4, 128)
<1>1. a \in Byte /\ b \in Byte
  <2>1. \A k \in 1 .. 4 : When(e.driver[k] = 8, 8) \in 0 .. 15
    BY DEF When
  <2> QED BY <2>1, TwoNibbles
<1>2. c \in Byte
  <2>1. bit(1, 16) \in {0, 16} /\ bit(2, 32) \in {0, 32} /\ bit(3, 64) \in {0, 64}
        /\ bit(4, 128) \in {0, 128}
    BY DEF When
  <2> HIDE DEF bit
  <2> QED BY <2>1, RangeByte
<1>3. Bytes4232H(e) = (0 :> a) @@ (1 :> b) @@ (11 :> c) @@ FourGroups(e) @@ (24 :> Low(e.chip))
  BY DEF Bytes4232H
<1> HIDE DEF a, b, c
<1>4. /\ PieceIn(0 :> a, SpecificAddresses) /\ PieceIn(1 :> b, SpecificAddresses)
      /\ PieceIn(11 :> c, SpecificAddresses) /\ PieceIn(24 :> Low(e.chip), SpecificAddresses)
  BY <1>1, <1>2, ChipByte, SpecificAreAddresses, SpecificAt
<1> QED BY <1>3, <1>4, FourGroupsPiece, PieceInOver

\* and a 232H;
LEMMA Piece232H ==
  ASSUME NEW e, StructRight(e)
  PROVE  PieceIn(Bytes232H(e), SpecificAddresses)
<1> DEFINE a == TypeBits("232H", e.channel_type[1]) + When(e.driver[1] = 8, 16)
           b == When(e.powersave # 0, 128) + When(e.clock_polarity # 0, 1)
                + When(e.data_order # 0, 2) + When(e.flow_control # 0, 4)
           c == [x \in 24 .. 28 |-> AcbusPair(e, x - 24)]
<1>1. a \in Byte
  <2>1. TypeBits("232H", e.channel_type[1]) \in 0 .. 8 /\ When(e.driver[1] = 8, 16) \in {0, 16}
    BY ChannelBits DEF When
  <2> QED BY <2>1, RangeByte
<1>2. b \in Byte
  <2>1. /\ When(e.powersave # 0, 128) \in {0, 128} /\ When(e.clock_polarity # 0, 1) \in {0, 1}
        /\ When(e.data_order # 0, 2) \in {0, 2} /\ When(e.flow_control # 0, 4) \in {0, 4}
    BY DEF When
  <2> QED BY <2>1, RangeByte
<1>3. PieceIn(c, SpecificAddresses)
  <2>1. \A x \in 24 .. 28 : /\ x \in Address /\ x \in SpecificAddresses
                            /\ AcbusPair(e, x - 24) \in Byte
    <3> TAKE x \in 24 .. 28
    <3>1. x \in Address
      BY AddressRange
    <3>2. x \in SpecificAddresses
      BY DEF SpecificAddresses
    <3>3. x - 24 \in 0 .. 4
      OBVIOUS
    <3> QED BY <3>1, <3>2, <3>3, AcbusByte
  <2> QED BY <2>1 DEF PieceIn, Piece
<1>4. Group(e, 1) \in Byte /\ Group(e, 2) \in Byte
  <2>1. Group(e, 1) \in 0 .. 15 /\ Group(e, 2) \in 0 .. 15
    BY GroupNibble
  <2> QED BY <2>1, RangeByte
<1>5. Bytes232H(e) = (0 :> a) @@ (1 :> b) @@ (12 :> Group(e, 1)) @@ (13 :> Group(e, 2))
                     @@ c @@ (30 :> Low(e.chip))
  BY DEF Bytes232H
<1> HIDE DEF a, b, c
<1>6. /\ PieceIn(0 :> a, SpecificAddresses) /\ PieceIn(1 :> b, SpecificAddresses)
      /\ PieceIn(12 :> Group(e, 1), SpecificAddresses)
      /\ PieceIn(13 :> Group(e, 2), SpecificAddresses)
      /\ PieceIn(30 :> Low(e.chip), SpecificAddresses)
  BY <1>1, <1>2, <1>4, ChipByte, SpecificAreAddresses, SpecificAt
<1> QED BY <1>3, <1>5, <1>6, PieceInOver

\* hence of every type.
LEMMA SpecificPiece ==
  ASSUME NEW t \in Types, NEW e, StructRight(e)
  PROVE  PieceIn(Specific(t, e), SpecificAddresses)
<1>1. PieceIn(<<>>, SpecificAddresses)
  BY DEF PieceIn, Piece
<1> QED BY <1>1, UsbVersionPiece, Piece2232C, PieceR, Piece2232H, Piece4232H, Piece232H
        DEF Specific, Types, Older, Dual

-----------------------------------------------------------------------------
(* The image.                                                              *)

\* Build knows two sizes.
LEMMA BuildSizes == \A k : BuildSize(k) \in {128, 256}
  BY DEF BuildSize

\* The strings leave the checksum alone, and start with the manufacturer's
\* length.
LEMMA PlacedPiece ==
  ASSUME NEW t, NEW e, Fits(t, e), NEW size \in {128, 256}
  PROVE  /\ Piece(Placed(t, size, Text(t, e)))
         /\ \A a \in DOMAIN Placed(t, size, Text(t, e)) : Base(t, size) <= a /\ a < size - 2
         /\ Base(t, size) \in DOMAIN Placed(t, size, Text(t, e))
         /\ Placed(t, size, Text(t, e))[Base(t, size)] = 2 * Len(Kept(e.manufacturer)) + 2
<1> DEFINE text == Text(t, e)
           f == Placed(t, size, text)
           len == Len(text)
           base == Base(t, size)
           area == UserArea(t)
<1>1. /\ text \in Seq(Byte) /\ len \in Nat /\ 1 <= len /\ len <= area + 9
      /\ text[1] = 2 * Len(Kept(e.manufacturer)) + 2
  <2>1. /\ text \in Seq(Byte) /\ len \in 1 .. area + 9 /\ area \in 80 .. 96
        /\ text[1] = 2 * Len(Kept(e.manufacturer)) + 2
    BY TextRight
  <2> HIDE DEF len, area, text
  <2> QED BY <2>1
<1>2. t \in Types
  BY DEF Fits
<1>3. base \in 20 .. 156 /\ base + area + 9 <= size - 2 /\ area \in Int
  <2>1. base \in 20 .. 156 /\ base + area + 9 <= size - 2 /\ area \in 80 .. 96
    BY ONLY <1>2, size \in {128, 256}, BaseRange
  <2> HIDE DEF base, area
  <2> QED BY <2>1
<1>4. DOMAIN f = base .. base + len - 1 /\ \A a \in DOMAIN f : f[a] = text[a - base + 1]
  <2> HIDE DEF text
  <2> QED BY ONLY <1>1, <1>2, size \in {128, 256}, PlacedIs
<1>5. \A k \in 1 .. len : text[k] \in Byte
  BY <1>1
<1> SUFFICES /\ Piece(f) /\ \A a \in DOMAIN f : base <= a /\ a < size - 2
             /\ base \in DOMAIN f /\ f[base] = text[1]
  BY <1>1
<1> HIDE DEF text, f, len, base, area
<1>6. \A a \in base .. base + len - 1 :
        a \in Address /\ base <= a /\ a < size - 2 /\ a - base + 1 \in 1 .. len
  <2> TAKE a \in base .. base + len - 1
  <2>1. a \in Nat /\ base <= a /\ a < size - 2 /\ a - base + 1 \in 1 .. len
    BY <1>1, <1>3
  <2> QED BY <2>1, AddressRange
<1>7. base \in base .. base + len - 1 /\ base - base + 1 = 1
  BY <1>1, <1>3
<1> QED BY <1>4, <1>5, <1>6, <1>7 DEF Piece

\* g is f and b at a.
Extends(g, f, a, b) == /\ DOMAIN g = DOMAIN f \cup {a}
                       /\ \A x \in DOMAIN f : g[x] = f[x]
                       /\ a \notin DOMAIN f => g[a] = b

\* A byte under a piece is one more byte.
LEMMA OverAt ==
  ASSUME NEW f, NEW a, NEW b
  PROVE  Extends(f @@ (a :> b), f, a, b)
<1> DEFINE g == a :> b
<1>1. DOMAIN g = {a} /\ g[a] = b
  BY AtIs
<1> HIDE DEF g
<1>2. /\ DOMAIN (f @@ g) = DOMAIN f \cup {a}
      /\ \A x \in DOMAIN f : (f @@ g)[x] = f[x]
      /\ a \notin DOMAIN f => (f @@ g)[a] = b
  BY <1>1 DEF @@
<1> QED BY <1>2 DEF g, Extends

\* All types have a release number in 07, and none is 0.
LEMMA GeneralIs ==
  ASSUME NEW t \in Types, NEW e
  PROVE  /\ DOMAIN General(t, e) = {2, 3, 4, 5, 7, 8, 9, 10}
         /\ General(t, e)[7] = Release(t) /\ Release(t) \in 1 .. 255
<1> DEFINE a2 == 2 :> Low(e.vendor_id)
           a3 == a2 @@ (3 :> High(e.vendor_id))
           a4 == a3 @@ (4 :> Low(e.product_id))
           a5 == a4 @@ (5 :> High(e.product_id))
           a7 == a5 @@ (7 :> Release(t))
           a8 == a7 @@ (8 :> 128 + When(e.self_powered = 1, 64) + When(e.remote_wakeup = 1, 32))
           a9 == a8 @@ (9 :> Low(e.max_power \div 2))
           a10 == a9 @@ (10 :> ChipConfig(t, e))
<1>1. General(t, e) = a10
  BY DEF General
<1>2. DOMAIN a2 = {2}
  BY AtIs
<1> HIDE DEF a2
<1>3. DOMAIN a3 = {2, 3}
  <2>1. Extends(a3, a2, 3, High(e.vendor_id))
    BY OverAt
  <2> HIDE DEF a3
  <2> QED BY <1>2, <2>1 DEF Extends
<1> HIDE DEF a3
<1>4. DOMAIN a4 = {2, 3, 4}
  <2>1. Extends(a4, a3, 4, Low(e.product_id))
    BY OverAt
  <2> HIDE DEF a4
  <2> QED BY <1>3, <2>1 DEF Extends
<1> HIDE DEF a4
<1>5. DOMAIN a5 = {2, 3, 4, 5}
  <2>1. Extends(a5, a4, 5, High(e.product_id))
    BY OverAt
  <2> HIDE DEF a5
  <2> QED BY <1>4, <2>1 DEF Extends
<1> HIDE DEF a5
<1>7. DOMAIN a7 = {2, 3, 4, 5, 7} /\ a7[7] = Release(t)
  <2>1. Extends(a7, a5, 7, Release(t))
    BY OverAt
  <2> HIDE DEF a7
  <2> QED BY <1>5, <2>1 DEF Extends
<1> HIDE DEF a7
<1>8. DOMAIN a8 = {2, 3, 4, 5, 7, 8} /\ a8[7] = Release(t)
  <2>1. Extends(a8, a7, 8, 128 + When(e.self_powered = 1, 64) + When(e.remote_wakeup = 1, 32))
    BY OverAt
  <2> HIDE DEF a8
  <2> QED BY <1>7, <2>1 DEF Extends
<1> HIDE DEF a8
<1>9. DOMAIN a9 = {2, 3, 4, 5, 7, 8, 9} /\ a9[7] = Release(t)
  <2>1. Extends(a9, a8, 9, Low(e.max_power \div 2))
    BY OverAt
  <2> HIDE DEF a9
  <2> QED BY <1>8, <2>1 DEF Extends
<1> HIDE DEF a9
<1>10. DOMAIN a10 = {2, 3, 4, 5, 7, 8, 9, 10} /\ a10[7] = Release(t)
  <2>1. Extends(a10, a9, 10, ChipConfig(t, e))
    BY OverAt
  <2> HIDE DEF a10
  <2> QED BY <1>9, <2>1 DEF Extends
<1> HIDE DEF a10
<1>11. Release(t) \in 1 .. 255
  BY DEF Release, Types, Older, Dual
<1> QED BY <1>1, <1>10, <1>11

\* An image is made of bytes, and where two pieces could meet, the type's own
\* lies over the strings, these over the directory, and so on.
LEMMA BodyIs ==
  ASSUME NEW t, NEW e, Fits(t, e)
  PROVE  LET s == Specific(t, e)
             p == Placed(t, BuildSize(e.chip), Text(t, e))
             d == Directory(t, e)
             g == General(t, e)
         IN  /\ DOMAIN Body(t, e) = Address
             /\ \A a \in Address : Body(t, e)[a] \in Byte
             /\ \A a \in Address : Body(t, e)[a] = IF a \in DOMAIN s THEN s[a]
                                                  ELSE IF a \in DOMAIN p THEN p[a]
                                                  ELSE IF a \in DOMAIN d THEN d[a]
                                                  ELSE IF a \in DOMAIN g THEN g[a] ELSE 0
<1> DEFINE s == Specific(t, e)
           p == Placed(t, BuildSize(e.chip), Text(t, e))
           d == Directory(t, e)
           g == General(t, e)
           z == [a \in Address |-> 0]
<1>1. Piece(s) /\ Piece(p) /\ Piece(d) /\ Piece(g)
  <2>1. t \in Types /\ StructRight(e) /\ BuildSize(e.chip) \in {128, 256}
    BY BuildSizes DEF Fits
  <2> QED BY <2>1, SpecificPiece, PlacedPiece, DirectoryPiece, GeneralPiece DEF PieceIn
<1>2. Piece(z) /\ DOMAIN z = Address /\ \A a \in Address : z[a] = 0
  <2>1. 0 \in Byte
    BY RangeByte
  <2> QED BY <2>1 DEF Piece
<1>3. Body(t, e) = s @@ p @@ d @@ g @@ z
  BY DEF Body
<1> SUFFICES /\ DOMAIN Body(t, e) = Address
             /\ \A a \in Address : Body(t, e)[a] \in Byte
             /\ \A a \in Address : Body(t, e)[a] = IF a \in DOMAIN s THEN s[a]
                                                  ELSE IF a \in DOMAIN p THEN p[a]
                                                  ELSE IF a \in DOMAIN d THEN d[a]
                                                  ELSE IF a \in DOMAIN g THEN g[a] ELSE 0
  OBVIOUS
<1> HIDE DEF s, p, d, g, z
<1>4. Piece(Body(t, e))
  BY <1>1, <1>2, <1>3, PieceOver
<1>5. DOMAIN Body(t, e) = DOMAIN s \cup DOMAIN p \cup DOMAIN d \cup DOMAIN g \cup Address
  BY <1>2, <1>3 DEF @@
<1>6. DOMAIN Body(t, e) = Address
  BY <1>4, <1>5 DEF Piece
<1>7. \A a \in Address : Body(t, e)[a] = IF a \in DOMAIN s THEN s[a]
                                                  ELSE IF a \in DOMAIN p THEN p[a]
                                                  ELSE IF a \in DOMAIN d THEN d[a]
                                                  ELSE IF a \in DOMAIN g THEN g[a] ELSE 0
  BY <1>2, <1>3 DEF @@
<1> QED BY <1>4, <1>6, <1>7 DEF Piece

\* The bytes that tell one size from another.
LEMMA BodyMarks ==
  ASSUME NEW t, NEW e, Fits(t, e)
  PROVE  /\ Body(t, e)[6] = 0
         /\ Body(t, e)[7] # 0
         /\ BuildSize(e.chip) = 256 => Body(t, e)[71] = 0 /\ Body(t, e)[135] = 0
         /\ BuildSize(e.chip) = 128 => \A a \in Address : a >= 128 => Body(t, e)[a] = 0
<1> DEFINE s == Specific(t, e)
           p == Placed(t, BuildSize(e.chip), Text(t, e))
           d == Directory(t, e)
           g == General(t, e)
           b == Body(t, e)
           size == BuildSize(e.chip)
           base == Base(t, size)
<1>1. t \in Types /\ StructRight(e) /\ size \in {128, 256}
  BY BuildSizes DEF Fits
<1>2. \A a \in DOMAIN s : a \in {0, 1, 11, 12, 13} \cup 20 .. 30
  BY <1>1, SpecificPiece DEF PieceIn, SpecificAddresses
<1>3. \A a \in DOMAIN p : base <= a /\ a < size - 2
  BY <1>1, PlacedPiece
<1>4. \A a \in DOMAIN d : a \in 14 .. 19
  BY <1>1, DirectoryPiece DEF PieceIn
<1>5. DOMAIN g = {2, 3, 4, 5, 7, 8, 9, 10} /\ g[7] # 0
  BY <1>1, GeneralIs
<1>6. \A a \in Address : b[a] = IF a \in DOMAIN s THEN s[a]
                                ELSE IF a \in DOMAIN p THEN p[a]
                                ELSE IF a \in DOMAIN d THEN d[a]
                                ELSE IF a \in DOMAIN g THEN g[a] ELSE 0
  BY BodyIs
<1>7. base \in 20 .. 156 /\ (size = 256 => base >= 148)
  BY <1>1, BaseRange
<1> SUFFICES /\ b[6] = 0 /\ b[7] # 0
             /\ size = 256 => b[71] = 0 /\ b[135] = 0
             /\ size = 128 => \A a \in Address : a >= 128 => b[a] = 0
  OBVIOUS
<1> HIDE DEF s, p, d, g, b, size, base
<1>8. 6 \in Address /\ 7 \in Address /\ 71 \in Address /\ 135 \in Address
  BY AddressRange
<1>9. 6 \notin DOMAIN s /\ 6 \notin DOMAIN p /\ 6 \notin DOMAIN d /\ 6 \notin DOMAIN g
  BY <1>2, <1>3, <1>4, <1>5, <1>7
<1>10. 7 \notin DOMAIN s /\ 7 \notin DOMAIN p /\ 7 \notin DOMAIN d
  BY <1>2, <1>3, <1>4, <1>7
<1>11. ASSUME size = 256, NEW a \in {71, 135}
       PROVE  a \notin DOMAIN s /\ a \notin DOMAIN p /\ a \notin DOMAIN d /\ a \notin DOMAIN g
  BY <1>2, <1>3, <1>4, <1>5, <1>7, <1>11
<1>12. ASSUME size = 128, NEW a \in Address, a >= 128
       PROVE  a \notin DOMAIN s /\ a \notin DOMAIN p /\ a \notin DOMAIN d /\ a \notin DOMAIN g
  <2>1. a \in Nat
    BY AddressRange
  <2> QED BY <1>2, <1>3, <1>4, <1>5, <1>7, <1>12, <2>1
<1>13. b[6] = 0 /\ b[7] # 0
  BY <1>5, <1>6, <1>8, <1>9, <1>10
<1>14. size = 256 => b[71] = 0 /\ b[135] = 0
  BY <1>6, <1>8, <1>11
<1>15. size = 128 => \A a \in Address : a >= 128 => b[a] = 0
  BY <1>6, <1>12
<1> QED BY <1>13, <1>14, <1>15

\* Where an image names its chip, or the strings start on a small one.
TypeAddress(t) == CASE t \in {"BM", "2232C"} -> 20 [] t \in Dual -> 24 [] t = "232H" -> 30

\* What is put under a piece shows where the piece has nothing.
LEMMA AtTail ==
  ASSUME NEW f, NEW a, NEW b, a \notin DOMAIN f
  PROVE  a \in DOMAIN (f @@ (a :> b)) /\ (f @@ (a :> b))[a] = b
  BY OverAt, ZenonT(60) DEF Extends

\* f has nothing at a.
Misses(f, a) == a \notin DOMAIN f

\* A byte elsewhere misses a,
LEMMA MissesAt ==
  ASSUME NEW a, NEW b, NEW v, a # b
  PROVE  Misses(b :> v, a)
  BY AtIs DEF Misses

\* and so do two such pieces.
LEMMA MissesOver ==
  ASSUME NEW f, NEW g, NEW a, Misses(f, a), Misses(g, a)
  PROVE  Misses(f @@ g, a)
  BY OverDomain DEF Misses

\* The types that name the chip do so in their byte, with the structure's chip.
LEMMA SpecificChip ==
  ASSUME NEW t \in Types \ {"AM", "BM", "R"}, NEW e
  PROVE  /\ TypeAddress(t) \in DOMAIN Specific(t, e)
         /\ Specific(t, e)[TypeAddress(t)] = Low(e.chip)
<1>1. CASE t = "2232C"
  <2> DEFINE f == (0 :> Channel("2232C", e.channel_type[1], e.driver[1], e.high_current_a))
                  @@ (1 :> Channel("2232C", e.channel_type[2], e.driver[2], e.high_current_b))
                  @@ UsbVersion(e)
  <2>1. Specific(t, e) = Bytes2232C(e)
    BY <1>1 DEF Specific, Older
  <2>2. Bytes2232C(e) = f @@ (20 :> Low(e.chip))
    BY DEF Bytes2232C
  <2>3. TypeAddress(t) = 20
    BY <1>1 DEF TypeAddress, Dual
  <2>4. Misses(f, 20)
    BY MissesAt, MissesOver DEF UsbVersion
  <2> HIDE DEF f
  <2> QED BY <2>1, <2>2, <2>3, <2>4, AtTail DEF Misses
<1>2. CASE t = "2232H"
  <2> DEFINE f == (0 :> Channel("2232H", e.channel_type[1], e.driver[1], 0))
                  @@ (1 :> Channel("2232H", e.channel_type[2], e.driver[2], 0) + When(e.suspend_dbus7 = 128, 128))
                  @@ FourGroups(e)
  <2>1. Specific(t, e) = Bytes2232H(e)
    BY <1>2 DEF Specific, Older
  <2>2. Bytes2232H(e) = f @@ (24 :> Low(e.chip))
    BY DEF Bytes2232H
  <2>3. TypeAddress(t) = 24
    BY <1>2 DEF TypeAddress, Dual
  <2>4. Misses(f, 24)
    BY MissesAt, MissesOver DEF FourGroups
  <2> HIDE DEF f
  <2> QED BY <2>1, <2>2, <2>3, <2>4, AtTail DEF Misses
<1>3. CASE t = "4232H"
  <2> DEFINE f == (0 :> When(e.driver[1] = 8, 8) + 16 * When(e.driver[3] = 8, 8))
                  @@ (1 :> When(e.driver[2] = 8, 8) + 16 * When(e.driver[4] = 8, 8))
                  @@ (11 :> LET bit(k, m) == When(e.rs485[k] # 0, m)
                             IN  bit(1, 16) + bit(2, 32) + bit(3, 64) + bit(4, 128))
                  @@ FourGroups(e)
  <2>1. Specific(t, e) = Bytes4232H(e)
    BY <1>3 DEF Specific, Older
  <2>2. Bytes4232H(e) = f @@ (24 :> Low(e.chip))
    BY DEF Bytes4232H
  <2>3. TypeAddress(t) = 24
    BY <1>3 DEF TypeAddress, Dual
  <2>4. Misses(f, 24)
    BY MissesAt, MissesOver DEF FourGroups
  <2> HIDE DEF f
  <2> QED BY <2>1, <2>2, <2>3, <2>4, AtTail DEF Misses
<1>4. CASE t = "232H"
  <2> DEFINE f == (0 :> TypeBits("232H", e.channel_type[1]) + When(e.driver[1] = 8, 16))
                  @@ (1 :> When(e.powersave # 0, 128) + When(e.clock_polarity # 0, 1)
                         + When(e.data_order # 0, 2) + When(e.flow_control # 0, 4))
                  @@ (12 :> Group(e, 1))
                  @@ (13 :> Group(e, 2))
                  @@ [a \in 24 .. 28 |-> AcbusPair(e, a - 24)]
  <2>1. Specific(t, e) = Bytes232H(e)
    BY <1>4 DEF Specific, Older
  <2>2. Bytes232H(e) = f @@ (30 :> Low(e.chip))
    BY DEF Bytes232H
  <2>3. TypeAddress(t) = 30
    BY <1>4 DEF TypeAddress, Dual
  <2>5. Misses([a \in 24 .. 28 |-> AcbusPair(e, a - 24)], 30)
    BY DEF Misses
  <2>4. Misses(f, 30)
    BY <2>5, MissesAt, MissesOver
  <2> HIDE DEF f
  <2> QED BY <2>1, <2>2, <2>3, <2>4, AtTail DEF Misses
<1> QED BY <1>1, <1>2, <1>3, <1>4 DEF Types, Older, Dual

\* An AM's or BM's first descriptor is 98 bytes long at most.
LEMMA FirstLength ==
  ASSUME NEW t, NEW e, Fits(t, e), t \in Older
  PROVE  2 * Len(Kept(e.manufacturer)) + 2 \in 0 .. 98
<1> DEFINE m == Len(Kept(e.manufacturer))
           p == Len(Kept(e.product))
           n == Len(Kept(e.serial))
<1>1. 2 * m + 2 * p + 2 * n <= UserArea(t)
  BY TextRight
<1>2. UserArea(t) = 96
  BY DEF UserArea, Older, Dual
<1>3. e.manufacturer \in Seq(Byte) /\ e.product \in Seq(Byte) /\ e.serial \in Seq(Byte)
  <2>1. StructRight(e)
    BY DEF Fits
  <2> QED BY <2>1, FieldTypes
<1>4. m = Len(e.manufacturer) % 256 /\ p = Len(e.product) % 256 /\ n = Len(e.serial) % 256
  BY <1>3, KeptRight, ZenonT(60)
<1>5. m \in Nat /\ p \in Nat /\ n \in Nat
  <2>1. Len(e.manufacturer) \in Nat /\ Len(e.product) \in Nat /\ Len(e.serial) \in Nat
    BY <1>3
  <2>2. \A l \in Nat : l % 256 \in Nat
    OBVIOUS
  <2> HIDE DEF m, p, n
  <2> QED BY <1>4, <2>1, <2>2, ZenonT(60)
<1> HIDE DEF m, p, n
<1>6. 2 * m + 2 \in 0 .. 98
  BY <1>1, <1>2, <1>5
<1> QED BY <1>6 DEF m

\* What stands where a chip is named: the structure's chip or, on a BM, where
\* strings start, a length.
LEMMA TypeByte ==
  ASSUME NEW t \in Types \ {"AM", "R"}, NEW e, Fits(t, e)
  PROVE  LET b == Body(t, e)[TypeAddress(t)]
         IN  IF t = "BM" THEN b \in 0 .. 98 ELSE b = Low(e.chip)
<1> DEFINE s == Specific(t, e)
           size == BuildSize(e.chip)
           p == Placed(t, size, Text(t, e))
           d == Directory(t, e)
           g == General(t, e)
           b == Body(t, e)
           base == Base(t, size)
<1>1. StructRight(e) /\ size \in {128, 256}
  BY BuildSizes DEF Fits
<1>2. \A a \in Address : b[a] = IF a \in DOMAIN s THEN s[a]
                                ELSE IF a \in DOMAIN p THEN p[a]
                                ELSE IF a \in DOMAIN d THEN d[a]
                                ELSE IF a \in DOMAIN g THEN g[a] ELSE 0
  BY BodyIs
<1>3. TypeAddress(t) \in {20, 24, 30}
  BY DEF TypeAddress, Types, Older, Dual
<1>4. TypeAddress(t) \in Address
  BY <1>3, AddressRange
<1>5. CASE t = "BM"
  <2>1. TypeAddress(t) = 20
    BY <1>5 DEF TypeAddress, Dual
  <2>2. 20 \notin DOMAIN s
    <3>1. s = UsbVersion(e)
      BY <1>5 DEF Specific
    <3>2. Misses(UsbVersion(e), 20)
      BY MissesAt, MissesOver DEF UsbVersion
    <3> HIDE DEF s
    <3> QED BY <3>1, <3>2 DEF Misses
  <2>3. /\ \A a \in DOMAIN p : base <= a
        /\ base \in DOMAIN p /\ p[base] = 2 * Len(Kept(e.manufacturer)) + 2
    BY <1>1, PlacedPiece
  <2>4. base = IF size = 128 THEN 20 ELSE 148
    <3>1. StringStart(t) = 148
      BY <1>5 DEF StringStart, Older, Dual
    <3> HIDE DEF size
    <3> QED BY <1>1, <3>1 DEF Base
  <2>5. \A a \in DOMAIN d : a \in 14 .. 19
    BY DirectoryPiece DEF PieceIn
  <2>6. DOMAIN g = {2, 3, 4, 5, 7, 8, 9, 10}
    BY GeneralIs
  <2>7. 2 * Len(Kept(e.manufacturer)) + 2 \in 0 .. 98
    BY <1>5, FirstLength DEF Older
  <2> HIDE DEF s, p, d, g, b, size, base
  <2>8. b[20] = IF 20 \in DOMAIN p THEN p[20] ELSE 0
    BY <1>2, <1>4, <2>1, <2>2, <2>5, <2>6
  <2>9. 20 \in DOMAIN p => base = 20
    BY <2>3, <2>4
  <2>10. b[20] \in 0 .. 98
    BY <2>3, <2>7, <2>8, <2>9
  <2> QED BY <1>5, <2>1, <2>10 DEF b
<1>6. CASE t # "BM"
  <2>1. TypeAddress(t) \in DOMAIN s /\ s[TypeAddress(t)] = Low(e.chip)
    BY <1>6, SpecificChip
  <2> HIDE DEF s, p, d, g, b
  <2>2. b[TypeAddress(t)] = Low(e.chip)
    BY <1>2, <1>4, <2>1
  <2> QED BY <1>6, <2>2 DEF b
<1> QED BY <1>5, <1>6

\* The image is the body and its right checksum.
LEMMA ImageIs ==
  ASSUME NEW t, NEW e, Fits(t, e)
  PROVE  LET size == BuildSize(e.chip)
         IN  /\ Image(t, e) \in [Address -> Byte]
             /\ \A a \in Address \ {size - 2, size - 1} : Image(t, e)[a] = Body(t, e)[a]
             /\ ChecksumRight(Image(t, e), size)
<1> DEFINE size == BuildSize(e.chip)
           b == Body(t, e)
           sum == Checksum(b, size)
           lo == size - 2 :> Low(sum)
           hi == size - 1 :> High(sum)
           i == Image(t, e)
<1>1. i = lo @@ hi @@ b
  BY DEF Image
<1>2. size \in {128, 256}
  BY BuildSizes
<1>3. Piece(b) /\ DOMAIN b = Address
  <2>1. DOMAIN b = Address /\ \A a \in Address : b[a] \in Byte
    BY BodyIs
  <2> HIDE DEF b
  <2> QED BY <2>1 DEF Piece
<1>4. sum = Sums(b)[size \div 2 - 1] /\ size \div 2 - 1 \in 0 .. 128
  BY <1>2 DEF Checksum
<1>5. sum \in Word
  <2>1. \A a \in Address : b[a] \in Byte
    BY BodyIs
  <2> HIDE DEF b, size, sum
  <2> QED BY <1>4, <2>1, SumIsWord
<1> HIDE DEF b
<1>6. Low(sum) \in Byte /\ High(sum) \in Byte /\ Low(sum) + 256 * High(sum) = sum
  <2> HIDE DEF sum
  <2> QED BY <1>5, BytesOfWord
<1>7. size - 2 \in Address /\ size - 1 \in Address
  BY <1>2, AddressRange
<1>8. DOMAIN lo = {size - 2} /\ lo[size - 2] = Low(sum)
  BY AtIs
<1>9. DOMAIN hi = {size - 1} /\ hi[size - 1] = High(sum)
  BY AtIs
<1>10. Piece(lo) /\ Piece(hi)
  BY <1>6, <1>7, <1>8, <1>9 DEF Piece
<1> SUFFICES /\ i \in [Address -> Byte]
             /\ \A a \in Address \ {size - 2, size - 1} : i[a] = b[a]
             /\ ChecksumRight(i, size)
  BY DEF b
<1> HIDE DEF lo, hi, sum, size, i
<1>11. Piece(i)
  BY <1>1, <1>3, <1>10, PieceOver
<1>12. DOMAIN i = Address
  BY <1>1, <1>3, <1>7, <1>8, <1>9 DEF @@
<1>13. i \in [Address -> Byte]
  <2>1. i = [a \in Address |-> i[a]]
    BY <1>1, <1>12 DEF @@
  <2> QED BY <1>11, <1>12, <2>1 DEF Piece
<1>14. \A a \in Address \ {size - 2, size - 1} : i[a] = b[a]
  BY <1>1, <1>3, <1>8, <1>9 DEF @@
<1>15. i[size - 2] = Low(sum) /\ i[size - 1] = High(sum)
  BY <1>1, <1>2, <1>7, <1>8, <1>9 DEF @@
<1>16. Sums(i)[size \div 2 - 1] = Sums(b)[size \div 2 - 1]
  <2>1. size \div 2 - 1 \in Nat /\ 2 * (size \div 2 - 1) = size - 2
    BY <1>2
  <2>2. \A a \in 0 .. 2 * (size \div 2 - 1) - 1 : i[a] = b[a]
    <3> TAKE a \in 0 .. 2 * (size \div 2 - 1) - 1
    <3>1. a \in Nat /\ a < size - 2 /\ a < 256
      BY <1>2, <2>1
    <3>2. a \in Address /\ a \notin {size - 2, size - 1}
      BY <1>2, <3>1, AddressRange
    <3> QED BY <1>14, <3>2
  <2> QED BY <2>1, <2>2, SumsAgree
<1>17. Checksum(i, size) = sum
  BY <1>2, <1>4, <1>16 DEF Checksum
<1> QED BY <1>2, <1>6, <1>13, <1>14, <1>15, <1>17 DEF ChecksumRight

-----------------------------------------------------------------------------
(* Decoding and setting keep the structure right.                          *)

\* The least of some numbers is one of them and no larger than any.
LEMMA MinIn ==
  ASSUME NEW T, T \subseteq Nat, T # {}
  PROVE  Min(T) \in T /\ \A n \in T : Min(T) <= n
<1>1. PICK n \in T : \A m \in T : n <= m
  BY Least
<1> QED BY <1>1 DEF Min

\* A C string is a string without NUL,
LEMMA CStringRight ==
  ASSUME NEW s \in Seq(Byte)
  PROVE  CString(s) \in Seq(Byte) /\ CString(s) \in CStrings
<1> DEFINE nul == {k \in DOMAIN s : s[k] = 0}
<1>1. nul \subseteq 1 .. Len(s) /\ \A k \in 1 .. Len(s) : s[k] \in Byte /\ (k \notin nul => s[k] # 0)
  OBVIOUS
<1>2. CASE nul = {}
  <2>1. CString(s) = s
    BY <1>2 DEF CString
  <2>2. \A k \in 1 .. Len(s) : s[k] \in Byte \ {0}
    BY <1>1, <1>2
  <2>3. s \in Seq(Byte \ {0})
    BY <2>2
  <2> QED BY <2>1, <2>3 DEF CStrings
<1>3. CASE nul # {}
  <2> DEFINE m == Min(nul)
             r == SubSeq(s, 1, m - 1)
  <2>1. m \in nul /\ \A k \in nul : m <= k
    <3>1. nul \subseteq Nat
      BY <1>1
    <3> HIDE DEF nul
    <3> QED BY <1>3, <3>1, MinIn
  <2>2. CString(s) = r
    BY <1>3 DEF CString
  <2> HIDE DEF nul, m
  <2>3. m \in 1 .. Len(s) /\ m - 1 \in 0 .. Len(s) /\ m - 1 \in Nat
    BY <1>1, <2>1
  <2>4. \A k \in 1 .. m - 1 : k \in 1 .. Len(s) /\ k \notin nul
    BY <2>1, <2>3
  <2>5. r \in Seq(Byte) /\ Len(r) = m - 1 /\ \A k \in 1 .. m - 1 : r[k] = s[k]
    BY <2>3
  <2> HIDE DEF r
  <2>6. \A k \in 1 .. Len(r) : r[k] \in Byte \ {0}
    BY <1>1, <2>4, <2>5
  <2>7. r \in Seq(Byte \ {0})
    BY <2>5, <2>6
  <2> QED BY <2>2, <2>5, <2>7 DEF CStrings
<1> QED BY <1>2, <1>3

\* and so is what decode takes for one, whatever the lengths and offsets.
LEMMA StringRight ==
  ASSUME NEW b \in [Address -> Byte], NEW size, NEW a \in 14 .. 18, NEW beyond \in Byte
  PROVE  /\ DecodedString(b, size, a, beyond) \in Seq(Byte)
         /\ DecodedString(b, size, a, beyond) \in CStrings
<1> DEFINE from == Offset(b[a], size)
           top == (b[a + 1] \div 2) - 1
           s == [j \in 1 .. top |-> IF from + 2*j \in Address THEN b[from + 2*j] ELSE beyond]
<1>1. s \in Seq(Byte)
  <2>1. top \in Int
    <3>1. a + 1 \in Address
      BY AddressRange
    <3>2. b[a + 1] \in Nat
      BY <3>1 DEF Byte
    <3> QED BY <3>2
  <2>2. \A j \in 1 .. top : s[j] \in Byte
    <3> TAKE j \in 1 .. top
    <3>1. s[j] = IF from + 2*j \in Address THEN b[from + 2*j] ELSE beyond
      OBVIOUS
    <3> HIDE DEF s, from
    <3> QED BY <3>1
  <2>3. DOMAIN s = 1 .. top /\ s = [j \in 1 .. top |-> s[j]]
    OBVIOUS
  <2> HIDE DEF s, top
  <2>4. CASE top < 0
    <3>1. 1 .. top = {}
      BY <2>1, <2>4
    <3>2. s = <<>>
      BY <2>3, <3>1
    <3> QED BY <3>2
  <2>5. CASE top >= 0
    <3>1. top \in Nat
      BY <2>1, <2>5
    <3> QED BY <2>2, <2>3, <3>1
  <2> QED BY <2>1, <2>4, <2>5
<1>2. DecodedString(b, size, a, beyond) = CString(s)
  BY DEF DecodedString
<1> HIDE DEF s
<1> QED BY <1>1, <1>2, CStringRight

\* What decode takes out of a byte.
LEMMA ByteParts ==
  ASSUME NEW n \in Byte
  PROVE  /\ n \in Nat /\ n % 16 \in Byte /\ n \div 16 \in Byte /\ n % 8 \in Byte /\ n % 4 \in Nat
         /\ Bits(n, 1) \in Nat /\ Bits(n, 2) \in Nat /\ Bits(n, 4) \in Nat /\ Bits(n, 8) \in {0, 8}
         /\ Bits(n, 16) \in Nat /\ Bits(n, 32) \in Nat /\ Bits(n, 64) \in Nat
         /\ Bits(n, 128) \in Nat /\ BitType(n) \in Nat
  BY DEF Byte, Bits, BitType, When

\* What a field may hold.
FieldRight(f, v) ==
    /\ f \in Numbers => v \in Nat
    /\ f \in Strings => v \in Seq(Byte)
    /\ f \in Quads => v \in [1 .. 4 -> Nat]
    /\ f = "channel_type" => v \in [1 .. 2 -> Nat]
    /\ f = "cbus" => v \in [1 .. 10 -> Nat]
    /\ f = "size" => v \in {-1, 0, 64, 128, 256}
    /\ f = "chip" => v \in Int
    /\ f = "initialized" => v \in BOOLEAN

\* A structure is right if each field is.
LEMMA FieldsRight ==
  ASSUME NEW e
  PROVE  StructRight(e) <=> /\ DOMAIN e = DOMAIN Blank
                            /\ \A f \in DOMAIN Blank : FieldRight(f, e[f])
<1> DEFINE D == DOMAIN Blank
<1>1. /\ Numbers \subseteq D /\ Strings \subseteq D /\ Quads \subseteq D
      /\ {"channel_type", "cbus", "size", "chip", "initialized"} \subseteq D
  BY DEF Numbers, Strings, Quads, Blank
<1>2. /\ "size" \notin Numbers \cup Strings \cup Quads
      /\ "chip" \notin Numbers \cup Strings \cup Quads
      /\ "cbus" \notin Numbers \cup Strings \cup Quads
      /\ "channel_type" \notin Numbers \cup Strings \cup Quads
      /\ "initialized" \notin Numbers \cup Strings \cup Quads
  BY DEF Numbers, Strings, Quads
<1> HIDE DEF D
<1>3. StructRight(e) => /\ DOMAIN e = D /\ \A f \in D : FieldRight(f, e[f])
  BY <1>1, ZenonT(60) DEF StructRight, FieldRight, D
<1>4. ASSUME DOMAIN e = D, \A f \in D : FieldRight(f, e[f])
      PROVE  StructRight(e)
  <2>1. /\ FieldRight("size", e.size) /\ FieldRight("chip", e.chip) /\ FieldRight("cbus", e.cbus)
        /\ FieldRight("channel_type", e.channel_type)
        /\ FieldRight("initialized", e.initialized)
    BY <1>1, <1>4
  <2>2. /\ e.size \in {-1, 0, 64, 128, 256} /\ e.chip \in Int
        /\ e.cbus \in [1 .. 10 -> Nat] /\ e.channel_type \in [1 .. 2 -> Nat]
        /\ e.initialized \in BOOLEAN
    BY <2>1 DEF FieldRight
  <2>3. \A f \in Numbers : e[f] \in Nat
    BY <1>1, <1>4 DEF FieldRight
  <2>4. \A f \in Strings : e[f] \in Seq(Byte)
    BY <1>1, <1>4 DEF FieldRight
  <2>5. \A f \in Quads : e[f] \in [1 .. 4 -> Nat]
    BY <1>1, <1>4 DEF FieldRight
  <2> QED BY <1>4, <2>2, <2>3, <2>4, <2>5 DEF StructRight, D
<1> QED BY <1>3, <1>4 DEF D

\* Right fields in a right structure leave it right;
LEMMA Changed ==
  ASSUME NEW e, StructRight(e), NEW d, DOMAIN d = DOMAIN e,
         \A f \in DOMAIN e : d[f] = e[f] \/ FieldRight(f, d[f])
  PROVE  StructRight(d)
  BY FieldsRight

\* one of them leaves chip and size alone.
LEMMA OneField ==
  ASSUME NEW e, StructRight(e), NEW f, NEW v, FieldRight(f, v)
  PROVE  /\ StructRight([e EXCEPT ![f] = v])
         /\ f \notin {"chip", "size"} =>
               [e EXCEPT ![f] = v].chip = e.chip /\ [e EXCEPT ![f] = v].size = e.size
<1> DEFINE d == [e EXCEPT ![f] = v]
<1>1. DOMAIN d = DOMAIN e /\ \A g \in DOMAIN e : d[g] = IF g = f THEN v ELSE e[g]
  OBVIOUS
<1>2. "chip" \in DOMAIN e /\ "size" \in DOMAIN e
  BY DEF StructRight, Blank
<1> SUFFICES /\ StructRight(d)
             /\ f \notin {"chip", "size"} => d.chip = e.chip /\ d.size = e.size
  OBVIOUS
<1> HIDE DEF d
<1> QED BY <1>1, <1>2, Changed

\* A field of the kind number takes any number,
LEMMA NumberRight ==
  ASSUME NEW f \in Numbers, NEW v \in Nat
  PROVE  FieldRight(f, v)
  BY DEF FieldRight, Numbers, Strings, Quads

\* one of strings any string,
LEMMA StringFieldRight ==
  ASSUME NEW f \in Strings, NEW v \in Seq(Byte)
  PROVE  FieldRight(f, v)
  BY DEF FieldRight, Numbers, Strings, Quads

\* one of four any four numbers,
LEMMA QuadRight ==
  ASSUME NEW f \in Quads, NEW v \in [1 .. 4 -> Nat]
  PROVE  FieldRight(f, v)
  BY DEF FieldRight, Numbers, Strings, Quads

\* and the three others.
LEMMA OtherRight ==
  /\ \A v \in [1 .. 2 -> Nat] : FieldRight("channel_type", v)
  /\ \A v \in [1 .. 10 -> Nat] : FieldRight("cbus", v)
  /\ \A v \in Int : FieldRight("chip", v)
  BY DEF FieldRight, Numbers, Strings, Quads

\* The fields that are one number each.
LEMMA NumbersAre ==
  {"vendor_id", "product_id", "self_powered", "remote_wakeup", "max_power",
   "in_is_isochronous", "out_is_isochronous", "suspend_pull_downs", "use_serial",
   "use_usb_version", "usb_version", "suspend_dbus7", "high_current", "high_current_a",
   "high_current_b", "invert", "powersave", "clock_polarity", "data_order", "flow_control"}
  \subseteq Numbers
  BY DEF Numbers, Blank

\* Decoding what all types have keeps the structure right and the chip named.
LEMMA CommonRight ==
  ASSUME NEW e, StructRight(e), NEW b \in [Address -> Byte], NEW beyond \in Byte
  PROVE  LET d == DecodedCommon(e, b, beyond)
         IN  StructRight(d) /\ d.size = e.size /\ d.chip = e.chip
<1>1. \A a \in {2, 3, 4, 5, 8, 9, 10, 12, 13} : b[a] \in Byte
  BY AddressRange
<1>2. /\ b[2] + 256 * b[3] \in Nat /\ b[4] + 256 * b[5] \in Nat
      /\ b[12] + 256 * b[13] \in Nat /\ b[9] \in Nat
  BY <1>1 DEF Byte
<1>3. /\ Bits(b[8], 64) \in Nat /\ Bits(b[8], 32) \in Nat /\ Bits(b[10], 1) \in Nat
      /\ Bits(b[10], 2) \in Nat /\ Bits(b[10], 4) \in Nat /\ Bits(b[10], 8) \div 8 \in Nat
      /\ Bits(b[10], 16) \in Nat
  <2>1. Bits(b[10], 8) \in {0, 8}
    BY <1>1, ByteParts
  <2>2. Bits(b[10], 8) \div 8 \in Nat
    BY <2>1
  <2> QED BY <1>1, <2>2, ByteParts
<1>4. /\ DecodedString(b, e.size, 14, beyond) \in Seq(Byte)
      /\ DecodedString(b, e.size, 16, beyond) \in Seq(Byte)
      /\ DecodedString(b, e.size, 18, beyond) \in Seq(Byte)
  <2>1. 14 \in 14 .. 18 /\ 16 \in 14 .. 18 /\ 18 \in 14 .. 18
    OBVIOUS
  <2> QED BY <2>1, StringRight, Zenon
<1>5. /\ FieldRight("vendor_id", b[2] + 256 * b[3]) /\ FieldRight("product_id", b[4] + 256 * b[5])
      /\ FieldRight("usb_version", b[12] + 256 * b[13]) /\ FieldRight("max_power", b[9])
      /\ FieldRight("self_powered", Bits(b[8], 64)) /\ FieldRight("remote_wakeup", Bits(b[8], 32))
      /\ FieldRight("in_is_isochronous", Bits(b[10], 1))
      /\ FieldRight("out_is_isochronous", Bits(b[10], 2))
      /\ FieldRight("suspend_pull_downs", Bits(b[10], 4))
      /\ FieldRight("use_serial", Bits(b[10], 8) \div 8)
      /\ FieldRight("use_usb_version", Bits(b[10], 16))
  BY <1>2, <1>3, NumbersAre, NumberRight
<1>6. /\ FieldRight("manufacturer", DecodedString(b, e.size, 14, beyond))
      /\ FieldRight("product", DecodedString(b, e.size, 16, beyond))
      /\ FieldRight("serial", DecodedString(b, e.size, 18, beyond))
  BY <1>4, StringFieldRight DEF Strings
<1> DEFINE d == DecodedCommon(e, b, beyond)
       touched == {"vendor_id", "product_id", "self_powered", "remote_wakeup", "max_power",
                       "in_is_isochronous", "out_is_isochronous", "suspend_pull_downs",
                       "use_serial", "use_usb_version", "usb_version",
                       "manufacturer", "product", "serial"}
<1>7. DOMAIN d = DOMAIN e
  BY ZenonT(60) DEF DecodedCommon
<1>8. touched \cup {"chip", "size"} \subseteq DOMAIN e /\ "chip" \notin touched /\ "size" \notin touched
  BY DEF StructRight, Blank
<1>9. \A f \in DOMAIN e : f \notin touched => d[f] = e[f]
  BY ZenonT(60) DEF DecodedCommon
<1>10. /\ FieldRight("vendor_id", d.vendor_id) /\ FieldRight("product_id", d.product_id)
       /\ FieldRight("usb_version", d.usb_version) /\ FieldRight("max_power", d.max_power)
       /\ FieldRight("self_powered", d.self_powered)
       /\ FieldRight("remote_wakeup", d.remote_wakeup)
       /\ FieldRight("in_is_isochronous", d.in_is_isochronous)
       /\ FieldRight("out_is_isochronous", d.out_is_isochronous)
       /\ FieldRight("suspend_pull_downs", d.suspend_pull_downs)
       /\ FieldRight("use_serial", d.use_serial)
       /\ FieldRight("use_usb_version", d.use_usb_version)
  BY <1>5, <1>8 DEF DecodedCommon
<1>11. /\ FieldRight("manufacturer", d.manufacturer) /\ FieldRight("product", d.product)
       /\ FieldRight("serial", d.serial)
  BY <1>6, <1>8 DEF DecodedCommon
<1> SUFFICES StructRight(d) /\ d.size = e.size /\ d.chip = e.chip
  OBVIOUS
<1> HIDE DEF d
<1>12. \A f \in DOMAIN e : d[f] = e[f] \/ FieldRight(f, d[f])
  BY <1>9, <1>10, <1>11
<1> QED BY <1>7, <1>8, <1>9, <1>12, Changed

\* Four numbers are a function on 1 to 4.
LEMMA FourRight ==
  ASSUME NEW a \in Nat, NEW b \in Nat, NEW c \in Nat, NEW d \in Nat
  PROVE  <<a, b, c, d>> \in [1 .. 4 -> Nat]
  OBVIOUS

\* d is e but for some fields.
ChangesOnly(e, d, touched) == /\ DOMAIN d = DOMAIN e
                        /\ \A f \in DOMAIN e : f \notin touched => d[f] = e[f]

\* Right values in the fields touched leave the structure right.
LEMMA TouchedRight ==
  ASSUME NEW e, StructRight(e), NEW d, NEW touched, ChangesOnly(e, d, touched),
         \A f \in touched : FieldRight(f, d[f])
  PROVE  StructRight(d) /\ ("size" \notin touched => d.size = e.size)
                        /\ ("chip" \notin touched => d.chip = e.chip)
<1>1. "chip" \in DOMAIN e /\ "size" \in DOMAIN e
  BY DEF StructRight, Blank
<1> QED BY <1>1, Changed DEF ChangesOnly

\* So does the reset of the first channel's type.
LEMMA ResetRight ==
  ASSUME NEW e, StructRight(e)
  PROVE  LET d == [e EXCEPT !.channel_type[1] = 0]
         IN  StructRight(d) /\ d.size = e.size
<1> DEFINE d == [e EXCEPT !.channel_type[1] = 0]
<1>1. ChangesOnly(e, d, {"channel_type"})
  BY DEF ChangesOnly
<1>2. d.channel_type \in [1 .. 2 -> Nat]
  <2>1. "channel_type" \in DOMAIN e
    BY DEF StructRight, Blank
  <2> QED BY <2>1, FieldTypes
<1>3. FieldRight("channel_type", d.channel_type)
  BY <1>2, OtherRight
<1> SUFFICES StructRight(d) /\ d.size = e.size
  OBVIOUS
<1> HIDE DEF d
<1> QED BY <1>1, <1>3, TouchedRight

\* What a type's decoding leaves.
DecodedRight(e, d, at) == StructRight(d) /\ d.size = e.size /\ d.chip = at

\* Decoding a type's own bytes, and the chip then named: of a 2232C,
LEMMA Right2232C ==
  ASSUME NEW e, StructRight(e), NEW b \in [Address -> Byte]
  PROVE  DecodedRight(e, Decoded2232C(e, b), b[20])
<1> DEFINE d == Decoded2232C(e, b)
           touched == {"channel_type", "driver", "high_current_a", "high_current_b", "chip"}
<1>1. b[0] \in Byte /\ b[1] \in Byte /\ b[20] \in Byte
  BY AddressRange
<1>2. /\ BitType(b[0] % 8) \in Nat /\ b[1] % 8 \in Nat /\ Bits(b[0], 8) \in Nat /\ Bits(b[1], 8) \in Nat
      /\ Bits(b[0], 16) \in Nat /\ Bits(b[1], 16) \in Nat
      /\ b[20] \in Int /\ -1 <= b[20] /\ b[20] <= 255
  <2>1. b[0] % 8 \in Byte /\ b[1] % 8 \in Byte /\ Bits(b[0], 8) \in {0, 8} /\ Bits(b[1], 8) \in {0, 8}
    BY <1>1, ByteParts
  <2>2. b[20] \in Int /\ -1 <= b[20] /\ b[20] <= 255
    BY <1>1 DEF Byte
  <2>3. BitType(b[0] % 8) \in Nat /\ b[1] % 8 \in Nat
    BY <2>1, ByteParts
  <2> QED BY <1>1, <2>1, <2>2, <2>3, ByteParts
<1>3. touched \subseteq DOMAIN e
  BY DEF StructRight, Blank
<1>4. e.channel_type \in [1 .. 2 -> Nat] /\ e.driver \in [1 .. 4 -> Nat]
  BY FieldTypes
<1>5. ChangesOnly(e, d, touched)
  BY DEF ChangesOnly, Decoded2232C
<1>6. d.channel_type \in [1 .. 2 -> Nat]
  BY <1>2, <1>3, <1>4 DEF Decoded2232C
<1>7. d.driver \in [1 .. 4 -> Nat]
  BY <1>2, <1>3, <1>4 DEF Decoded2232C
<1>8. d.high_current_a \in Nat /\ d.high_current_b \in Nat /\ d.chip = b[20]
  BY <1>2, <1>3 DEF Decoded2232C
<1> SUFFICES DecodedRight(e, d, b[20])
  OBVIOUS
<1> HIDE DEF d
<1>9. FieldRight("channel_type", d.channel_type) /\ FieldRight("chip", d.chip)
  BY <1>2, <1>6, <1>8, OtherRight
<1>10. FieldRight("driver", d.driver)
  BY <1>7, QuadRight DEF Quads
<1>11. FieldRight("high_current_a", d.high_current_a) /\ FieldRight("high_current_b", d.high_current_b)
  BY <1>8, NumbersAre, NumberRight
<1>12. \A f \in touched : FieldRight(f, d[f])
  BY <1>9, <1>10, <1>11
<1> HIDE DEF touched
<1>13. StructRight(d) /\ ("size" \notin touched => d.size = e.size)
  BY <1>5, <1>12, TouchedRight
<1> QED BY <1>8, <1>13 DEF DecodedRight, touched

\* an R,
LEMMA RightR ==
  ASSUME NEW e, StructRight(e), NEW b \in [Address -> Byte]
  PROVE  DecodedRight(e, DecodedR(e, b), b[22])
<1> DEFINE d == DecodedR(e, b)
           touched == {"driver", "high_current", "chip", "invert", "cbus"}
<1>1. b[0] \in Byte /\ b[11] \in Byte /\ b[20] \in Byte /\ b[21] \in Byte /\ b[22] \in Byte
  BY AddressRange
<1>2. /\ 8 - Bits(b[0], 8) \in Nat /\ Bits(b[0], 4) \in Nat /\ b[11] \in Nat
      /\ b[20] % 16 \in Nat /\ b[20] \div 16 \in Nat /\ b[21] % 16 \in Nat /\ b[21] \div 16 \in Nat
      /\ b[22] % 16 \in Nat /\ b[22] \in Int /\ -1 <= b[22] /\ b[22] <= 255
  <2>1. Bits(b[0], 8) \in {0, 8} /\ Bits(b[0], 4) \in Nat
    BY <1>1, ByteParts
  <2>2. /\ b[11] \in Nat /\ b[20] % 16 \in Nat /\ b[20] \div 16 \in Nat /\ b[21] % 16 \in Nat
        /\ b[21] \div 16 \in Nat /\ b[22] % 16 \in Nat
        /\ b[22] \in Int /\ -1 <= b[22] /\ b[22] <= 255
    BY <1>1 DEF Byte
  <2> QED BY <2>1, <2>2
<1>3. touched \subseteq DOMAIN e
  BY DEF StructRight, Blank
<1>4. e.cbus \in [1 .. 10 -> Nat] /\ e.driver \in [1 .. 4 -> Nat]
  BY FieldTypes
<1>5. ChangesOnly(e, d, touched)
  BY DEF ChangesOnly, DecodedR
<1>6. d.cbus \in [1 .. 10 -> Nat]
  BY <1>2, <1>3, <1>4 DEF DecodedR
<1>7. d.driver \in [1 .. 4 -> Nat]
  BY <1>2, <1>3, <1>4 DEF DecodedR
<1>8. d.high_current \in Nat /\ d.invert \in Nat /\ d.chip = b[22]
  BY <1>2, <1>3 DEF DecodedR
<1> SUFFICES DecodedRight(e, d, b[22])
  OBVIOUS
<1> HIDE DEF d
<1>9. FieldRight("cbus", d.cbus) /\ FieldRight("chip", d.chip)
  BY <1>2, <1>6, <1>8, OtherRight
<1>10. FieldRight("driver", d.driver)
  BY <1>7, QuadRight DEF Quads
<1>11. FieldRight("high_current", d.high_current) /\ FieldRight("invert", d.invert)
  BY <1>8, NumbersAre, NumberRight
<1>12. \A f \in touched : FieldRight(f, d[f])
  BY <1>9, <1>10, <1>11
<1> HIDE DEF touched
<1>13. StructRight(d) /\ ("size" \notin touched => d.size = e.size)
  BY <1>5, <1>12, TouchedRight
<1> QED BY <1>8, <1>13 DEF DecodedRight, touched

\* the four pin groups,
LEMMA GroupsRight ==
  ASSUME NEW e, StructRight(e), NEW nibble \in [1 .. 4 -> Byte]
  PROVE  DecodedRight(e, Decoded4(e, nibble), e.chip)
<1> DEFINE d == Decoded4(e, nibble)
           touched == {"drive", "schmitt", "slew"}
<1>1. \A g \in 1 .. 4 : /\ nibble[g] % 4 \in Nat /\ Bits(nibble[g], 8) \in Nat
                        /\ Bits(nibble[g], 4) \in Nat
  <2> TAKE g \in 1 .. 4
  <2>1. nibble[g] \in Byte
    OBVIOUS
  <2>2. Bits(nibble[g], 8) \in {0, 8} /\ nibble[g] % 4 \in Nat /\ Bits(nibble[g], 4) \in Nat
    BY <2>1, ByteParts
  <2> QED BY <2>2
<1>2. touched \subseteq DOMAIN e
  BY DEF StructRight, Blank
<1>3. ChangesOnly(e, d, touched)
  BY DEF ChangesOnly, Decoded4
<1>4. /\ d.drive \in [1 .. 4 -> Nat] /\ d.schmitt \in [1 .. 4 -> Nat]
      /\ d.slew \in [1 .. 4 -> Nat]
  BY <1>1, <1>2 DEF Decoded4
<1> SUFFICES DecodedRight(e, d, e.chip)
  OBVIOUS
<1> HIDE DEF d
<1>5. \A f \in touched : FieldRight(f, d[f])
  BY <1>4, QuadRight DEF Quads
<1> HIDE DEF touched
<1>6. /\ StructRight(d) /\ ("size" \notin touched => d.size = e.size)
      /\ ("chip" \notin touched => d.chip = e.chip)
  BY <1>3, <1>5, TouchedRight
<1> QED BY <1>6 DEF DecodedRight, touched

\* which are nibbles of the buffer,
LEMMA NibblesRight ==
  ASSUME NEW b \in [Address -> Byte]
  PROVE  Nibbles(b) \in [1 .. 4 -> Byte]
<1>1. b[12] \in Byte /\ b[13] \in Byte
  BY AddressRange
<1>2. b[12] % 16 \in Byte /\ b[12] \div 16 \in Byte /\ b[13] % 16 \in Byte /\ b[13] \div 16 \in Byte
  BY <1>1, ByteParts
<1> HIDE DEF Byte
<1> QED BY <1>2 DEF Nibbles

\* a 2232H,
LEMMA Right2232H ==
  ASSUME NEW e, StructRight(e), NEW b \in [Address -> Byte]
  PROVE  DecodedRight(e, Decoded2232H(e, b), b[24])
<1> DEFINE m == Decoded4(e, Nibbles(b))
           d == Decoded2232H(e, b)
           touched == {"channel_type", "driver", "suspend_dbus7", "chip"}
<1>1. StructRight(m) /\ m.size = e.size
  BY NibblesRight, GroupsRight DEF DecodedRight
<1>2. /\ BitType(b[0] % 8) \in Nat /\ BitType(b[1] % 8) \in Nat /\ Bits(b[0], 8) \in Nat
      /\ Bits(b[1], 8) \in Nat /\ Bits(b[1], 128) \in Nat
      /\ b[24] \in Int /\ -1 <= b[24] /\ b[24] <= 255
  <2>1. b[0] \in Byte /\ b[1] \in Byte /\ b[24] \in Byte
    BY AddressRange
  <2>2. b[0] % 8 \in Byte /\ b[1] % 8 \in Byte /\ Bits(b[0], 8) \in {0, 8} /\ Bits(b[1], 8) \in {0, 8}
    BY <2>1, ByteParts
  <2>3. b[24] \in Int /\ -1 <= b[24] /\ b[24] <= 255
    BY <2>1 DEF Byte
  <2>4. BitType(b[0] % 8) \in Nat /\ BitType(b[1] % 8) \in Nat
    BY <2>2, ByteParts
  <2> QED BY <2>1, <2>2, <2>3, <2>4, ByteParts
<1>3. d = [m EXCEPT !.driver[1] = Bits(b[0], 8), !.driver[2] = Bits(b[1], 8),
                    !.channel_type[1] = BitType(b[0] % 8), !.channel_type[2] = BitType(b[1] % 8),
                    !.suspend_dbus7 = Bits(b[1], 128), !.chip = b[24]]
  BY DEF Decoded2232H
<1> HIDE DEF m, d
<1>4. touched \subseteq DOMAIN m
  BY <1>1 DEF StructRight, Blank
<1>5. m.channel_type \in [1 .. 2 -> Nat] /\ m.driver \in [1 .. 4 -> Nat]
  BY <1>1, FieldTypes
<1>6. ChangesOnly(m, d, touched)
  BY <1>3 DEF ChangesOnly
<1>7. d.channel_type \in [1 .. 2 -> Nat]
  BY <1>2, <1>3, <1>4, <1>5
<1>8. d.driver \in [1 .. 4 -> Nat]
  BY <1>2, <1>3, <1>4, <1>5
<1>9. d.suspend_dbus7 \in Nat /\ d.chip = b[24]
  BY <1>2, <1>3, <1>4
<1>10. FieldRight("channel_type", d.channel_type) /\ FieldRight("chip", d.chip)
  BY <1>2, <1>7, <1>9, OtherRight
<1>11. FieldRight("driver", d.driver)
  BY <1>8, QuadRight DEF Quads
<1>12. FieldRight("suspend_dbus7", d.suspend_dbus7)
  BY <1>9, NumbersAre, NumberRight
<1>13. \A f \in touched : FieldRight(f, d[f])
  BY <1>10, <1>11, <1>12
<1> SUFFICES DecodedRight(e, d, b[24])
  BY DEF d
<1> HIDE DEF touched
<1>14. StructRight(d) /\ ("size" \notin touched => d.size = m.size)
  BY <1>1, <1>6, <1>13, TouchedRight
<1> QED BY <1>1, <1>9, <1>14 DEF DecodedRight, touched

\* a 4232H,
LEMMA Right4232H ==
  ASSUME NEW e, StructRight(e), NEW b \in [Address -> Byte]
  PROVE  DecodedRight(e, Decoded4232H(e, b), b[24])
<1> DEFINE m == Decoded4(e, Nibbles(b))
           d == Decoded4232H(e, b)
           touched == {"driver", "rs485", "chip"}
<1>1. StructRight(m) /\ m.size = e.size
  BY NibblesRight, GroupsRight DEF DecodedRight
<1>2. b[0] \in Byte /\ b[1] \in Byte /\ b[11] \in Byte /\ b[24] \in Byte
  BY AddressRange
<1>3. /\ Bits(b[0], 8) \in Nat /\ Bits(b[1], 8) \in Nat
      /\ Bits(b[0] \div 16, 8) \in Nat /\ Bits(b[1] \div 16, 8) \in Nat
      /\ Bits(b[11], 16) \in Nat /\ Bits(b[11], 32) \in Nat /\ Bits(b[11], 64) \in Nat
      /\ Bits(b[11], 128) \in Nat
  <2>1. b[0] \div 16 \in Byte /\ b[1] \div 16 \in Byte
    BY <1>2, ByteParts
  <2>2. /\ Bits(b[0], 8) \in {0, 8} /\ Bits(b[1], 8) \in {0, 8}
        /\ Bits(b[0] \div 16, 8) \in {0, 8} /\ Bits(b[1] \div 16, 8) \in {0, 8}
    BY <1>2, <2>1, ByteParts
  <2> QED BY <1>2, <2>2, ByteParts
<1>4. b[24] \in Int /\ -1 <= b[24] /\ b[24] <= 255
  BY <1>2 DEF Byte
<1>5. d = [m EXCEPT !.driver = <<Bits(b[0], 8), Bits(b[1], 8),
                                 Bits(b[0] \div 16, 8), Bits(b[1] \div 16, 8)>>,
                    !.rs485 = <<Bits(b[11], 16), Bits(b[11], 32),
                                Bits(b[11], 64), Bits(b[11], 128)>>,
                    !.chip = b[24]]
  BY DEF Decoded4232H
<1> HIDE DEF m, d
<1>6. touched \subseteq DOMAIN m
  BY <1>1 DEF StructRight, Blank
<1>7. ChangesOnly(m, d, touched)
  BY <1>5 DEF ChangesOnly
<1>8. d.driver \in [1 .. 4 -> Nat] /\ d.rs485 \in [1 .. 4 -> Nat] /\ d.chip = b[24]
  BY <1>3, <1>5, <1>6, FourRight
<1>9. FieldRight("chip", d.chip)
  BY <1>4, <1>8, OtherRight
<1>10. FieldRight("driver", d.driver) /\ FieldRight("rs485", d.rs485)
  BY <1>8, QuadRight DEF Quads
<1>11. \A f \in touched : FieldRight(f, d[f])
  BY <1>9, <1>10
<1> SUFFICES DecodedRight(e, d, b[24])
  BY DEF d
<1> HIDE DEF touched
<1>12. StructRight(d) /\ ("size" \notin touched => d.size = m.size)
  BY <1>1, <1>7, <1>11, TouchedRight
<1> QED BY <1>1, <1>8, <1>12 DEF DecodedRight, touched

\* and a 232H, which has two groups
LEMMA HalvesRight ==
  ASSUME NEW p \in [1 .. 4 -> Nat], NEW q \in [1 .. 4 -> Nat]
  PROVE  FirstTwo(p, q) \in [1 .. 4 -> Nat]
  BY DEF FirstTwo

\* and the CBUS pins.
LEMMA Right232H ==
  ASSUME NEW e, StructRight(e), NEW b \in [Address -> Byte]
  PROVE  DecodedRight(e, Decoded232H(e, b), b[30])
<1> DEFINE m == Decoded4(e, <<b[12], b[13], 0, 0>>)
           d == Decoded232H(e, b)
           touched == {"channel_type", "driver", "clock_polarity", "data_order", "flow_control",
                       "powersave", "drive", "schmitt", "slew", "cbus", "chip"}
           pins == [p \in 1 .. 10 |-> IF p % 2 = 1 THEN b[24 + (p - 1) \div 2] % 16
                                      ELSE b[24 + (p - 1) \div 2] \div 16]
<1>1. /\ b[0] \in Byte /\ b[1] \in Byte /\ b[12] \in Byte /\ b[13] \in Byte
      /\ b[30] \in Byte
  BY AddressRange
<1>2. StructRight(m)
  <2>1. <<b[12], b[13], 0, 0>> \in [1 .. 4 -> Byte]
    <3>1. 0 \in Byte
      BY DEF Byte
    <3> HIDE DEF Byte
    <3> QED BY <1>1, <3>1
  <2> QED BY <2>1, GroupsRight DEF DecodedRight
<1>3. /\ b[0] % 16 \in Nat /\ Bits(b[0], 16) \div 2 \in Nat
      /\ Bits(b[1], 1) \in Nat /\ Bits(b[1], 2) \in Nat /\ Bits(b[1], 4) \in Nat
      /\ Bits(b[1], 128) \in Nat
  <2>1. b[0] % 16 \in Byte /\ Bits(b[0], 16) \in Nat
    BY <1>1, ByteParts
  <2>2. b[0] % 16 \in Nat
    BY <2>1 DEF Byte
  <2>3. Bits(b[0], 16) \div 2 \in Nat
    BY <2>1
  <2> QED BY <1>1, <2>2, <2>3, ByteParts
<1>4. b[30] \in Int /\ -1 <= b[30] /\ b[30] <= 255
  BY <1>1 DEF Byte
<1>5. pins \in [1 .. 10 -> Nat]
  <2> SUFFICES ASSUME NEW p \in 1 .. 10
               PROVE  pins[p] \in Nat
    OBVIOUS
  <2>1. 24 + (p - 1) \div 2 \in Address
    BY AddressRange
  <2>2. b[24 + (p - 1) \div 2] \in Byte
    BY <2>1
  <2> QED BY <2>2 DEF Byte
<1>6. DOMAIN e = DOMAIN Blank /\ touched \subseteq DOMAIN e
  BY DEF StructRight, Blank
<1>7. e.channel_type \in [1 .. 2 -> Nat] /\ e.driver \in [1 .. 4 -> Nat]
  BY FieldTypes
<1>8. /\ e.drive \in [1 .. 4 -> Nat] /\ e.schmitt \in [1 .. 4 -> Nat] /\ e.slew \in [1 .. 4 -> Nat]
      /\ m.drive \in [1 .. 4 -> Nat] /\ m.schmitt \in [1 .. 4 -> Nat] /\ m.slew \in [1 .. 4 -> Nat]
  <2> HIDE DEF m
  <2> QED BY <1>2, FieldTypes
<1>9. d = [e EXCEPT !.channel_type[1] = b[0] % 16, !.driver[1] = Bits(b[0], 16) \div 2,
                    !.clock_polarity = Bits(b[1], 1), !.data_order = Bits(b[1], 2),
                    !.flow_control = Bits(b[1], 4), !.powersave = Bits(b[1], 128),
                    !.drive   = FirstTwo(m.drive, e.drive),
                    !.schmitt = FirstTwo(m.schmitt, e.schmitt),
                    !.slew    = FirstTwo(m.slew, e.slew),
                    !.cbus = pins, !.chip = b[30]]
  <2>1. pins = [p \in 1 .. 10 |-> IF p % 2 = 1
                  THEN [q \in 1 .. 10 |-> b[24 + (q - 1) \div 2]][p] % 16
                  ELSE [q \in 1 .. 10 |-> b[24 + (q - 1) \div 2]][p] \div 16]
    OBVIOUS
  <2> HIDE DEF pins
  <2> QED BY <2>1 DEF Decoded232H
<1> HIDE DEF m, d, pins
<1>10. ChangesOnly(e, d, touched)
  BY <1>9 DEF ChangesOnly
<1>11. d.channel_type \in [1 .. 2 -> Nat]
  BY <1>3, <1>6, <1>7, <1>9
<1>12. d.driver \in [1 .. 4 -> Nat]
  BY <1>3, <1>6, <1>7, <1>9
<1>13. /\ d.drive = FirstTwo(m.drive, e.drive)
       /\ d.schmitt = FirstTwo(m.schmitt, e.schmitt)
       /\ d.slew = FirstTwo(m.slew, e.slew)
       /\ d.cbus = pins /\ d.chip = b[30]
  BY <1>6, <1>9
<1>14. /\ d.clock_polarity \in Nat /\ d.data_order \in Nat /\ d.flow_control \in Nat
       /\ d.powersave \in Nat
  BY <1>3, <1>6, <1>9
<1>15. /\ d.drive \in [1 .. 4 -> Nat] /\ d.schmitt \in [1 .. 4 -> Nat]
       /\ d.slew \in [1 .. 4 -> Nat]
  BY <1>8, <1>13, HalvesRight
<1>16. /\ FieldRight("channel_type", d.channel_type) /\ FieldRight("chip", d.chip)
       /\ FieldRight("cbus", d.cbus)
  BY <1>4, <1>5, <1>11, <1>13, OtherRight
<1>17. /\ FieldRight("driver", d.driver) /\ FieldRight("drive", d.drive)
       /\ FieldRight("schmitt", d.schmitt) /\ FieldRight("slew", d.slew)
  BY <1>12, <1>15, QuadRight DEF Quads
<1>18. /\ FieldRight("clock_polarity", d.clock_polarity) /\ FieldRight("data_order", d.data_order)
       /\ FieldRight("flow_control", d.flow_control) /\ FieldRight("powersave", d.powersave)
  BY <1>14, NumbersAre, NumberRight
<1>19. \A f \in touched : FieldRight(f, d[f])
  BY <1>16, <1>17, <1>18
<1> SUFFICES DecodedRight(e, d, b[30])
  BY DEF d
<1>20. "size" \notin touched
  OBVIOUS
<1> HIDE DEF touched
<1>21. StructRight(d) /\ ("size" \notin touched => d.size = e.size)
  BY <1>10, <1>19, TouchedRight
<1> QED BY <1>13, <1>20, <1>21 DEF DecodedRight

\* Decoding keeps the size; the chip is the byte the image names it by, if any.
LEMMA SpecificRight ==
  ASSUME NEW t \in Types, NEW old, StructRight(old), NEW b \in [Address -> Byte]
  PROVE  LET d == DecodedSpecific(t, old, b)
         IN  /\ StructRight(d) /\ d.size = old.size
             /\ t \in Older => d.chip = -1
             /\ t \in Types \ {"AM", "BM", "R"} => d.chip = b[TypeAddress(t)]
<1> DEFINE e == [old EXCEPT !.channel_type[1] = 0]
           d == DecodedSpecific(t, old, b)
<1>1. StructRight(e) /\ e.size = old.size
  BY ResetRight
<1>2. d = CASE t \in Older -> [e EXCEPT !.chip = -1]
            [] t = "2232C" -> Decoded2232C(e, b)
            [] t = "R"     -> DecodedR(e, b)
            [] t = "2232H" -> Decoded2232H(e, b)
            [] t = "4232H" -> Decoded4232H(e, b)
            [] t = "232H"  -> Decoded232H(e, b)
  BY DEF DecodedSpecific
<1> SUFFICES /\ StructRight(d) /\ d.size = old.size
             /\ t \in Older => d.chip = -1
             /\ t \in Types \ {"AM", "BM", "R"} => d.chip = b[TypeAddress(t)]
  OBVIOUS
<1> HIDE DEF e, d
<1>3. CASE t \in Older
  <2>1. d = [e EXCEPT !.chip = -1] /\ t \notin Types \ {"AM", "BM", "R"}
    BY <1>2, <1>3 DEF Older
  <2>2. FieldRight("chip", -1)
    BY OtherRight
  <2>3. StructRight(d)
    BY <1>1, <2>1, <2>2, OneField
  <2>4. "chip" \in DOMAIN e /\ "size" \in DOMAIN e
    BY <1>1 DEF StructRight, Blank
  <2>5. d.chip = -1 /\ d.size = e.size
    BY <2>1, <2>4
  <2> QED BY <1>1, <2>1, <2>3, <2>5
<1>4. CASE t = "2232C"
  BY <1>1, <1>2, <1>4, Right2232C DEF DecodedRight, TypeAddress, Older, Dual
<1>5. CASE t = "R"
  BY <1>1, <1>2, <1>5, RightR DEF DecodedRight, Older
<1>6. CASE t = "2232H"
  BY <1>1, <1>2, <1>6, Right2232H DEF DecodedRight, TypeAddress, Older, Dual
<1>7. CASE t = "4232H"
  BY <1>1, <1>2, <1>7, Right4232H DEF DecodedRight, TypeAddress, Older, Dual
<1>8. CASE t = "232H"
  BY <1>1, <1>2, <1>8, Right232H DEF DecodedRight, TypeAddress, Older, Dual
<1> QED BY <1>3, <1>4, <1>5, <1>6, <1>7, <1>8 DEF Types, Older, Dual

\* The defaults make a right structure that names no chip,
LEMMA DefaultsRight ==
  ASSUME NEW t \in Types, NEW m \in Seq(Byte), NEW p \in Seq(Byte), NEW s \in Seq(Byte)
  PROVE  StructRight(Defaults(t, m, p, s)) /\ Defaults(t, m, p, s).chip = 0
<1> DEFINE d0 == Blank
           v1 == 1027
           d1 == [d0 EXCEPT !.vendor_id = v1]
           v2 == 1
           d2 == [d1 EXCEPT !.use_serial = v2]
           v3 == ProductId(t)
           d3 == [d2 EXCEPT !.product_id = v3]
           v4 == IF t = "AM" THEN 257 ELSE 512
           d4 == [d3 EXCEPT !.usb_version = v4]
           v5 == IF t = "R" THEN 90 ELSE 100
           d5 == [d4 EXCEPT !.max_power = v5]
           v6 == m
           d6 == [d5 EXCEPT !.manufacturer = v6]
           v7 == p
           d7 == [d6 EXCEPT !.product = v7]
           v8 == s
           d8 == [d7 EXCEPT !.serial = v8]
           v9 == IF t = "R" THEN <<3, 2, 0, 1, 5, 0, 0, 0, 0, 0>> ELSE d8.cbus
           d9 == [d8 EXCEPT !.cbus = v9]
           v10 == IF t = "R" THEN 128 ELSE -1
           d10 == [d9 EXCEPT !.size = v10]
           v11 == TRUE
           d11 == [d10 EXCEPT !.initialized = v11]
<1>a. Defaults(t, m, p, s) = d11
  BY DEF Defaults
<1>b. StructRight(d0) /\ d0.chip = 0
  BY BlankRight DEF Blank
<1>c. /\ FieldRight("vendor_id", v1) /\ FieldRight("use_serial", v2)
      /\ FieldRight("product_id", v3) /\ FieldRight("usb_version", v4)
      /\ FieldRight("max_power", v5)
  <2>1. ProductId(t) \in Nat
    BY DEF ProductId, Types, Older, Dual
  <2> QED BY <2>1, NumbersAre, NumberRight
<1>d. FieldRight("manufacturer", v6) /\ FieldRight("product", v7) /\ FieldRight("serial", v8)
  <2>1. {"manufacturer", "product", "serial"} \subseteq Strings
    BY DEF Strings
  <2> QED BY <2>1, StringFieldRight
<1>e. FieldRight("size", v10) /\ FieldRight("initialized", v11)
  BY DEF FieldRight, Numbers, Strings, Quads
<1> HIDE DEF d0, v1, v2, v3, v4, v5, v6, v7, v8, v10, v11
<1>1. StructRight(d1) /\ d1.chip = 0
  BY ONLY <1>b, <1>c, OneField, ZenonT(60)
<1> HIDE DEF d1
<1>2. StructRight(d2) /\ d2.chip = 0
  BY ONLY <1>1, <1>c, OneField, ZenonT(60)
<1> HIDE DEF d2
<1>3. StructRight(d3) /\ d3.chip = 0
  BY ONLY <1>2, <1>c, OneField, ZenonT(60)
<1> HIDE DEF d3
<1>4. StructRight(d4) /\ d4.chip = 0
  BY ONLY <1>3, <1>c, OneField, ZenonT(60)
<1> HIDE DEF d4
<1>5. StructRight(d5) /\ d5.chip = 0
  BY ONLY <1>4, <1>c, OneField, ZenonT(60)
<1> HIDE DEF d5
<1>6. StructRight(d6) /\ d6.chip = 0
  BY ONLY <1>5, <1>d, OneField, ZenonT(60)
<1> HIDE DEF d6
<1>7. StructRight(d7) /\ d7.chip = 0
  BY ONLY <1>6, <1>d, OneField, ZenonT(60)
<1> HIDE DEF d7
<1>8. StructRight(d8) /\ d8.chip = 0
  BY ONLY <1>7, <1>d, OneField, ZenonT(60)
<1> HIDE DEF d8
<1>9. StructRight(d9) /\ d9.chip = 0
  <2>1. d8.cbus \in [1 .. 10 -> Nat]
    BY <1>8, FieldTypes
  <2>2. <<3, 2, 0, 1, 5, 0, 0, 0, 0, 0>> \in [1 .. 10 -> Nat]
    OBVIOUS
  <2>3. FieldRight("cbus", v9)
    BY <2>1, <2>2, OtherRight
  <2> HIDE DEF v9
  <2> QED BY ONLY <1>8, <2>3, OneField, ZenonT(60)
<1> HIDE DEF d9
<1>10. StructRight(d10) /\ d10.chip = 0
  <2>1. "chip" \in DOMAIN d9
    BY <1>9 DEF StructRight, Blank
  <2>2. d10.chip = d9.chip
    BY <2>1
  <2> QED BY ONLY <1>9, <1>e, <2>2, OneField, ZenonT(60)
<1> HIDE DEF d10
<1>11. StructRight(d11) /\ d11.chip = 0
  BY ONLY <1>10, <1>e, OneField, ZenonT(60)
<1> HIDE DEF d11
<1> QED BY <1>a, <1>11

\* what a client sets leaves it right, changes no room, and the chip only to what it says,
LEMMA ValuesRight ==
  ASSUME NEW e, StructRight(e), NEW values, Settings(values)
  PROVE  LET d == WithValues(e, values)
         IN  /\ StructRight(d) /\ d.size = e.size
             /\ d.chip = e.chip \/ d.chip \in Claims(values)
             /\ Claims(values) \subseteq Int
             /\ \A t : Room(t, d) = Room(t, e)
<1> DEFINE d == WithValues(e, values)
<1>1. DOMAIN d = DOMAIN e
  BY DEF WithValues
<1>2. \A f \in DOMAIN e : d[f] = IF f \in DOMAIN values THEN values[f] ELSE e[f]
  BY DEF WithValues
<1> HIDE DEF d
<1>3. /\ "size" \notin Settable /\ "manufacturer" \notin Settable
      /\ "product" \notin Settable /\ "serial" \notin Settable
  BY DEF Settable, Numbers, Quads
<1>4. /\ "chip" \in DOMAIN e /\ "size" \in DOMAIN e /\ "manufacturer" \in DOMAIN e
      /\ "product" \in DOMAIN e /\ "serial" \in DOMAIN e
  BY DEF StructRight, Blank
<1>5. DOMAIN values \subseteq Settable
  BY DEF Settings
<1>6. /\ d.size = e.size /\ d.manufacturer = e.manufacturer
      /\ d.product = e.product /\ d.serial = e.serial
  BY <1>2, <1>3, <1>4, <1>5
<1>7. \A f \in DOMAIN values : FieldRight(f, values[f])
  <2> TAKE f \in DOMAIN values
  <2>1. f \in Numbers \cup Quads \cup {"channel_type", "cbus", "chip"}
    BY <1>5 DEF Settable
  <2>2. CASE f \in Numbers
    BY <2>2, NumberRight DEF Settings
  <2>3. CASE f \in Quads
    BY <2>3, QuadRight DEF Settings
  <2>4. CASE f \in {"channel_type", "cbus", "chip"}
    BY <2>4, OtherRight DEF Settings
  <2> QED BY <2>1, <2>2, <2>3, <2>4
<1>8. StructRight(d)
  BY <1>1, <1>2, <1>7, Changed
<1>9. \A t : Room(t, d) = Room(t, e)
  BY <1>6 DEF Room
<1>10. d.chip = e.chip \/ d.chip \in Claims(values)
  BY <1>2, <1>4 DEF Claims
<1>11. Claims(values) \subseteq Int
  BY DEF Claims, Settings
<1> QED BY <1>6, <1>8, <1>9, <1>10, <1>11 DEF d

\* and so does the size build assumes.
LEMMA SizedRight ==
  ASSUME NEW t \in Types, NEW e, StructRight(e)
  PROVE  LET d == [e EXCEPT !.size = BuildSize(e.chip)]
         IN  /\ StructRight(d) /\ d.chip = e.chip /\ d.size = BuildSize(d.chip)
             /\ Room(t, d) = Room(t, e)
<1> DEFINE d == [e EXCEPT !.size = BuildSize(e.chip)]
<1>1. FieldRight("size", BuildSize(e.chip))
  BY DEF FieldRight, Numbers, Strings, Quads, BuildSize
<1>2. StructRight(d)
  BY <1>1, OneField
<1>3. /\ d.chip = e.chip /\ d.size = BuildSize(e.chip) /\ d.manufacturer = e.manufacturer
      /\ d.product = e.product /\ d.serial = e.serial
  BY DEF StructRight, Blank
<1> SUFFICES /\ StructRight(d) /\ d.chip = e.chip /\ d.size = BuildSize(d.chip)
             /\ Room(t, d) = Room(t, e)
  OBVIOUS
<1> HIDE DEF d
<1> QED BY <1>2, <1>3 DEF Room

-----------------------------------------------------------------------------
(* The inductive invariant.  Beside the types it says that no byte that    *)
(* can come to stand where an image names its chip names a larger chip     *)
(* than the one there is, so that decode cannot find one there, and        *)
(* write_location cannot take the chip for a 93x66, until the client has   *)
(* said so.                                                                *)

\* A small chip of a BM has a string there.
Forbidden(t, n) == CASE t \in {"AM", "R"} \/ n = 256 -> {}
                     [] t = "BM" /\ n # 256 -> {102}
                     [] OTHER -> Larger(n)

\* A type with a chip.
Pair(t, n) == t \in Types /\ n \in {64, 128, 256}

\* The words of the largest chip that may come to be named.
Limit == IF Honest THEN words ELSE 256

\* For chips of n words at most: of a chip, of buf (with the half a chip of 64 words wraps to), of the structure and of
\* an image that was built.
GoodChip(t, n, c) == Low(c[TypeAddress(t) \div 2]) \notin Forbidden(t, n)

GoodBuf(t, n, b) == /\ b \in [Address -> Byte]
                    /\ b[TypeAddress(t)] \notin Forbidden(t, n)
                    /\ n = 64 => b[TypeAddress(t) + 128] \notin Forbidden(t, n)

GoodStruct(t, n, e) == StructRight(e) /\ (t # "R" => Low(e.chip) \notin Larger(n))

GoodImage(t, n, i) == /\ Fits(t, i.of) /\ GoodStruct(t, n, i.of)
                      /\ i.of.size = BuildSize(i.of.chip)
                      /\ i.buf = Image(t, i.of)

IInv == /\ <<type, words>> \in Chips
        /\ chip \in [0 .. words - 1 -> Word]
        /\ claimed \subseteq Int
        /\ GoodChip(type, Limit, chip)
        /\ GoodBuf(type, Limit, buf)
        /\ GoodStruct(type, Limit, eeprom)
        /\ \A i \in images : GoodImage(type, Limit, i)
        /\ faults \in 0 .. MaxFaults
        /\ calls \in 0 .. MaxCalls

\* A device of the constants is one the lemmas are about.
LEMMA Pairs == ASSUME <<type, words>> \in Chips PROVE Pair(type, words)
  BY EepromAssumption DEF Pair

\* What is good for chips of some number of words is good for the largest.
LEMMA Weaker ==
  ASSUME NEW t, NEW n
  PROVE  /\ \A c : GoodChip(t, 256, c)
         /\ \A b : GoodBuf(t, n, b) => GoodBuf(t, 256, b)
         /\ \A e : GoodStruct(t, n, e) => GoodStruct(t, 256, e)
         /\ \A i : GoodImage(t, n, i) => GoodImage(t, 256, i)
<1>1. Forbidden(t, 256) = {}
  BY DEF Forbidden
<1>2. Larger(256) = {}
  BY DEF Larger
<1> QED BY <1>1, <1>2 DEF GoodChip, GoodBuf, GoodStruct, GoodImage

\* The limit is that of the chip, or none; saying more of the chip leaves it or lifts it.
LEMMA LimitIs ==
  ASSUME <<type, words>> \in Chips
  PROVE  /\ Pair(type, words) /\ Pair(type, Limit) /\ Limit \in {words, 256}
         /\ Honest => Limit = words
         /\ UNCHANGED <<type, words, claimed>> => Limit' = Limit
         /\ UNCHANGED <<type, words>> /\ claimed \subseteq claimed' =>
               Limit' = Limit \/ (Limit' = 256 /\ ~Honest')
<1>1. Pair(type, words)
  BY Pairs
<1>2. Pair(type, Limit) /\ Limit \in {words, 256} /\ (Honest => Limit = words)
  BY <1>1 DEF Limit, Pair
<1>3. UNCHANGED <<type, words, claimed>> => Limit' = Limit
  BY DEF Limit, Honest
<1>4. ASSUME UNCHANGED <<type, words>>, claimed \subseteq claimed'
      PROVE  Limit' = Limit \/ (Limit' = 256 /\ ~Honest')
  <2>1. Honest' => Honest
    BY <1>4 DEF Honest
  <2>2. Limit' = IF Honest' THEN words ELSE 256
    BY <1>4 DEF Limit
  <2> QED BY <2>1, <2>2 DEF Limit
<1> QED BY <1>1, <1>2, <1>3, <1>4

\* Where a chip is named.
LEMMA TypeAddresses ==
  ASSUME NEW t \in Types \ {"AM", "R"}
  PROVE  TypeAddress(t) \in {20, 24, 30}
  BY DEF TypeAddress, Types, Older, Dual

\* Where a byte is forbidden, the type names its chip in an image or puts a
\* string there.
LEMMA ForbiddenIs ==
  ASSUME NEW t, NEW n, Pair(t, n), NEW x \in Forbidden(t, n)
  PROVE  /\ t \in Types \ {"AM", "R"} /\ n \in {64, 128} /\ x \in {86, 102}
         /\ t = "BM" => x = 102
         /\ t # "BM" => x \in Larger(n)
  BY DEF Pair, Forbidden, Larger

\* With either limit it is a byte that is forbidden for the chip there is.
LEMMA ForbiddenHere ==
  ASSUME Pair(type, words), NEW m \in {words, 256}, NEW x \in Forbidden(type, m)
  PROVE  m = words /\ type \in Types \ {"AM", "R"} /\ words \in {64, 128}
  BY ForbiddenIs DEF Pair

\* Bytes of empty, erased and marked chips name none.
LEMMA NotForbidden ==
  ASSUME NEW t, NEW n, Pair(t, n)
  PROVE  0 \notin Forbidden(t, n) /\ 255 \notin Forbidden(t, n) /\ 170 \notin Forbidden(t, n)
  BY ForbiddenIs

\* What an image holds there.
LEMMA ImageNames ==
  ASSUME NEW t, NEW n, Pair(t, n), NEW e, Fits(t, e), GoodStruct(t, n, e)
  PROVE  GoodBuf(t, n, Image(t, e))
<1> DEFINE i == Image(t, e)
           size == BuildSize(e.chip)
           b == Body(t, e)
           at == TypeAddress(t)
<1>1. i \in [Address -> Byte] /\ \A a \in Address \ {size - 2, size - 1} : i[a] = b[a]
  BY ImageIs
<1>2. size \in {128, 256}
  BY BuildSizes
<1>3. size = 128 => \A a \in Address : a >= 128 => b[a] = 0
  BY BodyMarks
<1>5. ASSUME NEW x \in Forbidden(t, n)
      PROVE  i[at] # x /\ (n = 64 => i[at + 128] # x)
  <2>1. /\ t \in Types \ {"AM", "R"} /\ n \in {64, 128} /\ x \in {86, 102}
        /\ t = "BM" => x = 102
        /\ t # "BM" => x \in Larger(n)
    BY <1>5, ForbiddenIs
  <2>2. at \in {20, 24, 30}
    BY <2>1, TypeAddresses
  <2>3. IF t = "BM" THEN b[at] \in 0 .. 98 ELSE b[at] = Low(e.chip)
    BY <2>1, TypeByte
  <2>4. Low(e.chip) \notin Larger(n)
    BY <2>1 DEF GoodStruct
  <2>5. n = 64 => size = 128
    <3>1. e.chip \in {86, 102} => Low(e.chip) = e.chip
      BY DEF Low
    <3> QED BY <2>4, <3>1 DEF Larger, BuildSize
  <2>6. t # "BM" => Low(e.chip) # x
    BY <2>1, <2>4
  <2> HIDE DEF i, size, b, at
  <2>7. b[at] # x
    BY <2>1, <2>3, <2>6
  <2>8. at \in Address \ {size - 2, size - 1}
    BY <1>2, <2>2, AddressRange
  <2>9. size = 128 => at + 128 \in Address \ {size - 2, size - 1} /\ at + 128 >= 128
    BY <2>2, AddressRange
  <2>10. n = 64 => i[at + 128] = 0
    BY <1>1, <1>3, <2>5, <2>9
  <2> QED BY <1>1, <2>1, <2>7, <2>8, <2>10
<1> QED BY <1>1, <1>5 DEF GoodBuf

\* The bytes of a word, and the word of two bytes.
LEMMA ByteWordIs ==
  ASSUME NEW b \in [Address -> Byte], NEW w \in 0 .. 127
  PROVE  /\ ByteWord(b, w) \in Word
         /\ Low(ByteWord(b, w)) = b[2 * w] /\ High(ByteWord(b, w)) = b[2 * w + 1]
<1>1. 2 * w \in Address /\ 2 * w + 1 \in Address
  BY AddressRange
<1>2. b[2 * w] \in Byte /\ b[2 * w + 1] \in Byte
  BY <1>1
<1> DEFINE x == b[2 * w]
           y == b[2 * w + 1]
<1>3. ByteWord(b, w) = x + 256 * y
  BY DEF ByteWord
<1>4. x \in Byte /\ y \in Byte
  BY <1>2
<1> HIDE DEF x, y
<1>5. x + 256 * y \in Word /\ Low(x + 256 * y) = x /\ High(x + 256 * y) = y
  BY <1>4, WordOfBytes
<1> QED BY <1>3, <1>5 DEF x, y

\* An address is one of a word's two.
LEMMA AddressHalves ==
  ASSUME NEW a \in Address
  PROVE  /\ a \in Nat /\ a \div 2 \in 0 .. 127
         /\ a % 2 = 0 => a = 2 * (a \div 2)
         /\ a % 2 # 0 => a = 2 * (a \div 2) + 1
<1>1. a \in Nat /\ a < 256
  BY AddressRange
<1> QED BY <1>1

\* Where the byte that names the chip is on a small chip.
LEMMA SmallPlaces ==
  ASSUME NEW t \in Types \ {"AM", "R"}, NEW n \in {64, 128}
  PROVE  LET at == TypeAddress(t)
         IN  /\ at \in Address /\ at % 2 = 0 /\ at \div 2 \in 0 .. n - 1 /\ 2 * (at \div 2) = at
             /\ (at \div 2) % n = at \div 2
             /\ n = 64 => /\ at + 128 \in Address /\ (at + 128) % 2 = 0
                          /\ ((at + 128) \div 2) % n = at \div 2
<1>1. TypeAddress(t) \in {20, 24, 30}
  BY TypeAddresses
<1> HIDE DEF TypeAddress
<1> QED BY <1>1, AddressRange

\* Reading any number of words keeps buf good: no larger chip comes to be named,
\* nor in the half a wrap would put it.
LEMMA ReadWords ==
  ASSUME Pair(type, words), chip \in [0 .. words - 1 -> Word], NEW m \in {words, 256},
         GoodChip(type, m, chip), GoodBuf(type, m, buf), NEW k \in Nat
  PROVE  GoodBuf(type, m, BufRead(k))
<1> DEFINE b == BufRead(k)
<1>1. \A a \in Address : b[a] = IF a >= 2*k THEN buf[a]
                                ELSE IF a % 2 = 0 THEN Low(chip[(a \div 2) % words])
                                     ELSE High(chip[(a \div 2) % words])
  BY DEF BufRead
<1>2. b = [a \in Address |-> b[a]]
  BY DEF BufRead
<1> HIDE DEF b
<1>3. ASSUME NEW a \in Address PROVE b[a] \in Byte
  <2>1. buf[a] \in Byte
    BY DEF GoodBuf
  <2>2. (a \div 2) % words \in 0 .. words - 1
    <3>1. a \div 2 \in Nat /\ words \in {64, 128, 256}
      BY AddressHalves DEF Pair
    <3> QED BY <3>1
  <2> DEFINE w == chip[(a \div 2) % words]
  <2>3. w \in Word
    BY <2>2
  <2>4. b[a] = buf[a] \/ b[a] = Low(w) \/ b[a] = High(w)
    BY <1>1
  <2> HIDE DEF w
  <2>5. Low(w) \in Byte /\ High(w) \in Byte
    BY <2>3, BytesOfWord
  <2> QED BY <2>1, <2>4, <2>5
<1>4. ASSUME NEW x \in Forbidden(type, m)
      PROVE  /\ b[TypeAddress(type)] # x
             /\ m = 64 => b[TypeAddress(type) + 128] # x
  <2> DEFINE at == TypeAddress(type)
  <2>1. type \in Types \ {"AM", "R"} /\ words \in {64, 128} /\ m = words
    BY <1>4, ForbiddenHere
  <2>2. /\ at \in Address /\ at % 2 = 0
        /\ (at \div 2) % words = at \div 2
        /\ words = 64 => /\ at + 128 \in Address /\ (at + 128) % 2 = 0
                         /\ ((at + 128) \div 2) % words = at \div 2
    BY <2>1, SmallPlaces
  <2>3. buf[at] # x /\ (words = 64 => buf[at + 128] # x) /\ Low(chip[at \div 2]) # x
    BY <1>4, <2>1 DEF GoodBuf, GoodChip
  <2> HIDE DEF at
  <2>4. b[at] # x
    BY <1>1, <2>2, <2>3
  <2>5. words = 64 => b[at + 128] # x
    BY <1>1, <2>2, <2>3
  <2> QED BY <2>1, <2>4, <2>5 DEF at
<1>5. b \in [Address -> Byte]
  BY <1>2, <1>3
<1> QED BY <1>4, <1>5 DEF GoodBuf, b

\* The word of buf that is written last to the word w of n, of the first k.
From(k, w, n) == w + n * ((k - 1 - w) \div n)

\* It is the same word, or the one that wraps around to it.
Lands(k, w, n) == /\ From(k, w, n) \in 0 .. 127
                  /\ From(k, w, n) = w \/ (n = 64 /\ From(k, w, n) = w + 64)

\* That is so for each word of each chip.
LEMMA LastWritten ==
  ASSUME NEW n \in {64, 128, 256}, NEW k \in 0 .. 128, NEW w \in 0 .. n - 1, w < k
  PROVE  Lands(k, w, n)
<1> DEFINE over == k - 1 - w
<1>1. over \in 0 .. 127 /\ From(k, w, n) = w + n * (over \div n) /\ w + over = k - 1
  BY DEF From
<1> HIDE DEF over
<1>2. over \div n = 0 \/ (n = 64 /\ over >= 64 /\ over \div n = 1)
  BY <1>1
<1>3. CASE over \div n = 0
  BY <1>1, <1>3 DEF Lands
<1>4. CASE n = 64 /\ over >= 64 /\ over \div n = 1
  BY <1>1, <1>4 DEF Lands
<1> QED BY <1>2, <1>3, <1>4

\* Neither does it on the chip, after any number of words written.
LEMMA WriteWords ==
  ASSUME Pair(type, words), chip \in [0 .. words - 1 -> Word], NEW m \in {words, 256},
         GoodChip(type, m, chip), GoodBuf(type, m, buf), NEW k \in 0 .. 128
  PROVE  ChipWritten(k) \in [0 .. words - 1 -> Word] /\ GoodChip(type, m, ChipWritten(k))
<1>b. buf \in [Address -> Byte]
  BY ONLY GoodBuf(type, m, buf) DEF GoodBuf
<1>v. ASSUME NEW v \in 0 .. 127
      PROVE  ByteWord(buf, v) \in Word /\ Low(ByteWord(buf, v)) = buf[2 * v]
  BY ONLY <1>b, v \in 0 .. 127, ByteWordIs
<1> DEFINE c == ChipWritten(k)
           from(w) == From(k, w, words)
<1>1. \A w \in 0 .. words - 1 : c[w] = IF w >= k THEN chip[w] ELSE ByteWord(buf, from(w))
  BY Zenon DEF ChipWritten, All, From
<1>2. c = [w \in 0 .. words - 1 |-> c[w]]
  BY DEF ChipWritten, All
<1>3. words \in {64, 128, 256}
  BY DEF Pair
<1>4. ASSUME NEW w \in 0 .. words - 1, w < k
      PROVE  from(w) \in 0 .. 127 /\ (from(w) = w \/ (words = 64 /\ from(w) = w + 64))
  <2>1. Lands(k, w, words)
    BY ONLY <1>3, <1>4, k \in 0 .. 128, LastWritten, Zenon
  <2> QED BY <2>1, Zenon DEF Lands
<1> HIDE DEF c, from
<1>5. ASSUME NEW w \in 0 .. words - 1 PROVE c[w] \in Word
  <2>1. CASE w >= k
    BY <1>1, <2>1
  <2>2. CASE ~(w >= k)
    <3>1. w < k
      BY <1>3, <2>2
    <3>2. from(w) \in 0 .. 127
      BY <1>4, <3>1
    <3>3. ByteWord(buf, from(w)) \in Word
      BY <1>v, <3>2
    <3> QED BY <1>1, <2>2, <3>3
  <2> QED BY <2>1, <2>2
<1>6. ASSUME NEW x \in Forbidden(type, m)
      PROVE  Low(c[TypeAddress(type) \div 2]) # x
  <2> DEFINE at == TypeAddress(type)
             w == at \div 2
  <2>0. m = words
    BY <1>6, ForbiddenHere
  <2>1. type \in Types \ {"AM", "R"} /\ words \in {64, 128}
    BY <1>6, ForbiddenHere
  <2>2. w \in 0 .. words - 1 /\ 2 * w = at /\ at \in Address
    BY ONLY <2>1, SmallPlaces
  <2>3. buf[at] # x /\ (words = 64 => buf[at + 128] # x) /\ Low(chip[w]) # x
    BY <1>6, <2>0 DEF GoodBuf, GoodChip
  <2> SUFFICES Low(c[w]) # x
    OBVIOUS
  <2> HIDE DEF at, w
  <2>4. CASE w >= k
    BY <1>1, <2>2, <2>3, <2>4
  <2>5. CASE ~(w >= k)
    <3>1. w < k
      BY <1>3, <2>2, <2>5
    <3>2. /\ from(w) \in 0 .. 127
          /\ from(w) = w \/ (words = 64 /\ from(w) = w + 64)
      BY <1>4, <2>2, <3>1
    <3>3. Low(ByteWord(buf, from(w))) = buf[2 * from(w)]
      BY ONLY <1>v, <3>2
    <3>4. 2 * from(w) = at \/ (words = 64 /\ 2 * from(w) = at + 128)
      BY <1>3, <2>2, <3>2
    <3>5. buf[2 * from(w)] # x
      BY <2>3, <3>4
    <3> QED BY <1>1, <2>2, <2>5, <3>3, <3>5
  <2> QED BY <2>4, <2>5
<1> QED BY <1>2, <1>5, <1>6 DEF GoodChip, c

-----------------------------------------------------------------------------
(* The steps.                                                              *)

\* An image built for a good structure is good, and so is buf.
LEMMA ImageGood ==
  ASSUME NEW m, Pair(type, m), NEW e, GoodStruct(type, m, e), Room(type, e) >= 0
  PROVE  LET i == ImageOf(e)
         IN  /\ GoodImage(type, m, i) /\ GoodStruct(type, m, i.of)
             /\ GoodBuf(type, m, i.buf) /\ i.of.chip = e.chip
<1> DEFINE d == [e EXCEPT !.size = BuildSize(e.chip)]
           i == ImageOf(e)
<1>1. i.of = d /\ i.buf = Image(type, d)
  BY DEF ImageOf
<1>2. type \in Types /\ StructRight(e)
  BY DEF Pair, GoodStruct
<1>3. /\ StructRight(d) /\ d.chip = e.chip /\ d.size = BuildSize(d.chip)
      /\ Room(type, d) = Room(type, e)
  BY <1>2, SizedRight
<1> SUFFICES /\ GoodImage(type, m, i) /\ GoodStruct(type, m, i.of)
             /\ GoodBuf(type, m, i.buf) /\ i.of.chip = e.chip
  OBVIOUS
<1> HIDE DEF d, i
<1>4. Fits(type, d) /\ GoodStruct(type, m, d)
  BY <1>2, <1>3 DEF Fits, GoodStruct
<1>5. GoodBuf(type, m, Image(type, d))
  BY <1>4, ImageNames
<1> QED BY <1>1, <1>3, <1>4, <1>5 DEF GoodImage

\* The kind of chip there is: not larger than it is, and what the probes find.
LEMMA KindIs ==
  ASSUME Pair(type, words)
  PROVE  /\ type = "R" => Kind = 0
         /\ type # "R" => /\ Kind = CASE words = 64 -> 70 [] words = 128 -> 86 [] OTHER -> 102
                          /\ Kind \notin Larger(words)
                          /\ Probed = Kind
         /\ Kind \in {0, 70, 86, 102} /\ Low(Kind) = Kind
<1>1. words \in {64, 128, 256}
  BY DEF Pair
<1>2. /\ type = "R" => Kind = 0
      /\ type # "R" => Kind = CASE words = 64 -> 70 [] words = 128 -> 86 [] OTHER -> 102
  BY <1>1 DEF Kind
<1>3. Kind \in {0, 70, 86, 102}
  BY <1>1, <1>2
<1>4. Low(Kind) = Kind
  BY <1>3 DEF Low
<1>5. CASE words = 64
  <2>1. Marked[0] = Magic
    <3>1. 192 % words = 0 /\ 0 \in 0 .. words - 1
      BY <1>5
    <3> QED BY <3>1 DEF Marked, Erased, All
  <2>2. Probed = 70
    BY <2>1 DEF Probed
  <2> QED BY <1>2, <1>3, <1>4, <1>5, <2>2 DEF Larger
<1>6. CASE words = 128
  <2>1. Marked[0] # Magic /\ Marked[64 % words] = Magic
    <3>1. 192 % words = 64 /\ 64 % words = 64 /\ 0 \in 0 .. words - 1 /\ 64 \in 0 .. words - 1
      BY <1>6
    <3> QED BY <3>1 DEF Marked, Erased, All, Magic
  <2>2. Probed = 86
    BY <2>1 DEF Probed
  <2> QED BY <1>2, <1>3, <1>4, <1>6, <2>2 DEF Larger
<1>7. CASE words = 256
  <2>1. Marked[0] # Magic /\ Marked[64 % words] # Magic /\ Marked[192 % words] = Magic
    BY <1>7 DEF Marked, Erased, All, Magic
  <2>2. Probed = 102
    BY <2>1 DEF Probed
  <2> QED BY <1>2, <1>3, <1>4, <1>7, <2>2 DEF Larger
<1> QED BY <1>1, <1>2, <1>5, <1>6, <1>7

\* An erased and a marked chip are good.
LEMMA ErasedGood ==
  ASSUME Pair(type, words), NEW m \in {words, 256}
  PROVE  /\ Erased \in [0 .. words - 1 -> Word] /\ GoodChip(type, m, Erased)
         /\ Marked \in [0 .. words - 1 -> Word] /\ GoodChip(type, m, Marked)
<1>1. words \in {64, 128, 256}
  BY DEF Pair
<1>2. 65535 \in Word /\ Magic \in Word /\ Low(65535) = 255 /\ Low(Magic) = 170
  BY DEF Word, Magic, Low
<1>3. Erased \in [0 .. words - 1 -> Word] /\ Marked \in [0 .. words - 1 -> Word]
  BY <1>1, <1>2 DEF Erased, Marked, All
<1>4. \A w \in 0 .. words - 1 : /\ Erased[w] = 65535
                                /\ Marked[w] = 65535 \/ Marked[w] = Magic
  BY <1>1 DEF Erased, Marked, All
<1>5. ASSUME NEW x \in Forbidden(type, m)
      PROVE  /\ Low(Erased[TypeAddress(type) \div 2]) # x
             /\ Low(Marked[TypeAddress(type) \div 2]) # x
  <2> DEFINE w == TypeAddress(type) \div 2
  <2>1. w \in 0 .. words - 1 /\ m = words
    BY <1>5, ForbiddenHere, SmallPlaces
  <2>2. x # 255 /\ x # 170
    BY <1>5, <2>1, NotForbidden
  <2> HIDE DEF w
  <2>3. Low(Erased[w]) # x /\ Low(Marked[w]) # x
    BY <1>2, <1>4, <2>1, <2>2
  <2> QED BY <2>3 DEF w
<1> QED BY <1>3, <1>5 DEF GoodChip

\* A C string is made of bytes, none of which is NUL.
LEMMA CStringBytes ==
  ASSUME NEW s \in CStrings
  PROVE  s \in Seq(Byte) /\ Len(s) \in Nat /\ \A k \in 1 .. Len(s) : s[k] \in Byte /\ s[k] # 0
<1>1. s \in Seq(Byte \ {0}) /\ Len(s) \in Nat
  BY DEF CStrings
<1>2. \A k \in 1 .. Len(s) : s[k] \in Byte /\ s[k] # 0
  BY <1>1
<1>3. s \in [1 .. Len(s) -> Byte]
  BY <1>1, <1>2
<1> QED BY <1>1, <1>2, <1>3

\* The defaults of the constants are good.
LEMMA NamesRight ==
  ASSUME <<type, words>> \in Chips, NEW d \in DefaultsOf(type)
  PROVE  d.chip = 0 /\ \A m : GoodStruct(type, m, d)
<1>1. PICK n \in Names[type] : d = Defaults(type, n[1], n[2], n[3])
  BY DEF DefaultsOf
<1>2. n[1] \in Seq(Byte) /\ n[2] \in Seq(Byte) /\ n[3] \in Seq(Byte)
  <2>1. n[1] \in CStrings /\ n[2] \in CStrings /\ n[3] \in CStrings
    BY <1>1, EepromAssumption
  <2> QED BY <2>1, CStringBytes
<1>3. type \in Types
  BY Pairs DEF Pair
<1>4. StructRight(d) /\ d.chip = 0
  BY <1>1, <1>2, <1>3, DefaultsRight
<1>5. \A m : Low(0) \notin Larger(m)
  BY DEF Low, Larger
<1> QED BY <1>4, <1>5 DEF GoodStruct

\* An empty buf is good.
LEMMA ZeroGood ==
  ASSUME Pair(type, words), NEW m \in {words, 256}
  PROVE  GoodBuf(type, m, [a \in Address |-> 0])
<1> DEFINE z == [a \in Address |-> 0]
<1>1. z \in [Address -> Byte] /\ \A a \in Address : z[a] = 0
  BY DEF Byte
<1> SUFFICES GoodBuf(type, m, z)
  OBVIOUS
<1> HIDE DEF z
<1>2. ASSUME NEW x \in Forbidden(type, m)
      PROVE  z[TypeAddress(type)] # x /\ (m = 64 => z[TypeAddress(type) + 128] # x)
  <2>1. /\ TypeAddress(type) \in Address
        /\ m = 64 => TypeAddress(type) + 128 \in Address
    BY <1>2, ForbiddenHere, SmallPlaces
  <2>2. m = words /\ x # 0
    BY <1>2, ForbiddenHere, NotForbidden
  <2> QED BY <1>1, <2>1, <2>2
<1> QED BY <1>1, <1>2 DEF GoodBuf

\* The invariant holds at first,
LEMMA InitGood == Init => IInv
<1> SUFFICES ASSUME Init PROVE IInv
  OBVIOUS
<1>1. <<type, words>> \in Chips
  <2>1. PICK c \in Chips : type = c[1] /\ words = c[2]
    BY DEF Init
  <2>2. c = <<c[1], c[2]>>
    BY EepromAssumption
  <2> QED BY <2>1, <2>2
<1>2. /\ Pair(type, words) /\ type \in Types
      /\ Limit \in {words, 256} /\ Pair(type, Limit) /\ (Honest => Limit = words)
  BY <1>1, LimitIs DEF Pair
<1>3. faults \in 0 .. MaxFaults /\ calls \in 0 .. MaxCalls
  BY EepromAssumption DEF Init
<1>4. CASE InitFresh
  <2>1. chip = Erased
    BY <1>4 DEF InitFresh, Erased
  <2>2. chip \in [0 .. words - 1 -> Word] /\ GoodChip(type, Limit, chip)
    BY <1>2, <2>1, ErasedGood
  <2>3. GoodBuf(type, Limit, buf)
    BY <1>2, <1>4, ZeroGood DEF InitFresh
  <2>4. GoodStruct(type, Limit, eeprom)
    <3>1. CASE eeprom = Blank
      <4>1. Low(eeprom.chip) = 0
        BY <3>1 DEF Blank, Low
      <4>2. 0 \notin Larger(Limit)
        BY DEF Larger
      <4> QED BY <3>1, <4>1, <4>2, BlankRight DEF GoodStruct
    <3>2. CASE eeprom \in DefaultsOf(type)
      BY <1>1, <3>2, NamesRight
    <3> QED BY <1>4, <3>1, <3>2 DEF InitFresh
  <2>5. images = {} /\ claimed = {}
    BY <1>4 DEF InitFresh
  <2> QED BY <1>1, <1>3, <2>2, <2>3, <2>4, <2>5 DEF IInv
<1>5. CASE InitProgrammed
  <2>1. PICK d \in DefaultsOf(type), v \in Values[type] : Programmed(d, v)
    BY <1>5 DEF InitProgrammed
  <2> DEFINE e == [d EXCEPT !.chip = Kind]
             f == WithValues(e, v)
             written == ImageOf(e)
             built == ImageOf(f)
  <2>2. /\ Room(type, e) >= 0 /\ claimed = Claims(v)
        /\ eeprom = built.of /\ buf = built.buf /\ images = {written, built}
        /\ chip = [w \in All |-> IF w < written.of.size \div 2 THEN ByteWord(written.buf, w)
                                 ELSE 65535]
    BY <2>1 DEF Programmed
  <2>3. StructRight(e) /\ e.chip = Kind /\ \A m \in {words, 256} : GoodStruct(type, m, e)
    <3>1. StructRight(d)
      BY <1>1, NamesRight DEF GoodStruct
    <3>2. FieldRight("chip", Kind)
      BY <1>2, KindIs, OtherRight
    <3>3. StructRight(e)
      BY <3>1, <3>2, OneField
    <3>4. e.chip = Kind
      BY <3>1 DEF StructRight, Blank
    <3> HIDE DEF e
    <3>5. GoodStruct(type, words, e)
      BY <1>2, <3>3, <3>4, KindIs DEF GoodStruct
    <3> QED BY <3>3, <3>4, <3>5, Weaker
  <2> HIDE DEF e
  <2>4. Settings(v)
    BY <1>1, EepromAssumption
  <2>5. /\ StructRight(f) /\ Room(type, f) = Room(type, e)
        /\ f.chip = e.chip \/ f.chip \in claimed
        /\ claimed \subseteq Int
    BY <2>2, <2>3, <2>4, ValuesRight
  <2> HIDE DEF f
  <2>6. GoodStruct(type, Limit, f)
    <3>1. CASE Honest
      <4>1. Low(f.chip) \notin Larger(words) \/ f.chip = Kind
        BY <2>3, <2>5, <3>1 DEF Honest
      <4>2. type # "R" => Low(Kind) \notin Larger(words)
        BY <1>2, KindIs
      <4> QED BY <1>2, <2>5, <3>1, <4>1, <4>2 DEF GoodStruct
    <3>2. CASE ~Honest
      <4>1. Limit = 256
        BY <3>2 DEF Limit
      <4>2. Larger(256) = {}
        BY DEF Larger
      <4> QED BY <2>5, <4>1, <4>2 DEF GoodStruct
    <3> QED BY <3>1, <3>2
  <2>7. /\ GoodImage(type, Limit, written) /\ GoodBuf(type, Limit, written.buf)
        /\ GoodImage(type, Limit, built) /\ GoodStruct(type, Limit, built.of)
        /\ GoodBuf(type, Limit, built.buf)
    BY <1>2, <2>2, <2>3, <2>5, <2>6, ImageGood
  <2>8. written.of.size \in {128, 256}
    BY <2>7, BuildSizes DEF GoodImage
  <2> HIDE DEF written, built
  <2>9. chip \in [0 .. words - 1 -> Word] /\ GoodChip(type, Limit, chip)
    <3> DEFINE b == written.buf
               size == written.of.size
    <3>1. chip = [w \in 0 .. words - 1 |-> IF w < size \div 2 THEN ByteWord(b, w) ELSE 65535]
      BY <2>2 DEF All
    <3>2. GoodBuf(type, Limit, b) /\ b \in [Address -> Byte] /\ size \in {128, 256}
      BY <2>7, <2>8 DEF GoodBuf
    <3>3. words \in {64, 128, 256}
      BY <1>2 DEF Pair
    <3>4. 65535 \in Word /\ Low(65535) = 255
      BY DEF Word, Low
    <3> HIDE DEF b, size
    <3>5. ASSUME NEW w \in 0 .. words - 1
          PROVE  /\ chip[w] \in Word
                 /\ Low(chip[w]) = b[2 * w] \/ Low(chip[w]) = 255
      <4>1. CASE w < size \div 2
        <5>1. w \in 0 .. 127
          BY <3>2, <3>3, <4>1
        <5>2. chip[w] = ByteWord(b, w)
          BY <3>1, <4>1
        <5> QED BY <3>2, <5>1, <5>2, ByteWordIs
      <4>2. CASE ~(w < size \div 2)
        <5>1. chip[w] = 65535
          BY <3>1, <4>2
        <5> QED BY <3>4, <5>1
      <4> QED BY <4>1, <4>2
    <3>6. chip \in [0 .. words - 1 -> Word]
      BY <3>1, <3>5
    <3>7. ASSUME NEW x \in Forbidden(type, Limit)
          PROVE  Low(chip[TypeAddress(type) \div 2]) # x
      <4> DEFINE w == TypeAddress(type) \div 2
      <4>1. w \in 0 .. words - 1 /\ 2 * w = TypeAddress(type)
        BY <1>2, <3>7, ForbiddenHere, SmallPlaces
      <4>2. b[TypeAddress(type)] # x /\ x # 255
        BY <1>2, <3>2, <3>7, NotForbidden DEF GoodBuf
      <4> SUFFICES Low(chip[w]) # x
        OBVIOUS
      <4> HIDE DEF w
      <4> QED BY <3>5, <4>1, <4>2
    <3> QED BY <3>6, <3>7 DEF GoodChip
  <2> QED BY <1>1, <1>3, <2>2, <2>5, <2>7, <2>9 DEF IInv
<1> QED BY <1>4, <1>5 DEF Init

\* What a step leaves of the invariant when it keeps the device.
LEMMA Assembled ==
  ASSUME IInv, UNCHANGED <<type, words>>, claimed' \subseteq Int,
         chip' \in [0 .. words - 1 -> Word], GoodChip(type, Limit', chip'),
         GoodBuf(type, Limit', buf'), GoodStruct(type, Limit', eeprom'),
         \A i \in images' : GoodImage(type, Limit', i),
         faults' \in 0 .. MaxFaults, calls' \in 0 .. MaxCalls
  PROVE  IInv'
  BY DEF IInv

\* A call keeps the bound on calls,
LEMMA CallCounts ==
  ASSUME IInv, Call
  PROVE  calls' \in 0 .. MaxCalls
  BY EepromAssumption DEF IInv, Call

\* a failure that on failures.
LEMMA FaultCounts ==
  ASSUME IInv, Fails
  PROVE  faults' \in 0 .. MaxFaults
  BY EepromAssumption DEF IInv, Fails

\* A call that changes nothing keeps the invariant.
LEMMA RefusedGood ==
  ASSUME IInv, NEW call, NEW result, Refused(call, result)
  PROVE  IInv'
<1>1. UNCHANGED <<type, words, chip, eeprom, buf, images, claimed, faults, calls>>
  BY DEF Refused
<1>2. Limit' = Limit
  BY <1>1, LimitIs DEF IInv
<1> QED BY <1>1, <1>2, Assembled DEF IInv

\* At most the whole of buf is written.
LEMMA WordsToWriteIs ==
  ASSUME StructRight(eeprom)
  PROVE  WordsToWrite \in 0 .. 128
<1>1. eeprom.size \in {-1, 0, 64, 128, 256}
  BY FieldTypes
<1> QED BY <1>1 DEF WordsToWrite

\* The calls on the structure keep it,
LEMMA StructSteps ==
  ASSUME IInv, InitDefaults \/ SetValues \/ BuildTooLong \/ Build \/ Decode \/ SetBuf
  PROVE  IInv'
<1>1. /\ <<type, words>> \in Chips /\ Pair(type, words) /\ type \in Types
      /\ chip \in [0 .. words - 1 -> Word] /\ claimed \subseteq Int
      /\ Limit \in {words, 256} /\ Pair(type, Limit)
      /\ UNCHANGED <<type, words, claimed>> => Limit' = Limit
      /\ GoodChip(type, Limit, chip) /\ GoodBuf(type, Limit, buf)
      /\ GoodStruct(type, Limit, eeprom)
      /\ \A i \in images : GoodImage(type, Limit, i)
      /\ faults \in 0 .. MaxFaults
  BY LimitIs DEF IInv, Pair
<1>2. CASE InitDefaults
  <2>1. calls' \in 0 .. MaxCalls
    BY <1>2, CallCounts DEF InitDefaults
  <2>2. GoodStruct(type, Limit, eeprom')
    BY <1>1, <1>2, NamesRight DEF InitDefaults
  <2>3. GoodBuf(type, Limit, buf')
    BY <1>1, <1>2, ZeroGood DEF InitDefaults
  <2>4. UNCHANGED <<type, words, claimed, chip, images, faults>>
    BY <1>2 DEF InitDefaults, OnDevice
  <2> QED BY <1>1, <2>1, <2>2, <2>3, <2>4, Assembled
<1>3. CASE SetValues
  <2>1. calls' \in 0 .. MaxCalls
    BY <1>3, CallCounts DEF SetValues
  <2>2. PICK v \in Values[type] : /\ eeprom' = WithValues(eeprom, v)
                                 /\ claimed' = claimed \cup Claims(v)
    BY <1>3 DEF SetValues
  <2>3. Settings(v)
    BY <1>1, EepromAssumption
  <2>4. /\ StructRight(eeprom') /\ Claims(v) \subseteq Int
        /\ eeprom'.chip = eeprom.chip \/ eeprom'.chip \in claimed'
    BY <1>1, <2>2, <2>3, ValuesRight DEF GoodStruct
  <2>5. UNCHANGED <<type, words, chip, buf, images, faults>>
    BY <1>3 DEF SetValues
  <2>6. claimed' \subseteq Int /\ claimed \subseteq claimed'
    BY <1>1, <2>2, <2>4
  <2>7. Limit' = Limit \/ (Limit' = 256 /\ ~Honest')
    BY <1>1, <2>5, <2>6, LimitIs
  <2>8. /\ GoodChip(type, Limit', chip) /\ GoodBuf(type, Limit', buf)
        /\ GoodStruct(type, Limit', eeprom)
        /\ \A i \in images : GoodImage(type, Limit', i)
    BY <1>1, <2>7, Weaker
  <2>9. GoodStruct(type, Limit', eeprom')
    <3>1. CASE Honest'
      <4>1. Limit' = words
        BY <2>5, <3>1 DEF Limit
      <4>2. eeprom'.chip \in claimed' => Low(eeprom'.chip) \notin Larger(words)
        BY <2>5, <3>1 DEF Honest
      <4> QED BY <2>4, <2>8, <4>1, <4>2 DEF GoodStruct
    <3>2. CASE ~Honest'
      <4>1. Limit' = 256
        BY <3>2 DEF Limit
      <4>2. Larger(256) = {}
        BY DEF Larger
      <4> QED BY <2>4, <4>1, <4>2 DEF GoodStruct
    <3> QED BY <3>1, <3>2
  <2> QED BY <1>1, <2>1, <2>5, <2>6, <2>8, <2>9, Assembled
<1>4. CASE BuildTooLong
  <2>1. calls' \in 0 .. MaxCalls
    BY <1>4, CallCounts DEF BuildTooLong
  <2>2. eeprom' = [eeprom EXCEPT !.size = BuildSize(eeprom.chip)]
    BY <1>4 DEF BuildTooLong
  <2>3. GoodStruct(type, Limit, eeprom')
    BY <1>1, <2>2, SizedRight DEF GoodStruct
  <2>4. UNCHANGED <<type, words, claimed, chip, buf, images, faults>>
    BY <1>4 DEF BuildTooLong, OnDevice
  <2> QED BY <1>1, <2>1, <2>3, <2>4, Assembled
<1>5. CASE Build
  <2> DEFINE i == ImageOf(eeprom)
  <2>1. calls' \in 0 .. MaxCalls
    BY <1>5, CallCounts DEF Build
  <2>2. /\ Room(type, eeprom) >= 0
        /\ eeprom' = i.of /\ buf' = i.buf /\ images' = images \cup {i}
    BY <1>5 DEF Build
  <2>3. /\ GoodImage(type, Limit, i) /\ GoodStruct(type, Limit, i.of)
        /\ GoodBuf(type, Limit, i.buf)
    BY <1>1, <2>2, ImageGood
  <2>4. UNCHANGED <<type, words, claimed, chip, faults>>
    BY <1>5 DEF Build, OnDevice
  <2> HIDE DEF i
  <2>5. \A j \in images' : GoodImage(type, Limit, j)
    BY <1>1, <2>2, <2>3
  <2> QED BY <1>1, <2>1, <2>2, <2>3, <2>4, <2>5, Assembled
<1>6. CASE Decode
  <2>1. calls' \in 0 .. MaxCalls
    BY <1>6, CallCounts DEF Decode
  <2>2. PICK beyond \in {0, 255} :
          \/ eeprom' = DecodedCommon(eeprom, buf, beyond)
          \/ eeprom' = DecodedSpecific(type, DecodedCommon(eeprom, buf, beyond), buf)
    BY <1>6 DEF Decode
  <2> DEFINE e == DecodedCommon(eeprom, buf, beyond)
             d == DecodedSpecific(type, e, buf)
  <2>3. StructRight(eeprom) /\ buf \in [Address -> Byte] /\ beyond \in Byte
    BY <1>1 DEF GoodStruct, GoodBuf, Byte
  <2>4. StructRight(e) /\ e.size = eeprom.size /\ e.chip = eeprom.chip
    BY <2>3, CommonRight
  <2> HIDE DEF e
  <2>5. /\ StructRight(d) /\ d.size = e.size
        /\ type \in Older => d.chip = -1
        /\ type \in Types \ {"AM", "BM", "R"} => d.chip = buf[TypeAddress(type)]
    BY <1>1, <2>3, <2>4, SpecificRight
  <2> HIDE DEF d
  <2>6. type # "R" => Low(d.chip) \notin Larger(Limit)
    <3>1. CASE type \in Older
      <4>1. Low(d.chip) = 255
        BY <2>5, <3>1 DEF Low
      <4> QED BY <4>1 DEF Larger
    <3>2. CASE type \in Types \ {"AM", "BM", "R"}
      <4>1. Limit # 256 => Forbidden(type, Limit) = Larger(Limit)
        BY <1>1, <3>2 DEF Forbidden
      <4>2. Limit = 256 => Larger(Limit) = {}
        BY DEF Larger
      <4>3. buf[TypeAddress(type)] \in Byte
        <5>1. TypeAddress(type) \in Address
          BY <3>2, TypeAddresses, AddressRange
        <5> QED BY <2>3, <5>1
      <4>4. Low(d.chip) = buf[TypeAddress(type)]
        BY <2>5, <3>2, <4>3 DEF Low, Byte
      <4> QED BY <1>1, <4>1, <4>2, <4>4 DEF GoodBuf
    <3> QED BY <1>1, <3>1, <3>2 DEF Older
  <2>7. GoodStruct(type, Limit, eeprom')
    <3>1. eeprom' = e \/ eeprom' = d
      BY <2>2 DEF e, d
    <3> QED BY <1>1, <2>4, <2>5, <2>6, <3>1 DEF GoodStruct
  <2>8. UNCHANGED <<type, words, claimed, chip, buf, images, faults>>
    BY <1>6 DEF Decode, OnDevice
  <2> QED BY <1>1, <2>1, <2>7, <2>8, Assembled
<1>7. CASE SetBuf
  <2>1. calls' \in 0 .. MaxCalls
    BY <1>7, CallCounts DEF SetBuf
  <2>2. PICK i \in images :
          buf' = [a \in Address |-> IF a < i.of.size THEN i.buf[a] ELSE buf[a]]
    BY <1>7 DEF SetBuf
  <2>3. GoodBuf(type, Limit, i.buf)
    <3>1. GoodImage(type, Limit, i)
      BY <1>1
    <3> QED BY <1>1, <3>1, ImageNames DEF GoodImage
  <2>4. \A a \in Address : buf'[a] = i.buf[a] \/ buf'[a] = buf[a]
    BY <2>2
  <2>5. DOMAIN buf' = Address /\ buf' = [a \in Address |-> buf'[a]]
    BY <2>2
  <2>6. buf' \in [Address -> Byte]
    BY <1>1, <2>3, <2>4, <2>5 DEF GoodBuf
  <2>7. ASSUME NEW x \in Forbidden(type, Limit)
        PROVE  /\ buf'[TypeAddress(type)] # x
               /\ Limit = 64 => buf'[TypeAddress(type) + 128] # x
    <3>1. /\ TypeAddress(type) \in Address
          /\ Limit = 64 => TypeAddress(type) + 128 \in Address
      BY <1>1, <2>7, ForbiddenHere, SmallPlaces
    <3> QED BY <1>1, <2>3, <2>4, <2>7, <3>1 DEF GoodBuf
  <2>8. GoodBuf(type, Limit, buf')
    BY <2>6, <2>7 DEF GoodBuf
  <2>9. UNCHANGED <<type, words, claimed, chip, eeprom, images, faults>>
    BY <1>7 DEF SetBuf, OnDevice
  <2> QED BY <1>1, <2>1, <2>8, <2>9, Assembled
<1> QED BY <1>2, <1>3, <1>4, <1>5, <1>6, <1>7

\* write_location takes a small chip for a 93x66 only when the client may have said so.
LEMMA LocationAlone ==
  ASSUME Pair(type, words), NEW m \in {words, 256}, GoodChip(type, m, chip), Is66
  PROVE  m = 256
<1>1. type \in Types \ {"AM", "R"} /\ ChipTypeLocation = TypeAddress(type)
  BY DEF Is66, ChipTypeLocation, TypeAddress, Pair, Types, Older, Dual
<1>2. Low(chip[TypeAddress(type) \div 2]) = 102
  BY <1>1 DEF Is66
<1>3. m # 256 => 102 \in Forbidden(type, m)
  BY <1>1 DEF Forbidden, Larger, Pair
<1> QED BY <1>2, <1>3 DEF GoodChip

\* the calls on the chip keep it,
LEMMA ChipSteps ==
  ASSUME IInv, \/ ReadEeprom \/ ReadFails \/ WriteEeprom \/ WriteFails \/ WriteLocation
               \/ Erase \/ EraseInternal \/ EraseFails
  PROVE  IInv'
<1>1. /\ <<type, words>> \in Chips /\ Pair(type, words) /\ type \in Types
      /\ chip \in [0 .. words - 1 -> Word] /\ claimed \subseteq Int
      /\ Limit \in {words, 256} /\ Pair(type, Limit)
      /\ UNCHANGED <<type, words, claimed>> => Limit' = Limit
      /\ GoodChip(type, Limit, chip) /\ GoodBuf(type, Limit, buf)
      /\ GoodStruct(type, Limit, eeprom) /\ StructRight(eeprom)
      /\ \A i \in images : GoodImage(type, Limit, i)
      /\ faults \in 0 .. MaxFaults
  BY LimitIs DEF IInv, Pair, GoodStruct
<1>2. CASE ReadEeprom
  <2>1. calls' \in 0 .. MaxCalls
    BY <1>2, CallCounts DEF ReadEeprom
  <2>2. GoodBuf(type, Limit, buf')
    BY <1>1, <1>2, ReadWords DEF ReadEeprom
  <2>3. PICK size \in {SizeGuess(buf', beyond) : beyond \in {0, 255}} :
          eeprom' = [eeprom EXCEPT !.size = size]
    BY <1>2 DEF ReadEeprom
  <2>4. size \in {-1, 64, 128, 256}
    BY <2>3 DEF SizeGuess
  <2>5. GoodStruct(type, Limit, eeprom')
    <3>1. FieldRight("size", size)
      BY <2>4 DEF FieldRight, Numbers, Strings, Quads
    <3>2. StructRight(eeprom')
      BY <1>1, <2>3, <3>1, OneField
    <3>3. eeprom'.chip = eeprom.chip
      BY <1>1, <2>3 DEF StructRight, Blank
    <3> QED BY <1>1, <3>2, <3>3 DEF GoodStruct
  <2>6. UNCHANGED <<type, words, claimed, chip, images, faults>>
    BY <1>2 DEF ReadEeprom, OnDevice
  <2> QED BY <1>1, <2>1, <2>2, <2>5, <2>6, Assembled
<1>3. CASE ReadFails
  <2>1. calls' \in 0 .. MaxCalls /\ faults' \in 0 .. MaxFaults
    BY <1>3, CallCounts, FaultCounts DEF ReadFails
  <2>2. PICK k \in Nat : buf' = BufRead(k)
    BY <1>3, EepromAssumption DEF ReadFails
  <2>3. GoodBuf(type, Limit, buf')
    BY <1>1, <2>2, ReadWords
  <2>4. UNCHANGED <<type, words, claimed, chip, eeprom, images>>
    BY <1>3 DEF ReadFails, OnDevice
  <2> QED BY <1>1, <2>1, <2>3, <2>4, Assembled
<1>4. CASE WriteEeprom
  <2>1. calls' \in 0 .. MaxCalls
    BY <1>4, CallCounts DEF WriteEeprom
  <2>2. chip' \in [0 .. words - 1 -> Word] /\ GoodChip(type, Limit, chip')
    BY <1>1, <1>4, WordsToWriteIs, WriteWords DEF WriteEeprom
  <2>3. UNCHANGED <<type, words, claimed, eeprom, buf, images, faults>>
    BY <1>4 DEF WriteEeprom, OnDevice
  <2> QED BY <1>1, <2>1, <2>2, <2>3, Assembled
<1>5. CASE WriteFails
  <2>1. calls' \in 0 .. MaxCalls /\ faults' \in 0 .. MaxFaults
    BY <1>5, CallCounts, FaultCounts DEF WriteFails
  <2>2. PICK k \in Nat : k < WordsToWrite /\ chip' = ChipWritten(k)
    BY <1>5, EepromAssumption DEF WriteFails
  <2>3. k \in 0 .. 128
    <3>1. WordsToWrite \in 0 .. 128
      BY <1>1, WordsToWriteIs
    <3> QED BY <2>2, <3>1
  <2>4. chip' \in [0 .. words - 1 -> Word] /\ GoodChip(type, Limit, chip')
    BY <1>1, <2>2, <2>3, WriteWords
  <2>5. UNCHANGED <<type, words, claimed, eeprom, buf, images>>
    BY <1>5 DEF WriteFails, OnDevice
  <2> QED BY <1>1, <2>1, <2>4, <2>5, Assembled
<1>6. CASE WriteLocation
  <2>1. calls' \in 0 .. MaxCalls
    BY <1>6, CallCounts DEF WriteLocation, WriteLocationAt
  <2>2. PICK a \in Addresses, data \in Data : Is66 /\ chip' = [chip EXCEPT ![a % words] = data]
    BY <1>6 DEF WriteLocation, WriteLocationAt
  <2>3. Limit = 256
    BY <1>1, <2>2, LocationAlone
  <2>4. data \in Word
    BY EepromAssumption
  <2>5. chip' \in [0 .. words - 1 -> Word]
    BY <1>1, <2>2, <2>4
  <2>6. UNCHANGED <<type, words, claimed, eeprom, buf, images, faults>>
    BY <1>6 DEF WriteLocation, WriteLocationAt, OnDevice
  <2>7. GoodChip(type, 256, chip')
    BY Weaker
  <2> QED BY <1>1, <2>1, <2>3, <2>5, <2>6, <2>7, Assembled
<1>7. ASSUME type # "R"
      PROVE  GoodStruct(type, Limit, [eeprom EXCEPT !.chip = Probed])
  <2> DEFINE e == [eeprom EXCEPT !.chip = Probed]
  <2>1. Probed = Kind /\ Low(Kind) \notin Larger(words) /\ Kind \in {0, 70, 86, 102}
    BY <1>1, <1>7, KindIs
  <2>2. FieldRight("chip", Probed)
    BY <2>1, OtherRight
  <2>3. StructRight(e)
    BY <1>1, <2>2, OneField
  <2>4. e.chip = Probed
    BY <1>1 DEF StructRight, Blank
  <2> HIDE DEF e
  <2>5. GoodStruct(type, Limit, e)
    <3>1. GoodStruct(type, words, e)
      BY <2>1, <2>3, <2>4 DEF GoodStruct
    <3> QED BY <1>1, <3>1, Weaker
  <2> QED BY <2>5 DEF e
<1>8. CASE Erase
  <2>1. calls' \in 0 .. MaxCalls
    BY <1>8, CallCounts DEF Erase
  <2>2. /\ chip' \in [0 .. words - 1 -> Word] /\ GoodChip(type, Limit, chip')
        /\ GoodStruct(type, Limit, eeprom')
    BY <1>1, <1>7, <1>8, ErasedGood DEF Erase
  <2>3. UNCHANGED <<type, words, claimed, buf, images, faults>>
    BY <1>8 DEF Erase, OnDevice
  <2> QED BY <1>1, <2>1, <2>2, <2>3, Assembled
<1>9. CASE EraseInternal
  <2>1. calls' \in 0 .. MaxCalls
    BY <1>9, CallCounts DEF EraseInternal
  <2>2. type = "R" /\ eeprom' = [eeprom EXCEPT !.chip = 0]
    BY <1>9 DEF EraseInternal
  <2>3. FieldRight("chip", 0)
    BY OtherRight
  <2>4. GoodStruct(type, Limit, eeprom')
    BY <1>1, <2>2, <2>3, OneField DEF GoodStruct
  <2>5. UNCHANGED <<type, words, claimed, chip, buf, images, faults>>
    BY <1>9 DEF EraseInternal, OnDevice
  <2> QED BY <1>1, <2>1, <2>4, <2>5, Assembled
<1>10. CASE EraseFails
  <2>1. calls' \in 0 .. MaxCalls /\ faults' \in 0 .. MaxFaults
    BY <1>10, CallCounts, FaultCounts DEF EraseFails
  <2>2. /\ type # "R" /\ chip' \in {Erased, Marked}
        /\ eeprom' = eeprom \/ eeprom' = [eeprom EXCEPT !.chip = Probed]
    BY <1>10 DEF EraseFails
  <2>3. chip' \in [0 .. words - 1 -> Word] /\ GoodChip(type, Limit, chip')
    BY <1>1, <2>2, ErasedGood
  <2>4. GoodStruct(type, Limit, eeprom')
    BY <1>1, <1>7, <2>2
  <2>5. UNCHANGED <<type, words, claimed, buf, images>>
    BY <1>10 DEF EraseFails, OnDevice
  <2> QED BY <1>1, <2>1, <2>3, <2>4, <2>5, Assembled
<1> QED BY <1>2, <1>3, <1>4, <1>5, <1>6, <1>8, <1>9, <1>10

\* and so does every step.
LEMMA InductiveStep == IInv /\ [Next]_vars => IInv'
<1> SUFFICES ASSUME IInv, [Next]_vars PROVE IInv'
  OBVIOUS
<1>1. CASE InitDefaults \/ SetValues \/ BuildTooLong \/ Build \/ Decode \/ SetBuf
  BY <1>1, StructSteps
<1>2. CASE \/ ReadEeprom \/ ReadFails \/ WriteEeprom \/ WriteFails \/ WriteLocation
           \/ Erase \/ EraseInternal \/ EraseFails
  BY <1>2, ChipSteps
<1>3. CASE BuildUnknown
  BY <1>3, RefusedGood DEF BuildUnknown
<1>4. CASE WriteRefused
  BY <1>4, RefusedGood DEF WriteRefused
<1>5. CASE LocationRefused
  BY <1>5, RefusedGood DEF LocationRefused
<1>6. CASE EraseRefused
  BY <1>6, RefusedGood DEF EraseRefused
<1>7. CASE UNCHANGED vars
  <2>1. UNCHANGED <<type, words, claimed>>
    BY <1>7 DEF vars
  <2>2. Limit' = Limit
    BY <2>1, LimitIs DEF IInv
  <2> QED BY <1>7, <2>2 DEF IInv, vars
<1> QED BY <1>1, <1>2, <1>3, <1>4, <1>5, <1>6, <1>7 DEF Next

\* Whatever calls are made, in whatever order and however they fail, the types
\* are right; and as long as the client has not said that the chip is a larger
\* one, nothing in the structure, buf, the images or the chip names one.
THEOREM Inductive == Spec => []IInv
<1> QED BY InitGood, InductiveStep, PTL DEF Spec

-----------------------------------------------------------------------------
(* What the invariant gives.                                               *)

\* The chip, buf and the structure keep their types, whatever was built, decoded
\* from damaged bytes or read in part.
THEOREM TypeCorrect == Spec => []TypeOK
<1>1. IInv => TypeOK
  <2> SUFFICES ASSUME IInv PROVE TypeOK
    OBVIOUS
  <2>1. StructRight(eeprom)
    BY DEF IInv, GoodStruct
  <2>2. DOMAIN eeprom = DOMAIN Blank /\ eeprom.size \in {-1, 0, 64, 128, 256}
    BY <2>1 DEF StructRight
  <2> QED BY <2>2 DEF IInv, GoodBuf, TypeOK, All
<1> QED BY <1>1, Inductive, PTL

\* Unless the client itself has said that the chip is a larger one, no sequence of
\* calls, however they fail, makes the structure name one; erase is no exception,
\* and neither is decode from an image damaged in a way that its checksum does
\* not show.
NeverLarger == (type # "R" /\ Honest) => eeprom.chip \notin Larger(words)

\* That holds after every sequence of calls.
THEOREM NeverNamesLarger == Spec => []NeverLarger
<1>1. IInv => NeverLarger
  <2> SUFFICES ASSUME IInv, type # "R", Honest PROVE eeprom.chip \notin Larger(words)
    BY DEF NeverLarger
  <2>1. Low(eeprom.chip) \notin Larger(words)
    BY LimitIs DEF IInv, GoodStruct
  <2>2. eeprom.chip \in {86, 102} => Low(eeprom.chip) = eeprom.chip
    BY DEF Low
  <2> QED BY <2>1, <2>2 DEF Larger
<1> QED BY <1>1, Inductive, PTL

\* The calls that last tells of.
LEMMA Told ==
  ASSUME Next
  PROVE  ReadEeprom \/ Decode \/ Erase \/ EraseInternal \/ WriteLocation \/ last' = Other
<1>1. CASE InitDefaults
  BY <1>1 DEF InitDefaults, Returns, Observed
<1>2. CASE SetValues
  BY <1>2 DEF SetValues, Returns, Observed
<1>3. CASE Build
  <2>1. Returns("build", Room(type, eeprom))
    BY <1>3 DEF Build
  <2> QED BY <2>1 DEF Returns, Observed
<1>4. CASE BuildUnknown
  BY <1>4 DEF BuildUnknown, Refused, Returns, Observed
<1>5. CASE BuildTooLong
  <2>1. Returns("build", -1)
    BY <1>5 DEF BuildTooLong
  <2> QED BY <2>1 DEF Returns, Observed
<1>6. CASE SetBuf
  <2>1. Returns("set_buf", 0)
    BY <1>6 DEF SetBuf
  <2> QED BY <2>1 DEF Returns, Observed
<1>7. CASE ReadFails
  <2>1. Returns("read", -1)
    BY <1>7 DEF ReadFails
  <2> QED BY <2>1 DEF Returns, Observed
<1>8. CASE WriteEeprom
  <2>1. Returns("write", 0)
    BY <1>8 DEF WriteEeprom
  <2> QED BY <2>1 DEF Returns, Observed
<1>9. CASE WriteFails
  <2>1. Returns("write", -1)
    BY <1>9 DEF WriteFails
  <2> QED BY <2>1 DEF Returns, Observed
<1>10. CASE WriteRefused
  BY <1>10 DEF WriteRefused, Refused, Returns, Observed
<1>11. CASE LocationRefused
  BY <1>11 DEF LocationRefused, Refused, Returns, Observed
<1>12. CASE EraseRefused
  BY <1>12 DEF EraseRefused, Refused, Returns, Observed
<1>13. CASE EraseFails
  <2>1. Returns("erase", -3) \/ Returns("erase", -4) \/ Returns("erase", -1)
    BY <1>13 DEF EraseFails
  <2> QED BY <2>1 DEF Returns, Observed
<1> QED BY <1>1, <1>2, <1>3, <1>4, <1>5, <1>6, <1>7, <1>8, <1>9, <1>10, <1>11, <1>12, <1>13
        DEF Next

\* What those five return.
LEMMA ToldIs ==
  /\ ReadEeprom => last' = <<"read", 0>>
  /\ Decode => last' \in {<<"decode", 0>>, <<"decode", -1>>}
  /\ Erase \/ EraseInternal => last' = <<"erase", 0>>
  /\ WriteLocation => last' = <<"write_location", 0>>
<1>1. ReadEeprom => last' = <<"read", 0>>
  <2>1. ReadEeprom => Returns("read", 0)
    BY DEF ReadEeprom
  <2> QED BY <2>1 DEF Returns, Observed
<1>2. Decode => last' \in {<<"decode", 0>>, <<"decode", -1>>}
  <2>1. Decode => Returns("decode", 0) \/ Returns("decode", -1)
    BY DEF Decode
  <2> QED BY <2>1 DEF Returns, Observed
<1>3. Erase \/ EraseInternal => last' = <<"erase", 0>>
  <2>1. Erase \/ EraseInternal => Returns("erase", 0)
    BY DEF Erase, EraseInternal
  <2> QED BY <2>1 DEF Returns, Observed
<1>4. WriteLocation => last' = <<"write_location", 0>>
  <2>1. WriteLocation => Returns("write_location", 0)
    BY DEF WriteLocation, WriteLocationAt
  <2> QED BY <2>1 DEF Returns, Observed
<1> QED BY <1>1, <1>2, <1>3, <1>4

\* As long as the client has not said that the chip is a larger one, whatever it
\* is and whatever was read, built, decoded and written before, write_location
\* changes none of the words that the checksum protects by an address inside a
\* 93x66: only a 93x66 passes its test.
THEOREM LocationsApart == Spec => AreasApart
<1> DEFINE Apart == \A a \in Addresses, data \in Data :
                      (WriteLocationAt(a, data) /\ a < 256 /\ Honest)
                          => \A w \in All \cap (0 .. 127) : chip'[w] = chip[w]
<1>1. IInv => Apart
  <2> SUFFICES ASSUME IInv, NEW a \in Addresses, NEW data \in Data,
                      WriteLocationAt(a, data), a < 256, Honest, NEW w \in All \cap (0 .. 127)
               PROVE  chip'[w] = chip[w]
    OBVIOUS
  <2>1. a >= 128 /\ Is66 /\ chip' = [chip EXCEPT ![a % words] = data]
    BY DEF WriteLocationAt
  <2>2. words = 256
    BY <2>1, LimitIs, LocationAlone DEF IInv
  <2>3. a \in Int
    BY EepromAssumption
  <2>4. a % words = a
    BY <2>1, <2>2, <2>3
  <2>5. w # a % words
    BY <2>1, <2>2, <2>3, <2>4
  <2>6. chip \in [0 .. words - 1 -> Word] /\ w \in 0 .. words - 1
    BY DEF IInv, All
  <2> QED BY <2>1, <2>5, <2>6
<1>2. IInv => [Apart]_vars
  BY <1>1
<1> QED BY <1>2, Inductive, PTL DEF AreasApart

\* An image is what its checksum says, and so is whatever agrees with it.
LEMMA AgreesRight ==
  ASSUME NEW b, NEW c, NEW n \in {128, 256}, Agree(b, c, n), ChecksumRight(c, n)
  PROVE  ChecksumRight(b, n)
<1>1. /\ n \div 2 - 1 \in Nat /\ 2 * (n \div 2 - 1) - 1 <= n - 1
      /\ n - 2 \in 0 .. n - 1 /\ n - 1 \in 0 .. n - 1
  OBVIOUS
<1>2. \A a \in 0 .. 2 * (n \div 2 - 1) - 1 : b[a] = c[a]
  BY <1>1 DEF Agree
<1>3. Sums(b)[n \div 2 - 1] = Sums(c)[n \div 2 - 1]
  BY <1>1, <1>2, SumsAgree
<1>4. b[n - 2] = c[n - 2] /\ b[n - 1] = c[n - 1]
  BY <1>1 DEF Agree
<1> QED BY <1>3, <1>4 DEF ChecksumRight, Checksum

\* decode accepts every image that build made.
THEOREM BuiltAccepted == Spec => []BuiltDecodes
<1>1. Init => BuiltDecodes
  BY DEF Init, BuiltDecodes, Other
<1>2. ASSUME IInv, BuiltDecodes, [Next]_vars
      PROVE  BuiltDecodes'
  <2>1. CASE UNCHANGED vars
    BY <1>2, <2>1 DEF BuiltDecodes, vars, Agree
  <2>2. CASE Next /\ ~Decode
    <3>1. last'[1] # "decode"
      BY <2>2, Told, ToldIs DEF Other
    <3> QED BY <3>1 DEF BuiltDecodes
  <2>3. CASE Decode
    <3>1. SUFFICES ASSUME NEW i \in images, eeprom'.size = i.of.size, Agree(buf, i.buf, eeprom'.size)
                   PROVE  last'[2] = 0
      <4>1. images' = images /\ buf' = buf
        BY <2>3 DEF Decode
      <4> QED BY <4>1 DEF BuiltDecodes, Agree
    <3>2. GoodImage(type, Limit, i)
      BY <1>2 DEF IInv
    <3>3. Fits(type, i.of) /\ i.of.size = BuildSize(i.of.chip) /\ i.buf = Image(type, i.of)
      BY <3>2 DEF GoodImage
    <3>4. ChecksumRight(i.buf, i.of.size) /\ i.of.size \in {128, 256}
      BY <3>3, ImageIs, BuildSizes
    <3>5. eeprom'.size = eeprom.size
      <4>1. PICK beyond \in {0, 255} :
              \/ eeprom' = DecodedCommon(eeprom, buf, beyond)
              \/ eeprom' = DecodedSpecific(type, DecodedCommon(eeprom, buf, beyond), buf)
        BY <2>3 DEF Decode
      <4> DEFINE e == DecodedCommon(eeprom, buf, beyond)
      <4>2. /\ StructRight(eeprom) /\ buf \in [Address -> Byte] /\ beyond \in Byte
            /\ type \in Types
        BY <1>2, Pairs DEF IInv, GoodStruct, GoodBuf, Byte, Pair
      <4>3. StructRight(e) /\ e.size = eeprom.size
        BY <4>2, CommonRight
      <4> HIDE DEF e
      <4>4. DecodedSpecific(type, e, buf).size = e.size
        BY <4>2, <4>3, SpecificRight
      <4> QED BY <4>1, <4>3, <4>4 DEF e
    <3>6. ChecksumRight(buf, eeprom.size)
      BY <3>1, <3>4, <3>5, AgreesRight
    <3>7. Returns("decode", 0)
      BY <2>3, <3>6 DEF Decode
    <3> QED BY <3>7 DEF Returns, Observed
  <2> QED BY <1>2, <2>1, <2>2, <2>3
<1> QED BY <1>1, <1>2, Inductive, PTL DEF Spec

\* What read_eeprom finds on a chip that holds an image: the image, and the size
\* it was built for.
LEMMA ReadBack ==
  ASSUME IInv, NEW i \in images, i.of.chip = Kind,
         \A w \in 0 .. i.of.size \div 2 - 1 : chip[w] = ByteWord(i.buf, w),
         NEW beyond
  PROVE  LET b == BufRead(128)
         IN  SizeGuess(b, beyond) = i.of.size /\ Agree(b, i.buf, i.of.size)
<1> DEFINE b == BufRead(128)
           size == i.of.size
           body == Body(type, i.of)
<1>1. /\ Pair(type, words) /\ GoodImage(type, Limit, i)
      /\ Fits(type, i.of) /\ i.buf = Image(type, i.of) /\ size = BuildSize(Kind)
      /\ BuildSize(i.of.chip) = size
  BY Pairs DEF IInv, GoodImage
<1>2. words \in {64, 128, 256} /\ (type = "R" => words = 128)
  BY EepromAssumption DEF IInv
<1>3. /\ type = "R" => size = 128
      /\ type # "R" => size = IF words = 64 THEN 128 ELSE 256
  <2>1. /\ type = "R" => Kind = 0
        /\ type # "R" => Kind = CASE words = 64 -> 70 [] words = 128 -> 86 [] OTHER -> 102
    BY <1>1, KindIs
  <2> HIDE DEF size
  <2> QED BY <1>1, <1>2, <2>1 DEF BuildSize
<1>4. /\ i.buf \in [Address -> Byte]
      /\ \A a \in Address \ {size - 2, size - 1} : i.buf[a] = body[a]
  <2>1. LET n == BuildSize(i.of.chip)
        IN  /\ Image(type, i.of) \in [Address -> Byte]
            /\ \A a \in Address \ {n - 2, n - 1} : Image(type, i.of)[a] = Body(type, i.of)[a]
    BY <1>1, ImageIs
  <2> QED BY <1>1, <2>1
<1>5. /\ body[6] = 0 /\ body[7] # 0
      /\ size = 256 => body[71] = 0 /\ body[135] = 0
  BY <1>1, BodyMarks
<1>6. \A a \in Address : b[a] = IF a % 2 = 0 THEN Low(chip[(a \div 2) % words])
                                ELSE High(chip[(a \div 2) % words])
  <2> TAKE a \in Address
  <2>1. ~(a >= 2 * 128)
    BY AddressRange
  <2> QED BY <2>1 DEF BufRead
<1> SUFFICES SizeGuess(b, beyond) = size /\ Agree(b, i.buf, size)
  OBVIOUS
<1> HIDE DEF b, size, body
<1>7. size \in {128, 256} /\ size \div 2 <= words
  BY <1>2, <1>3
<1>8. ASSUME NEW a \in 0 .. size - 1
      PROVE  b[a] = i.buf[a]
  <2>1. a \in Address
    BY <1>7, AddressRange
  <2>2. /\ a \div 2 \in 0 .. 127 /\ (a % 2 = 0 => a = 2 * (a \div 2))
        /\ (a % 2 # 0 => a = 2 * (a \div 2) + 1)
    BY <2>1, AddressHalves
  <2>3. a \div 2 \in 0 .. size \div 2 - 1 /\ (a \div 2) % words = a \div 2
    BY <1>2, <1>7
  <2>4. chip[a \div 2] = ByteWord(i.buf, a \div 2)
    BY <2>3 DEF size
  <2> DEFINE w == a \div 2
  <2>5. Low(ByteWord(i.buf, w)) = i.buf[2 * w] /\ High(ByteWord(i.buf, w)) = i.buf[2 * w + 1]
    BY <1>4, <2>2, ByteWordIs
  <2>6. b[a] = IF a % 2 = 0 THEN Low(ByteWord(i.buf, w)) ELSE High(ByteWord(i.buf, w))
    BY <1>6, <2>1, <2>3, <2>4
  <2> QED BY <2>2, <2>5, <2>6
<1>9. Agree(b, i.buf, size)
  BY <1>8 DEF Agree
<1>10. CASE type = "R"
  BY <1>3, <1>9, <1>10 DEF SizeGuess
<1>11. CASE type # "R"
  <2>1. 6 \in Address /\ 7 \in Address /\ 71 \in Address /\ 135 \in Address
    BY AddressRange
  <2>2. b[6] = 0 /\ b[7] # 0
    BY <1>4, <1>5, <1>7, <1>8, <2>1
  <2>3. ~(\A a \in Address : b[a] # 0)
    BY <2>1, <2>2
  <2>4. CASE words = 64
    <3>1. ASSUME NEW a \in 0 .. 127 PROVE b[a] = b[a + 128]
      <4>1. a \in Address /\ a + 128 \in Address
        BY AddressRange
      <4>2. (a + 128) % 2 = a % 2 /\ ((a + 128) \div 2) % words = (a \div 2) % words
        BY <2>4
      <4> QED BY <1>6, <4>1, <4>2
    <3>2. SameHalves(b, 128)
      BY <3>1 DEF SameHalves
    <3> QED BY <1>3, <1>9, <1>11, <2>3, <2>4, <3>2 DEF SizeGuess
  <2>5. CASE words # 64
    <3>1. size = 256
      BY <1>3, <1>11, <2>5
    <3>2. b[71] = 0 /\ b[135] = 0
      BY <1>4, <1>5, <1>8, <2>1, <3>1
    <3>3. ~SameHalves(b, 128) /\ ~SameHalves(b, 64)
      <4>1. 7 \in 0 .. 127 /\ 7 \in 0 .. 63 /\ 7 + 128 = 135 /\ 7 + 64 = 71
        OBVIOUS
      <4> QED BY <2>2, <3>2, <4>1 DEF SameHalves
    <3> QED BY <1>9, <1>11, <2>3, <3>1, <3>3 DEF SizeGuess
  <2> QED BY <2>4, <2>5
<1> QED BY <1>10, <1>11

\* An image built for the chip that is there and written to it whole comes back
\* with the size it was built for: read guesses it from where the addresses wrap
\* around, and no image has halves that are the same by accident.
THEOREM SizeFound == Spec => []SizeGuessed
<1>1. Init => SizeGuessed
  BY DEF Init, SizeGuessed, Other
<1>2. ASSUME IInv, SizeGuessed, [Next]_vars
      PROVE  SizeGuessed'
  <2>1. CASE UNCHANGED vars
    <3>1. UNCHANGED <<type, words, chip, eeprom, buf, images, last>>
      BY <2>1 DEF vars
    <3>2. Kind' = Kind
      BY <3>1 DEF Kind
    <3> QED BY <1>2, <3>1, <3>2 DEF SizeGuessed, Agree
  <2>2. CASE Next /\ ~ReadEeprom
    <3>1. last' # <<"read", 0>>
      BY <2>2, Told, ToldIs DEF Other
    <3> QED BY <3>1 DEF SizeGuessed
  <2>3. CASE ReadEeprom
    <3>1. /\ UNCHANGED <<type, words, chip, images>> /\ buf' = BufRead(128)
      BY <2>3 DEF ReadEeprom, OnDevice
    <3>2. PICK size \in {SizeGuess(buf', beyond) : beyond \in {0, 255}} :
            eeprom' = [eeprom EXCEPT !.size = size]
      BY <2>3 DEF ReadEeprom
    <3>3. eeprom'.size = size
      <4>1. StructRight(eeprom)
        BY <1>2 DEF IInv, GoodStruct
      <4> QED BY <3>2, <4>1 DEF StructRight, Blank
    <3>4. PICK beyond \in {0, 255} : size = SizeGuess(BufRead(128), beyond)
      BY <3>1, <3>2
    <3>5. ASSUME NEW i \in images, i.of.chip = Kind,
                 \A w \in 0 .. i.of.size \div 2 - 1 : chip[w] = ByteWord(i.buf, w)
          PROVE  size = i.of.size /\ Agree(BufRead(128), i.buf, i.of.size)
      BY <1>2, <3>4, <3>5, ReadBack
    <3>6. Kind' = Kind
      BY <3>1 DEF Kind
    <3> QED BY <3>1, <3>3, <3>5, <3>6 DEF SizeGuessed, Agree
  <2> QED BY <1>2, <2>1, <2>2, <2>3
<1> QED BY <1>1, <1>2, Inductive, PTL DEF Spec

-----------------------------------------------------------------------------
(* The bytes of an image, one by one: which address has what.              *)

\* f has v at a.
Has(f, a, v) == a \in DOMAIN f /\ f[a] = v

\* So has a byte by itself,
LEMMA HasAt == ASSUME NEW a, NEW v PROVE Has(a :> v, a, v)
  BY AtIs DEF Has

\* a piece over another,
LEMMA HasOver ==
  ASSUME NEW f, NEW g, NEW a, NEW v, Has(f, a, v)
  PROVE  Has(f @@ g, a, v)
<1>1. a \in DOMAIN f \cup DOMAIN g
  BY DEF Has
<1>2. (f @@ g)[a] = v
  BY <1>1, OverValue DEF Has
<1>3. a \in DOMAIN (f @@ g)
  BY ONLY <1>1, OverDomain
<1> QED BY <1>2, <1>3 DEF Has

\* and one under a piece that misses the address.
LEMMA HasUnder ==
  ASSUME NEW f, NEW g, NEW a, NEW v, Misses(f, a), Has(g, a, v)
  PROVE  Has(f @@ g, a, v)
<1>1. a \in DOMAIN f \cup DOMAIN g
  BY DEF Has
<1>2. (f @@ g)[a] = v
  BY <1>1, OverValue DEF Has, Misses
<1>3. a \in DOMAIN (f @@ g)
  BY ONLY <1>1, OverDomain
<1> QED BY <1>2, <1>3 DEF Has

\* The bytes of what all types have.
LEMMA GeneralHas ==
  ASSUME NEW t, NEW e
  PROVE  LET g == General(t, e)
         IN  /\ Has(g, 2, Low(e.vendor_id)) /\ Has(g, 3, High(e.vendor_id))
             /\ Has(g, 4, Low(e.product_id)) /\ Has(g, 5, High(e.product_id))
             /\ Has(g, 8, 128 + When(e.self_powered = 1, 64) + When(e.remote_wakeup = 1, 32))
             /\ Has(g, 9, Low(e.max_power \div 2)) /\ Has(g, 10, ChipConfig(t, e))
<1> DEFINE g == General(t, e)
<1>1. Has(g, 2, Low(e.vendor_id)) /\ Has(g, 3, High(e.vendor_id))
  BY HasAt, HasOver, HasUnder, MissesAt, MissesOver DEF General
<1>2. Has(g, 4, Low(e.product_id)) /\ Has(g, 5, High(e.product_id))
  BY HasAt, HasOver, HasUnder, MissesAt, MissesOver DEF General
<1>3. Has(g, 8, 128 + When(e.self_powered = 1, 64) + When(e.remote_wakeup = 1, 32))
  BY HasAt, HasOver, HasUnder, MissesAt, MissesOver DEF General
<1>4. Has(g, 9, Low(e.max_power \div 2)) /\ Has(g, 10, ChipConfig(t, e))
  BY HasAt, HasOver, HasUnder, MissesAt, MissesOver DEF General
<1> QED BY <1>1, <1>2, <1>3, <1>4

\* The two bytes of the USB version,
LEMMA UsbVersionHas ==
  ASSUME NEW e
  PROVE  Has(UsbVersion(e), 12, Low(e.usb_version)) /\ Has(UsbVersion(e), 13, High(e.usb_version))
  BY HasAt, HasOver, HasUnder, MissesAt DEF UsbVersion

\* those of four pin groups,
LEMMA FourGroupsHas ==
  ASSUME NEW e
  PROVE  /\ Has(FourGroups(e), 12, Group(e, 1) + 16 * Group(e, 2))
         /\ Has(FourGroups(e), 13, Group(e, 3) + 16 * Group(e, 4))
  BY HasAt, HasOver, HasUnder, MissesAt DEF FourGroups

\* and all the bytes that a 2232C has for itself,
LEMMA Has2232C ==
  ASSUME NEW e
  PROVE  LET s == Bytes2232C(e)
         IN  /\ Has(s, 0, Channel("2232C", e.channel_type[1], e.driver[1], e.high_current_a))
             /\ Has(s, 1, Channel("2232C", e.channel_type[2], e.driver[2], e.high_current_b))
             /\ Has(s, 12, Low(e.usb_version)) /\ Has(s, 13, High(e.usb_version))
             /\ Has(s, 20, Low(e.chip))
<1> DEFINE s == Bytes2232C(e)
<1>1. Misses(UsbVersion(e), 20)
  BY MissesAt, MissesOver DEF UsbVersion
<1>2. Has(s, 0, Channel("2232C", e.channel_type[1], e.driver[1], e.high_current_a))
  BY HasAt, HasOver DEF Bytes2232C
<1>3. Has(s, 1, Channel("2232C", e.channel_type[2], e.driver[2], e.high_current_b))
  BY HasAt, HasOver, HasUnder, MissesAt DEF Bytes2232C
<1>4. Has(s, 12, Low(e.usb_version)) /\ Has(s, 13, High(e.usb_version))
  BY UsbVersionHas, HasOver, HasUnder, MissesAt, MissesOver DEF Bytes2232C
<1>5. Has(s, 20, Low(e.chip))
  BY <1>1, HasAt, HasUnder, MissesAt, MissesOver DEF Bytes2232C
<1> QED BY <1>2, <1>3, <1>4, <1>5

\* an R,
LEMMA HasR ==
  ASSUME NEW e
  PROVE  LET s == BytesR(e)
         IN  /\ Has(s, 0, When(e.high_current = 4, 4)) /\ Has(s, 11, Low(e.invert))
             /\ Has(s, 12, Low(e.usb_version)) /\ Has(s, 13, High(e.usb_version))
             /\ Has(s, 20, Cbus(e, 1, 13, 3) + 16 * Cbus(e, 2, 13, 2))
             /\ Has(s, 21, Cbus(e, 3, 13, 0) + 16 * Cbus(e, 4, 13, 1))
             /\ Has(s, 22, Cbus(e, 5, 9, 5))
<1> DEFINE s == BytesR(e)
<1>1. \A a \in {20, 21, 22} : Misses(UsbVersion(e), a)
  BY MissesAt, MissesOver DEF UsbVersion
<1>2. Has(s, 0, When(e.high_current = 4, 4)) /\ Has(s, 11, Low(e.invert))
  BY HasAt, HasOver, HasUnder, MissesAt, MissesOver DEF BytesR
<1>3. Has(s, 12, Low(e.usb_version)) /\ Has(s, 13, High(e.usb_version))
  BY UsbVersionHas, HasOver, HasUnder, MissesAt, MissesOver DEF BytesR
<1>4. Has(s, 20, Cbus(e, 1, 13, 3) + 16 * Cbus(e, 2, 13, 2))
  BY <1>1, HasAt, HasOver, HasUnder, MissesAt, MissesOver DEF BytesR
<1>5. Has(s, 21, Cbus(e, 3, 13, 0) + 16 * Cbus(e, 4, 13, 1))
  BY <1>1, HasAt, HasOver, HasUnder, MissesAt, MissesOver DEF BytesR
<1>6. Has(s, 22, Cbus(e, 5, 9, 5))
  BY <1>1, HasAt, HasUnder, MissesAt, MissesOver DEF BytesR
<1> QED BY <1>2, <1>3, <1>4, <1>5, <1>6

\* a 2232H,
LEMMA Has2232H ==
  ASSUME NEW e
  PROVE  LET s == Bytes2232H(e)
         IN  /\ Has(s, 0, Channel("2232H", e.channel_type[1], e.driver[1], 0))
             /\ Has(s, 1, Channel("2232H", e.channel_type[2], e.driver[2], 0)
                          + When(e.suspend_dbus7 = 128, 128))
             /\ Has(s, 12, Group(e, 1) + 16 * Group(e, 2))
             /\ Has(s, 13, Group(e, 3) + 16 * Group(e, 4))
             /\ Has(s, 24, Low(e.chip))
<1> DEFINE s == Bytes2232H(e)
<1>1. Misses(FourGroups(e), 24)
  BY MissesAt, MissesOver DEF FourGroups
<1>2. Has(s, 0, Channel("2232H", e.channel_type[1], e.driver[1], 0))
  BY HasAt, HasOver DEF Bytes2232H
<1>3. Has(s, 1, Channel("2232H", e.channel_type[2], e.driver[2], 0) + When(e.suspend_dbus7 = 128, 128))
  BY HasAt, HasOver, HasUnder, MissesAt DEF Bytes2232H
<1>4. Has(s, 12, Group(e, 1) + 16 * Group(e, 2)) /\ Has(s, 13, Group(e, 3) + 16 * Group(e, 4))
  BY FourGroupsHas, HasOver, HasUnder, MissesAt, MissesOver DEF Bytes2232H
<1>5. Has(s, 24, Low(e.chip))
  BY <1>1, HasAt, HasUnder, MissesAt, MissesOver DEF Bytes2232H
<1> QED BY <1>2, <1>3, <1>4, <1>5

\* a 4232H,
LEMMA Has4232H ==
  ASSUME NEW e
  PROVE  LET s == Bytes4232H(e)
         IN  /\ Has(s, 0, When(e.driver[1] = 8, 8) + 16 * When(e.driver[3] = 8, 8))
             /\ Has(s, 1, When(e.driver[2] = 8, 8) + 16 * When(e.driver[4] = 8, 8))
             /\ Has(s, 11, When(e.rs485[1] # 0, 16) + When(e.rs485[2] # 0, 32)
                           + When(e.rs485[3] # 0, 64) + When(e.rs485[4] # 0, 128))
             /\ Has(s, 12, Group(e, 1) + 16 * Group(e, 2))
             /\ Has(s, 13, Group(e, 3) + 16 * Group(e, 4))
             /\ Has(s, 24, Low(e.chip))
<1> DEFINE s == Bytes4232H(e)
<1>1. Misses(FourGroups(e), 24)
  BY MissesAt, MissesOver DEF FourGroups
<1>2. Has(s, 0, When(e.driver[1] = 8, 8) + 16 * When(e.driver[3] = 8, 8))
  BY HasAt, HasOver DEF Bytes4232H
<1>3. Has(s, 1, When(e.driver[2] = 8, 8) + 16 * When(e.driver[4] = 8, 8))
  BY HasAt, HasOver, HasUnder, MissesAt DEF Bytes4232H
<1>4. Has(s, 11, When(e.rs485[1] # 0, 16) + When(e.rs485[2] # 0, 32)
                 + When(e.rs485[3] # 0, 64) + When(e.rs485[4] # 0, 128))
  BY HasAt, HasOver, HasUnder, MissesAt, MissesOver DEF Bytes4232H
<1>5. Has(s, 12, Group(e, 1) + 16 * Group(e, 2)) /\ Has(s, 13, Group(e, 3) + 16 * Group(e, 4))
  BY FourGroupsHas, HasOver, HasUnder, MissesAt, MissesOver DEF Bytes4232H
<1>6. Has(s, 24, Low(e.chip))
  BY <1>1, HasAt, HasUnder, MissesAt, MissesOver DEF Bytes4232H
<1> QED BY <1>2, <1>3, <1>4, <1>5, <1>6

\* and a 232H.
LEMMA Has232H ==
  ASSUME NEW e
  PROVE  LET s == Bytes232H(e)
         IN  /\ Has(s, 0, TypeBits("232H", e.channel_type[1]) + When(e.driver[1] = 8, 16))
             /\ Has(s, 1, When(e.powersave # 0, 128) + When(e.clock_polarity # 0, 1)
                          + When(e.data_order # 0, 2) + When(e.flow_control # 0, 4))
             /\ Has(s, 12, Group(e, 1)) /\ Has(s, 13, Group(e, 2))
             /\ \A a \in 24 .. 28 : Has(s, a, AcbusPair(e, a - 24))
             /\ Has(s, 30, Low(e.chip))
<1> DEFINE s == Bytes232H(e)
           p == [a \in 24 .. 28 |-> AcbusPair(e, a - 24)]
           q == (0 :> TypeBits("232H", e.channel_type[1]) + When(e.driver[1] = 8, 16))
                @@ (1 :> When(e.powersave # 0, 128) + When(e.clock_polarity # 0, 1)
                         + When(e.data_order # 0, 2) + When(e.flow_control # 0, 4))
                @@ (12 :> Group(e, 1)) @@ (13 :> Group(e, 2))
<1>1. s = q @@ p @@ (30 :> Low(e.chip))
  BY DEF Bytes232H
<1>2. Misses(p, 30) /\ \A a \in 24 .. 28 : Has(p, a, AcbusPair(e, a - 24))
  BY DEF Misses, Has
<1>3. Misses(q, 30)
  BY MissesAt, MissesOver
<1>4. \A a \in 24 .. 28 : Misses(q, a)
  BY MissesAt, MissesOver
<1>5. Has(q, 0, TypeBits("232H", e.channel_type[1]) + When(e.driver[1] = 8, 16))
  BY HasAt, HasOver
<1>6. Has(q, 1, When(e.powersave # 0, 128) + When(e.clock_polarity # 0, 1)
                + When(e.data_order # 0, 2) + When(e.flow_control # 0, 4))
  BY HasAt, HasOver, HasUnder, MissesAt
<1>7. Has(q, 12, Group(e, 1)) /\ Has(q, 13, Group(e, 2))
  BY HasAt, HasOver, HasUnder, MissesAt, MissesOver
<1> HIDE DEF p, q
<1>8. \A a \in 24 .. 28 : Has(s, a, AcbusPair(e, a - 24))
  BY <1>1, <1>2, <1>4, HasOver, HasUnder
<1>9. Has(s, 30, Low(e.chip))
  BY <1>1, <1>2, <1>3, HasAt, HasUnder, MissesOver
<1> QED BY <1>1, <1>5, <1>6, <1>7, <1>8, <1>9, HasOver

\* b holds the image of e.
Holding(t, e, b) == b \in [Address -> Byte] /\ Agree(b, Image(t, e), BuildSize(e.chip))

\* A buffer that holds an image has the bytes of its body below the checksum.
LEMMA HeldBody ==
  ASSUME NEW t, NEW e, Fits(t, e), NEW b, Holding(t, e, b), NEW a \in Nat,
         a < BuildSize(e.chip) - 2
  PROVE  b[a] = Body(t, e)[a]
<1> DEFINE size == BuildSize(e.chip)
           image == Image(t, e)
<1>1. size \in {128, 256}
  BY BuildSizes
<1>2. \A x \in Address \ {size - 2, size - 1} : image[x] = Body(t, e)[x]
  BY ImageIs
<1>3. Agree(b, image, size)
  BY DEF Holding
<1>4. a < size - 2
  OBVIOUS
<1> HIDE DEF size, image
<1>5. a \in 0 .. size - 1 /\ a \in Address /\ a \notin {size - 2, size - 1}
  BY <1>1, <1>4, AddressRange
<1> QED BY <1>2, <1>3, <1>5 DEF Agree

\* The type's own bytes,
LEMMA HeldSpecific ==
  ASSUME NEW t, NEW e, Fits(t, e), NEW b, Holding(t, e, b), NEW a \in 0 .. 30, NEW v,
         Has(Specific(t, e), a, v)
  PROVE  b[a] = v
<1>1. BuildSize(e.chip) \in {128, 256}
  BY BuildSizes
<1>2. a \in Nat /\ a < BuildSize(e.chip) - 2
  BY <1>1
<1>3. b[a] = Body(t, e)[a]
  BY <1>2, HeldBody
<1>4. a \in Address
  BY Addresses256
<1>5. Body(t, e)[a] = Specific(t, e)[a]
  BY <1>4, BodyIs DEF Has
<1> QED BY <1>3, <1>5 DEF Has

\* those of all types,
LEMMA HeldGeneral ==
  ASSUME NEW t, NEW e, Fits(t, e), NEW b, Holding(t, e, b), NEW a \in {2, 3, 4, 5, 8, 9, 10}, NEW v,
         Has(General(t, e), a, v)
  PROVE  b[a] = v
<1> DEFINE s == Specific(t, e)
           size == BuildSize(e.chip)
           p == Placed(t, size, Text(t, e))
           d == Directory(t, e)
           g == General(t, e)
<1>1. size \in {128, 256} /\ t \in Types /\ StructRight(e)
  BY BuildSizes DEF Fits
<1>2. a \in Nat /\ a < size - 2 /\ a \in Address
  BY <1>1, AddressRange
<1>3. b[a] = Body(t, e)[a]
  BY <1>2, HeldBody
<1>4. a \notin DOMAIN s
  <2>1. DOMAIN s \subseteq SpecificAddresses
    BY <1>1, SpecificPiece DEF PieceIn
  <2> HIDE DEF s
  <2> QED BY <2>1 DEF SpecificAddresses
<1>5. a \notin DOMAIN p
  <2>1. \A x \in DOMAIN p : Base(t, size) <= x
    BY <1>1, PlacedPiece
  <2>2. Base(t, size) \in 20 .. 156
    BY <1>1, BaseRange
  <2> HIDE DEF p, size
  <2> QED BY <2>1, <2>2
<1>6. a \notin DOMAIN d
  <2>1. DOMAIN d \subseteq 14 .. 19
    BY DirectoryPiece DEF PieceIn
  <2> HIDE DEF d
  <2> QED BY <2>1
<1>7. \A x \in Address : Body(t, e)[x] = IF x \in DOMAIN s THEN s[x]
                                        ELSE IF x \in DOMAIN p THEN p[x]
                                        ELSE IF x \in DOMAIN d THEN d[x]
                                        ELSE IF x \in DOMAIN g THEN g[x] ELSE 0
  BY BodyIs
<1> HIDE DEF s, p, d, size
<1>8. Body(t, e)[a] = g[a] /\ g[a] = v
  BY <1>2, <1>4, <1>5, <1>6, <1>7 DEF Has
<1> QED BY <1>3, <1>8

\* and those that say where the strings are.
LEMMA HeldDirectory ==
  ASSUME NEW t, NEW e, Fits(t, e), NEW b, Holding(t, e, b), NEW a \in 14 .. 19, NEW v,
         Has(Directory(t, e), a, v)
  PROVE  b[a] = v
<1> DEFINE s == Specific(t, e)
           size == BuildSize(e.chip)
           p == Placed(t, size, Text(t, e))
           d == Directory(t, e)
           g == General(t, e)
<1>1. size \in {128, 256} /\ t \in Types /\ StructRight(e)
  BY BuildSizes DEF Fits
<1>2. a \in Nat /\ a < size - 2 /\ a \in Address
  BY <1>1, AddressRange
<1>3. b[a] = Body(t, e)[a]
  BY <1>2, HeldBody
<1>4. a \notin DOMAIN s
  <2>1. DOMAIN s \subseteq SpecificAddresses
    BY <1>1, SpecificPiece DEF PieceIn
  <2> HIDE DEF s
  <2> QED BY <2>1 DEF SpecificAddresses
<1>5. a \notin DOMAIN p
  <2>1. \A x \in DOMAIN p : Base(t, size) <= x
    BY <1>1, PlacedPiece
  <2>2. Base(t, size) \in 20 .. 156
    BY <1>1, BaseRange
  <2> HIDE DEF p, size
  <2> QED BY <2>1, <2>2
<1>7. \A x \in Address : Body(t, e)[x] = IF x \in DOMAIN s THEN s[x]
                                        ELSE IF x \in DOMAIN p THEN p[x]
                                        ELSE IF x \in DOMAIN d THEN d[x]
                                        ELSE IF x \in DOMAIN g THEN g[x] ELSE 0
  BY BodyIs
<1> HIDE DEF s, p, size
<1>8. Body(t, e)[a] = d[a] /\ d[a] = v
  BY <1>2, <1>4, <1>5, <1>7 DEF Has
<1> QED BY <1>3, <1>8

\* The bits of a sum of powers of two, each there or not.
LEMMA BitsOfSum ==
  ASSUME NEW x1 \in {0, 1}, NEW x2 \in {0, 2}, NEW x4 \in {0, 4}, NEW x8 \in {0, 8},
         NEW x16 \in {0, 16}, NEW x32 \in {0, 32}, NEW x64 \in {0, 64}, NEW x128 \in {0, 128},
         NEW n, n = x1 + x2 + x4 + x8 + x16 + x32 + x64 + x128
  PROVE  /\ Bits(n, 1) = x1 /\ Bits(n, 2) = x2 /\ Bits(n, 4) = x4 /\ Bits(n, 8) = x8
         /\ Bits(n, 16) = x16 /\ Bits(n, 32) = x32 /\ Bits(n, 64) = x64 /\ Bits(n, 128) = x128
         /\ n % 8 = x1 + x2 + x4 /\ n % 16 = x1 + x2 + x4 + x8
<1>1. n \in Nat
  OBVIOUS
<1>2. Bits(n, 1) = x1 /\ n % 8 = x1 + x2 + x4 /\ n % 16 = x1 + x2 + x4 + x8
  BY DEF Bits
<1>3. Bits(n, 2) = x2
  <2>1. n \div 2 = (x2 \div 2) + 2 * ((x4 \div 4) + 2 * (x8 \div 8) + 4 * (x16 \div 16)
                      + 8 * (x32 \div 32) + 16 * (x64 \div 64) + 32 * (x128 \div 128))
    OBVIOUS
  <2> QED BY <2>1 DEF Bits
<1>4. Bits(n, 4) = x4
  <2>1. n \div 4 = (x4 \div 4) + 2 * (x8 \div 8) + 4 * (x16 \div 16)
                      + 8 * (x32 \div 32) + 16 * (x64 \div 64) + 32 * (x128 \div 128)
    OBVIOUS
  <2> QED BY <2>1 DEF Bits
<1>5. Bits(n, 8) = x8
  <2>1. n \div 8 = (x8 \div 8) + 2 * (x16 \div 16)
                      + 4 * (x32 \div 32) + 8 * (x64 \div 64) + 16 * (x128 \div 128)
    OBVIOUS
  <2> QED BY <2>1 DEF Bits
<1>6. Bits(n, 16) = x16
  <2>1. n \div 16 = (x16 \div 16) + 2 * (x32 \div 32) + 4 * (x64 \div 64) + 8 * (x128 \div 128)
    OBVIOUS
  <2> QED BY <2>1 DEF Bits
<1>7. Bits(n, 32) = x32
  <2>1. n \div 32 = (x32 \div 32) + 2 * (x64 \div 64) + 4 * (x128 \div 128)
    OBVIOUS
  <2> QED BY <2>1 DEF Bits
<1>8. Bits(n, 64) = x64
  <2>1. n \div 64 = (x64 \div 64) + 2 * (x128 \div 128)
    OBVIOUS
  <2> QED BY <2>1 DEF Bits
<1>9. Bits(n, 128) = x128
  <2>1. n \div 128 = (x128 \div 128)
    OBVIOUS
  <2> QED BY <2>1 DEF Bits
<1> QED BY <1>2, <1>3, <1>4, <1>5, <1>6, <1>7, <1>8, <1>9

\* A byte or a word that fits comes back from its bytes.
LEMMA LowOfByte == ASSUME NEW n \in Byte PROVE Low(n) = n
  BY DEF Low, Byte

\* The flags of address 0A.
LEMMA ConfigBits ==
  ASSUME NEW t \in Types \ {"AM"}, NEW e
  PROVE  LET c == ChipConfig(t, e)
         IN  /\ SameFlag(e.in_is_isochronous, Bits(c, 1), 1)
             /\ SameFlag(e.out_is_isochronous, Bits(c, 2), 1)
             /\ t \notin {"BM", "232H"} => SameFlag(e.suspend_pull_downs, Bits(c, 4), 1)
             /\ SameTruth(e.use_serial, Bits(c, 8) \div 8)
             /\ t \in {"BM", "2232C"} => SameFlag(e.use_usb_version, Bits(c, 16), 16)
<1> DEFINE c == ChipConfig(t, e)
           x1 == When(e.in_is_isochronous = 1, 1)
           x2 == When(e.out_is_isochronous = 1, 2)
           x4 == When(t # "BM" /\ t # "232H" /\ e.suspend_pull_downs = 1, 4)
           x8 == When(e.use_serial # 0, 8)
           x16 == When(t \in {"BM", "2232C"} /\ e.use_usb_version = 16, 16)
<1>1. x1 \in {0, 1} /\ (x1 # 0) = (e.in_is_isochronous = 1)
  BY DEF When
<1>2. x2 \in {0, 2} /\ (x2 # 0) = (e.out_is_isochronous = 1)
  BY DEF When
<1>3. x4 \in {0, 4} /\ (t \notin {"BM", "232H"} => (x4 # 0) = (e.suspend_pull_downs = 1))
  BY DEF When
<1>4. x8 \in {0, 8} /\ (x8 # 0) = (e.use_serial # 0)
  BY DEF When
<1>5. x16 \in {0, 16} /\ (t \in {"BM", "2232C"} => (x16 # 0) = (e.use_usb_version = 16))
  BY DEF When
<1>6. c = x1 + x2 + x4 + x8 + x16
  BY DEF ChipConfig
<1> HIDE DEF c, x1, x2, x4, x8, x16
<1>7. c = x1 + x2 + x4 + x8 + x16 + 0 + 0 + 0
  BY <1>1, <1>2, <1>3, <1>4, <1>5, <1>6
<1>8. /\ Bits(c, 1) = x1 /\ Bits(c, 2) = x2 /\ Bits(c, 4) = x4 /\ Bits(c, 8) = x8
      /\ Bits(c, 16) = x16
  BY <1>1, <1>2, <1>3, <1>4, <1>5, <1>7, BitsOfSum
<1>9. (x8 \div 8 # 0) = (x8 # 0)
  BY <1>4
<1> QED BY <1>1, <1>2, <1>3, <1>4, <1>5, <1>8, <1>9 DEF SameFlag, SameTruth, c

\* What decode takes from the bytes all types have, but for the strings.
Taken(d, b) ==
    /\ d.vendor_id  = b[2] + 256 * b[3]
    /\ d.product_id = b[4] + 256 * b[5]
    /\ d.self_powered = Bits(b[8], 64) /\ d.remote_wakeup = Bits(b[8], 32)
    /\ d.max_power = b[9]
    /\ d.in_is_isochronous  = Bits(b[10], 1) /\ d.out_is_isochronous = Bits(b[10], 2)
    /\ d.suspend_pull_downs = Bits(b[10], 4) /\ d.use_serial = Bits(b[10], 8) \div 8
    /\ d.use_usb_version    = Bits(b[10], 16)
    /\ d.usb_version  = b[12] + 256 * b[13]

\* Of an image it is what the image was built from.
LEMMA CommonRound ==
  ASSUME NEW t, NEW e, Fits(t, e), NEW b, Holding(t, e, b), NEW d, Taken(d, b)
  PROVE  CommonBack(t, e, d)
<1>1. t \in Types /\ StructRight(e)
  BY DEF Fits
<1>2. /\ e.vendor_id \in Nat /\ e.product_id \in Nat /\ e.usb_version \in Nat /\ e.max_power \in Nat
  BY <1>1, FieldTypes
<1> DEFINE b8 == 128 + When(e.self_powered = 1, 64) + When(e.remote_wakeup = 1, 32)
<1>3. /\ b[2] = Low(e.vendor_id) /\ b[3] = High(e.vendor_id)
      /\ b[4] = Low(e.product_id) /\ b[5] = High(e.product_id)
      /\ b[8] = b8 /\ b[9] = Low(e.max_power \div 2) /\ b[10] = ChipConfig(t, e)
  <2> HIDE DEF b8
  <2>1. LET g == General(t, e)
        IN  /\ Has(g, 2, Low(e.vendor_id)) /\ Has(g, 3, High(e.vendor_id))
            /\ Has(g, 4, Low(e.product_id)) /\ Has(g, 5, High(e.product_id))
            /\ Has(g, 8, b8) /\ Has(g, 9, Low(e.max_power \div 2)) /\ Has(g, 10, ChipConfig(t, e))
    BY GeneralHas DEF b8
  <2> QED BY <2>1, HeldGeneral
<1>4. OneOf(e.vendor_id, d.vendor_id, Word) /\ OneOf(e.product_id, d.product_id, Word)
  BY <1>3, BytesOfWord DEF OneOf, Taken
<1>5. OneOf(e.max_power \div 2, d.max_power, Byte)
  BY <1>3, LowOfByte DEF OneOf, Taken
<1>6. SameFlag(e.self_powered, d.self_powered, 1) /\ SameFlag(e.remote_wakeup, d.remote_wakeup, 1)
  <2> DEFINE x64 == When(e.self_powered = 1, 64)
             x32 == When(e.remote_wakeup = 1, 32)
  <2>1. x64 \in {0, 64} /\ (x64 # 0) = (e.self_powered = 1)
    BY DEF When
  <2>2. x32 \in {0, 32} /\ (x32 # 0) = (e.remote_wakeup = 1)
    BY DEF When
  <2>3. b[8] = 128 + x64 + x32
    BY <1>3
  <2> HIDE DEF x64, x32, b8
  <2>4. b[8] = 0 + 0 + 0 + 0 + 0 + x32 + x64 + 128
    BY <2>1, <2>2, <2>3
  <2>5. Bits(b[8], 32) = x32 /\ Bits(b[8], 64) = x64
    BY <2>1, <2>2, <2>4, BitsOfSum
  <2> QED BY <2>1, <2>2, <2>5 DEF SameFlag, Taken
<1>7. t # "AM" => /\ SameFlag(e.in_is_isochronous, d.in_is_isochronous, 1)
                  /\ SameFlag(e.out_is_isochronous, d.out_is_isochronous, 1)
                  /\ t \notin {"BM", "232H"} => SameFlag(e.suspend_pull_downs, d.suspend_pull_downs, 1)
                  /\ SameTruth(e.use_serial, d.use_serial)
                  /\ t \in {"BM", "2232C"} => SameFlag(e.use_usb_version, d.use_usb_version, 16)
  <2> HAVE t # "AM"
  <2> DEFINE c == b[10]
  <2>1. /\ SameFlag(e.in_is_isochronous, Bits(c, 1), 1)
        /\ SameFlag(e.out_is_isochronous, Bits(c, 2), 1)
        /\ t \notin {"BM", "232H"} => SameFlag(e.suspend_pull_downs, Bits(c, 4), 1)
        /\ SameTruth(e.use_serial, Bits(c, 8) \div 8)
        /\ t \in {"BM", "2232C"} => SameFlag(e.use_usb_version, Bits(c, 16), 16)
    BY <1>1, <1>3, ConfigBits
  <2> QED BY <2>1 DEF Taken
<1>8. t \in {"BM", "2232C", "R"} => OneOf(e.usb_version, d.usb_version, Word)
  <2> HAVE t \in {"BM", "2232C", "R"}
  <2>1. LET s == Specific(t, e)
        IN  Has(s, 12, Low(e.usb_version)) /\ Has(s, 13, High(e.usb_version))
    BY UsbVersionHas, Has2232C, HasR DEF Specific, Older
  <2>2. b[12] = Low(e.usb_version) /\ b[13] = High(e.usb_version)
    BY <2>1, HeldSpecific
  <2> QED BY <2>2, BytesOfWord DEF OneOf, Taken
<1> QED BY <1>4, <1>5, <1>6, <1>7, <1>8 DEF CommonBack

\* What a channel's byte tells, with the flag that a 2232H has above it.
ChannelShows(n, mode, driver, current, top) ==
    /\ mode \in {0, 1, 2, 4} => n % 8 = mode /\ BitType(n % 8) = mode
    /\ (Bits(n, 8) # 0) = (driver = 8) /\ (Bits(n, 16) # 0) = (current = 16)
    /\ Bits(n, 128) = top

\* It tells what build has put there.
LEMMA ChannelRound ==
  ASSUME NEW t \in {"2232C", "2232H"}, NEW mode \in Nat, NEW driver, NEW current,
         NEW top \in {0, 128}, NEW n, n = Channel(t, mode, driver, current) + top
  PROVE  ChannelShows(n, mode, driver, current, top)
<1> DEFINE x1 == IF mode = 1 THEN 1 ELSE 0
           x2 == IF mode = 2 THEN 2 ELSE 0
           x4 == IF mode = 4 THEN 4 ELSE 0
           x8 == When(driver = 8, 8)
           x16 == When(current = 16, 16)
<1>1. x1 \in {0, 1} /\ x2 \in {0, 2} /\ x4 \in {0, 4}
  OBVIOUS
<1>2. x8 \in {0, 8} /\ (x8 # 0) = (driver = 8) /\ x16 \in {0, 16} /\ (x16 # 0) = (current = 16)
  BY DEF When
<1>3. TypeBits(t, mode) = x1 + x2 + x4
  BY DEF TypeBits, When
<1>4. mode \in {0, 1, 2, 4} => x1 + x2 + x4 = mode
  OBVIOUS
<1>5. n = TypeBits(t, mode) + x8 + x16 + top
  BY DEF Channel
<1> HIDE DEF x1, x2, x4, x8, x16
<1>6. n = x1 + x2 + x4 + x8 + x16 + 0 + 0 + top
  BY <1>1, <1>2, <1>3, <1>5
<1>7. Bits(n, 8) = x8 /\ Bits(n, 16) = x16 /\ Bits(n, 128) = top /\ n % 8 = x1 + x2 + x4
  BY <1>1, <1>2, <1>6, BitsOfSum
<1>8. mode \in {0, 1, 2, 4} => BitType(mode) = mode
  BY DEF BitType, When
<1> QED BY <1>2, <1>4, <1>7, <1>8 DEF ChannelShows

\* A pin group's nibble.
LEMMA GroupRound ==
  ASSUME NEW e, StructRight(e), NEW g \in 1 .. 4, NEW n, n = Group(e, g)
  PROVE  /\ n \in 0 .. 15
         /\ OneOf(e.drive[g], n % 4, 0 .. 3)
         /\ SameFlag(e.schmitt[g], Bits(n, 8), 8) /\ SameFlag(e.slew[g], Bits(n, 4), 4)
<1> DEFINE d == e.drive[g]
           low == IF d > 3 THEN 3 ELSE d
           x1 == low % 2
           x2 == 2 * (low \div 2)
           x4 == When(e.slew[g] = 4, 4)
           x8 == When(e.schmitt[g] = 8, 8)
<1>1. d \in Nat
  BY FieldTypes
<1>2. low \in 0 .. 3
  <2> HIDE DEF d
  <2> QED BY <1>1
<1>3. x1 \in {0, 1} /\ x2 \in {0, 2} /\ x1 + x2 = low
  <2> HIDE DEF low
  <2> QED BY <1>2
<1>4. x4 \in {0, 4} /\ (x4 # 0) = (e.slew[g] = 4) /\ x8 \in {0, 8} /\ (x8 # 0) = (e.schmitt[g] = 8)
  BY DEF When
<1>5. n = low + x8 + x4
  BY DEF Group
<1>6. d \in 0 .. 3 => low = d
  <2> HIDE DEF d
  <2> QED BY <1>1
<1> HIDE DEF low, x1, x2, x4, x8
<1>7. n = x1 + x2 + x4 + x8 + 0 + 0 + 0 + 0
  BY <1>2, <1>3, <1>4, <1>5
<1>8. Bits(n, 8) = x8 /\ Bits(n, 4) = x4
  BY <1>3, <1>4, <1>7, BitsOfSum
<1>9. n % 4 = low /\ n \in 0 .. 15
  BY <1>2, <1>4, <1>5
<1> QED BY <1>4, <1>6, <1>8, <1>9 DEF OneOf, SameFlag

\* A byte of two nibbles.
LEMMA NibblesApart ==
  ASSUME NEW a \in 0 .. 15, NEW b \in 0 .. 15, NEW n, n = a + 16 * b
  PROVE  n % 16 = a /\ n \div 16 = b
  OBVIOUS

\* The chip of the structure is in a byte of its own.
LEMMA ChipRound ==
  ASSUME NEW t \in Types \ {"AM", "BM", "R"}, NEW e, Fits(t, e), NEW b, Holding(t, e, b)
  PROVE  b[TypeAddress(t)] = Low(e.chip) /\ OneOf(e.chip, b[TypeAddress(t)], Byte)
<1>1. Has(Specific(t, e), TypeAddress(t), Low(e.chip))
  BY SpecificChip DEF Has
<1>2. TypeAddress(t) \in 0 .. 30
  BY DEF TypeAddress, Types, Older, Dual
<1>3. b[TypeAddress(t)] = Low(e.chip)
  BY <1>1, <1>2, HeldSpecific
<1> QED BY <1>3, LowOfByte DEF OneOf

\* What decode makes of the bytes a 2232C has for itself.
LEMMA Round2232C ==
  ASSUME NEW e, Fits("2232C", e), NEW b, Holding("2232C", e, b),
         NEW old, StructRight(old)
  PROVE  SpecificBack("2232C", e, Decoded2232C(old, b))
<1> DEFINE d == Decoded2232C(old, b)
           n0 == Channel("2232C", e.channel_type[1], e.driver[1], e.high_current_a)
           n1 == Channel("2232C", e.channel_type[2], e.driver[2], e.high_current_b)
<1>1. StructRight(e)
  BY DEF Fits
<1>2. b[0] = n0 /\ b[1] = n1
  <2>1. Specific("2232C", e) = Bytes2232C(e)
    BY DEF Specific, Older
  <2>2. Has(Specific("2232C", e), 0, n0) /\ Has(Specific("2232C", e), 1, n1)
    BY <2>1, Has2232C
  <2> HIDE DEF n0, n1
  <2> QED BY <2>2, HeldSpecific
<1>3. OneOf(e.chip, b[20], Byte)
  <2>1. "2232C" \in Types \ {"AM", "BM", "R"} /\ TypeAddress("2232C") = 20
    BY DEF TypeAddress, Types, Older, Dual
  <2> QED BY <2>1, ChipRound
<1>4. /\ e.channel_type[1] \in Nat /\ e.channel_type[2] \in Nat
  BY <1>1, FieldTypes
<1>5. b[0] = n0 + 0 /\ b[1] = n1 + 0
  <2>1. n0 \in 0 .. 32 /\ n1 \in 0 .. 32
    BY ChannelBits
  <2> HIDE DEF n0, n1
  <2> QED BY <1>2, <2>1
<1>6. /\ e.channel_type[1] \in {0, 1, 2, 4} => BitType(b[0] % 8) = e.channel_type[1]
      /\ (Bits(b[0], 8) # 0) = (e.driver[1] = 8) /\ (Bits(b[0], 16) # 0) = (e.high_current_a = 16)
  <2>1. ChannelShows(b[0], e.channel_type[1], e.driver[1], e.high_current_a, 0)
    BY <1>4, <1>5, ChannelRound
  <2> QED BY <2>1 DEF ChannelShows
<1>7. /\ e.channel_type[2] \in {0, 1, 2, 4} => b[1] % 8 = e.channel_type[2]
      /\ (Bits(b[1], 8) # 0) = (e.driver[2] = 8) /\ (Bits(b[1], 16) # 0) = (e.high_current_b = 16)
  <2>1. ChannelShows(b[1], e.channel_type[2], e.driver[2], e.high_current_b, 0)
    BY <1>4, <1>5, ChannelRound
  <2> QED BY <2>1 DEF ChannelShows
<1>8. {"channel_type", "driver", "high_current_a", "high_current_b", "chip"} \subseteq DOMAIN old
  BY DEF StructRight, Blank
<1>9. old.channel_type \in [1 .. 2 -> Nat] /\ old.driver \in [1 .. 4 -> Nat]
  BY FieldTypes
<1>10. d.channel_type[1] = BitType(b[0] % 8) /\ d.channel_type[2] = b[1] % 8
  BY <1>8, <1>9 DEF Decoded2232C
<1>11. d.driver[1] = Bits(b[0], 8) /\ d.driver[2] = Bits(b[1], 8)
  BY <1>8, <1>9 DEF Decoded2232C
<1>12. d.high_current_a = Bits(b[0], 16) /\ d.high_current_b = Bits(b[1], 16) /\ d.chip = b[20]
  BY <1>8 DEF Decoded2232C
<1> SUFFICES SpecificBack("2232C", e, d)
  OBVIOUS
<1> HIDE DEF d, n0, n1
<1>13. ChannelsBack(e, d, 2)
  <2>1. \A c \in 1 .. 2 : c = 1 \/ c = 2
    OBVIOUS
  <2> QED BY <1>6, <1>7, <1>10, <1>11, <2>1 DEF ChannelsBack, OneOf, SameFlag
<1> QED BY <1>3, <1>6, <1>7, <1>12, <1>13 DEF SpecificBack, Older, SameFlag

\* The functions of an R's five pins.
LEMMA CbusNibbles ==
  ASSUME NEW e, StructRight(e)
  PROVE  /\ Cbus(e, 1, 13, 3) \in 0 .. 13 /\ Cbus(e, 2, 13, 2) \in 0 .. 13
         /\ Cbus(e, 3, 13, 0) \in 0 .. 13 /\ Cbus(e, 4, 13, 1) \in 0 .. 13
         /\ Cbus(e, 5, 9, 5) \in 0 .. 13
<1>1. \A pin \in 1 .. 5 : e.cbus[pin] \in Nat
  <2>1. e.cbus \in [1 .. 10 -> Nat]
    BY FieldTypes
  <2> QED BY <2>1
<1> QED BY <1>1 DEF Cbus

\* What decode makes of the bytes an R has for itself.
LEMMA RoundR ==
  ASSUME NEW e, Fits("R", e), NEW b, Holding("R", e, b), NEW old, StructRight(old)
  PROVE  SpecificBack("R", e, DecodedR(old, b))
<1> DEFINE d == DecodedR(old, b)
           c1 == Cbus(e, 1, 13, 3)
           c2 == Cbus(e, 2, 13, 2)
           c3 == Cbus(e, 3, 13, 0)
           c4 == Cbus(e, 4, 13, 1)
           c5 == Cbus(e, 5, 9, 5)
           n0 == When(e.high_current = 4, 4)
<1>1. StructRight(e)
  BY DEF Fits
<1>2. /\ b[0] = n0 /\ b[11] = Low(e.invert)
      /\ b[20] = c1 + 16 * c2 /\ b[21] = c3 + 16 * c4 /\ b[22] = c5
  <2>1. Specific("R", e) = BytesR(e)
    BY DEF Specific, Older
  <2>2. LET s == Specific("R", e)
        IN  /\ Has(s, 0, n0) /\ Has(s, 11, Low(e.invert))
            /\ Has(s, 20, c1 + 16 * c2) /\ Has(s, 21, c3 + 16 * c4) /\ Has(s, 22, c5)
    BY <2>1, HasR
  <2> DEFINE s == Specific("R", e)
             v11 == Low(e.invert)
             v20 == c1 + 16 * c2
             v21 == c3 + 16 * c4
  <2> HIDE DEF n0, c1, c2, c3, c4, c5, v11, v20, v21
  <2>3. Has(s, 0, n0) /\ Has(s, 11, v11) /\ Has(s, 20, v20) /\ Has(s, 21, v21) /\ Has(s, 22, c5)
    BY <2>2 DEF v11, v20, v21
  <2>4. \A a \in 0 .. 30 : \A v : Has(s, a, v) => b[a] = v
    BY HeldSpecific
  <2> HIDE DEF s
  <2>5. b[0] = n0 /\ b[11] = v11 /\ b[20] = v20 /\ b[21] = v21 /\ b[22] = c5
    <3>1. 0 \in 0 .. 30 /\ 11 \in 0 .. 30 /\ 20 \in 0 .. 30 /\ 21 \in 0 .. 30 /\ 22 \in 0 .. 30
      OBVIOUS
    <3> QED BY ONLY <2>3, <2>4, <3>1
  <2> QED BY <2>5 DEF v11, v20, v21
<1>3. c1 \in 0 .. 13 /\ c2 \in 0 .. 13 /\ c3 \in 0 .. 13 /\ c4 \in 0 .. 13 /\ c5 \in 0 .. 13
  BY ONLY <1>1, CbusNibbles
<1>4. \A p \in 1 .. 5 : e.cbus[p] \in Nat
  <2>1. e.cbus \in [1 .. 10 -> Nat]
    BY <1>1, FieldTypes
  <2> QED BY <2>1
<1>5. /\ OneOf(e.cbus[1], c1, 0 .. 13) /\ OneOf(e.cbus[2], c2, 0 .. 13)
      /\ OneOf(e.cbus[3], c3, 0 .. 13) /\ OneOf(e.cbus[4], c4, 0 .. 13)
      /\ OneOf(e.cbus[5], c5, 0 .. 9)
  BY <1>4 DEF Cbus, OneOf
<1>6. SameFlag(e.high_current, Bits(n0, 4), 4)
  <2>1. n0 \in {0, 4} /\ (n0 # 0) = (e.high_current = 4)
    BY DEF When
  <2> HIDE DEF n0
  <2>2. Bits(n0, 4) = n0
    BY <2>1 DEF Bits
  <2> QED BY <2>1, <2>2 DEF SameFlag
<1>7. OneOf(e.invert, b[11], Byte)
  BY <1>2, LowOfByte DEF OneOf
<1>8. {"driver", "high_current", "chip", "invert", "cbus"} \subseteq DOMAIN old
  BY DEF StructRight, Blank
<1>9. old.cbus \in [1 .. 10 -> Nat] /\ old.driver \in [1 .. 4 -> Nat]
  BY FieldTypes
<1>10. /\ d.cbus[1] = b[20] % 16 /\ d.cbus[2] = b[20] \div 16 /\ d.cbus[3] = b[21] % 16
       /\ d.cbus[4] = b[21] \div 16 /\ d.cbus[5] = b[22] % 16
  BY <1>8, <1>9 DEF DecodedR
<1>11. d.high_current = Bits(b[0], 4) /\ d.invert = b[11]
  BY <1>8, <1>9 DEF DecodedR
<1> SUFFICES SpecificBack("R", e, d)
  OBVIOUS
<1> HIDE DEF d, n0, c1, c2, c3, c4, c5
<1>12. /\ b[20] % 16 = c1 /\ b[20] \div 16 = c2 /\ b[21] % 16 = c3 /\ b[21] \div 16 = c4
       /\ b[22] % 16 = c5
  BY <1>2, <1>3
<1>13. \A p \in 1 .. 4 : OneOf(e.cbus[p], d.cbus[p], 0 .. 13)
  <2>1. \A p \in 1 .. 4 : p = 1 \/ p = 2 \/ p = 3 \/ p = 4
    OBVIOUS
  <2> QED BY <1>5, <1>10, <1>12, <2>1
<1>14. OneOf(e.cbus[5], d.cbus[5], 0 .. 9)
  BY <1>5, <1>10, <1>12
<1> QED BY <1>2, <1>6, <1>7, <1>11, <1>13, <1>14 DEF SpecificBack, Older

\* What the four pin groups of a 2232H or 4232H come back as.
LEMMA FourGroupsRound ==
  ASSUME NEW e, StructRight(e), NEW b,
         b[12] = Group(e, 1) + 16 * Group(e, 2), b[13] = Group(e, 3) + 16 * Group(e, 4),
         NEW d, \A g \in 1 .. 4 : /\ d.drive[g] = Nibbles(b)[g] % 4
                                  /\ d.schmitt[g] = Bits(Nibbles(b)[g], 8)
                                  /\ d.slew[g] = Bits(Nibbles(b)[g], 4)
  PROVE  GroupsBack(e, d, 4)
<1>1. \A g \in 1 .. 4 : Group(e, g) \in 0 .. 15
  BY GroupNibble
<1>2. Group(e, 1) \in 0 .. 15 /\ Group(e, 2) \in 0 .. 15 /\ Group(e, 3) \in 0 .. 15 /\ Group(e, 4) \in 0 .. 15
  <2>1. 1 \in 1 .. 4 /\ 2 \in 1 .. 4 /\ 3 \in 1 .. 4 /\ 4 \in 1 .. 4
    OBVIOUS
  <2> QED BY <1>1, <2>1, Zenon
<1>3. /\ b[12] % 16 = Group(e, 1) /\ b[12] \div 16 = Group(e, 2)
      /\ b[13] % 16 = Group(e, 3) /\ b[13] \div 16 = Group(e, 4)
  BY <1>2, NibblesApart
<1>4. \A g \in 1 .. 4 : Nibbles(b)[g] = Group(e, g)
  <2>1. \A g \in 1 .. 4 : g = 1 \/ g = 2 \/ g = 3 \/ g = 4
    OBVIOUS
  <2> QED BY <1>3, <2>1 DEF Nibbles
<1>5. ASSUME NEW g \in 1 .. 4
      PROVE  /\ OneOf(e.drive[g], d.drive[g], 0 .. 3)
             /\ SameFlag(e.schmitt[g], d.schmitt[g], 8) /\ SameFlag(e.slew[g], d.slew[g], 4)
  <2> DEFINE n == Nibbles(b)[g]
  <2>1. n = Group(e, g)
    BY <1>4
  <2> HIDE DEF n
  <2>2. /\ OneOf(e.drive[g], n % 4, 0 .. 3)
        /\ SameFlag(e.schmitt[g], Bits(n, 8), 8) /\ SameFlag(e.slew[g], Bits(n, 4), 4)
    BY <2>1, GroupRound
  <2> QED BY <2>2 DEF n
<1> QED BY <1>5 DEF GroupsBack

\* and so the fields they are decoded to.
LEMMA Decoded4Is ==
  ASSUME NEW e, StructRight(e), NEW nibble
  PROVE  LET d == Decoded4(e, nibble)
         IN  /\ \A g \in 1 .. 4 : /\ d.drive[g] = nibble[g] % 4
                                  /\ d.schmitt[g] = Bits(nibble[g], 8)
                                  /\ d.slew[g] = Bits(nibble[g], 4)
             /\ ChangesOnly(e, d, {"drive", "schmitt", "slew"})
<1>1. {"drive", "schmitt", "slew"} \subseteq DOMAIN e
  BY DEF StructRight, Blank
<1> QED BY <1>1, Zenon DEF Decoded4, ChangesOnly

\* What decode makes of the bytes a 2232H has for itself.
LEMMA Round2232H ==
  ASSUME NEW e, Fits("2232H", e), NEW b, Holding("2232H", e, b),
         NEW old, StructRight(old)
  PROVE  SpecificBack("2232H", e, Decoded2232H(old, b))
<1> DEFINE d == Decoded2232H(old, b)
           f == Decoded4(old, Nibbles(b))
           n0 == Channel("2232H", e.channel_type[1], e.driver[1], 0)
           n1 == Channel("2232H", e.channel_type[2], e.driver[2], 0)
           top == When(e.suspend_dbus7 = 128, 128)
           n12 == Group(e, 1) + 16 * Group(e, 2)
           n13 == Group(e, 3) + 16 * Group(e, 4)
<1>1. StructRight(e)
  BY DEF Fits
<1>2. b[0] = n0 /\ b[1] = n1 + top /\ b[12] = n12 /\ b[13] = n13
  <2>1. Specific("2232H", e) = Bytes2232H(e)
    BY DEF Specific, Older
  <2>2. LET s == Specific("2232H", e)
        IN  Has(s, 0, n0) /\ Has(s, 1, n1 + top) /\ Has(s, 12, n12) /\ Has(s, 13, n13)
    BY <2>1, Has2232H
  <2> HIDE DEF n0, n1, n12, n13, top
  <2> QED BY <2>2, HeldSpecific
<1>3. OneOf(e.chip, b[24], Byte)
  <2>1. "2232H" \in Types \ {"AM", "BM", "R"} /\ TypeAddress("2232H") = 24
    BY DEF TypeAddress, Types, Older, Dual
  <2> QED BY <2>1, ChipRound
<1>4. /\ e.channel_type[1] \in Nat /\ e.channel_type[2] \in Nat
  BY <1>1, FieldTypes
<1>5. b[0] = n0 + 0
  <2>1. n0 \in 0 .. 32
    BY ChannelBits
  <2> HIDE DEF n0
  <2> QED BY <1>2, <2>1
<1>6. top \in {0, 128} /\ (top # 0) = (e.suspend_dbus7 = 128)
  BY DEF When
<1>7. /\ e.channel_type[1] \in {0, 1, 2, 4} => BitType(b[0] % 8) = e.channel_type[1]
      /\ (Bits(b[0], 8) # 0) = (e.driver[1] = 8)
  <2>1. ChannelShows(b[0], e.channel_type[1], e.driver[1], 0, 0)
    BY <1>4, <1>5, ChannelRound
  <2> QED BY <2>1 DEF ChannelShows
<1>8. /\ e.channel_type[2] \in {0, 1, 2, 4} => BitType(b[1] % 8) = e.channel_type[2]
      /\ (Bits(b[1], 8) # 0) = (e.driver[2] = 8) /\ Bits(b[1], 128) = top
  <2> HIDE DEF top
  <2>1. ChannelShows(b[1], e.channel_type[2], e.driver[2], 0, top)
    BY <1>2, <1>4, <1>6, ChannelRound
  <2> QED BY <2>1 DEF ChannelShows
<1>9. /\ \A g \in 1 .. 4 : /\ f.drive[g] = Nibbles(b)[g] % 4
                           /\ f.schmitt[g] = Bits(Nibbles(b)[g], 8)
                           /\ f.slew[g] = Bits(Nibbles(b)[g], 4)
      /\ ChangesOnly(old, f, {"drive", "schmitt", "slew"})
  BY Decoded4Is
<1>10. {"channel_type", "driver", "suspend_dbus7", "chip", "drive", "schmitt", "slew"} \subseteq DOMAIN f
  BY <1>9 DEF ChangesOnly, StructRight, Blank
<1>11. f.channel_type \in [1 .. 2 -> Nat] /\ f.driver \in [1 .. 4 -> Nat]
  <2>1. f.channel_type = old.channel_type /\ f.driver = old.driver
    BY <1>9, <1>10 DEF ChangesOnly
  <2> QED BY <2>1, FieldTypes
<1>12. d = [f EXCEPT !.driver[1] = Bits(b[0], 8), !.driver[2] = Bits(b[1], 8),
              !.channel_type[1] = BitType(b[0] % 8), !.channel_type[2] = BitType(b[1] % 8),
              !.suspend_dbus7 = Bits(b[1], 128), !.chip = b[24]]
  BY DEF Decoded2232H
<1> SUFFICES SpecificBack("2232H", e, d)
  OBVIOUS
<1> HIDE DEF d, f, n0, n1, top
<1>13. d.channel_type[1] = BitType(b[0] % 8) /\ d.channel_type[2] = BitType(b[1] % 8)
  BY <1>10, <1>11, <1>12
<1>14. d.driver[1] = Bits(b[0], 8) /\ d.driver[2] = Bits(b[1], 8)
  BY <1>10, <1>11, <1>12
<1>15. /\ d.suspend_dbus7 = Bits(b[1], 128) /\ d.chip = b[24]
       /\ d.drive = f.drive /\ d.schmitt = f.schmitt /\ d.slew = f.slew
  BY <1>10, <1>12
<1>16. ChannelsBack(e, d, 2)
  <2>1. \A c \in 1 .. 2 : c = 1 \/ c = 2
    OBVIOUS
  <2> QED BY <1>7, <1>8, <1>13, <1>14, <2>1 DEF ChannelsBack, OneOf, SameFlag
<1>17. GroupsBack(e, d, 4)
  BY <1>1, <1>2, <1>9, <1>15, FourGroupsRound
<1> QED BY <1>3, <1>6, <1>8, <1>15, <1>16, <1>17 DEF SpecificBack, Older, SameFlag

\* The bytes of a 4232H's drivers: two bits of a byte.
LEMMA DriverRound ==
  ASSUME NEW a, NEW c, NEW n, n = When(a = 8, 8) + 16 * When(c = 8, 8)
  PROVE  SameFlag(a, Bits(n, 8), 8) /\ SameFlag(c, Bits(n \div 16, 8), 8)
<1> DEFINE x == When(a = 8, 8)
           y == When(c = 8, 8)
<1>1. x \in {0, 8} /\ (x # 0) = (a = 8) /\ y \in {0, 8} /\ (y # 0) = (c = 8)
  BY DEF When
<1>2. n = x + 16 * y
  OBVIOUS
<1> HIDE DEF x, y
<1>3. Bits(n, 8) = x /\ Bits(n \div 16, 8) = y
  BY <1>1, <1>2 DEF Bits
<1> QED BY <1>1, <1>3 DEF SameFlag

\* What decode makes of the bytes a 4232H has for itself.
LEMMA Round4232H ==
  ASSUME NEW e, Fits("4232H", e), NEW b, Holding("4232H", e, b),
         NEW old, StructRight(old)
  PROVE  SpecificBack("4232H", e, Decoded4232H(old, b))
<1> DEFINE d == Decoded4232H(old, b)
           f == Decoded4(old, Nibbles(b))
           n0 == When(e.driver[1] = 8, 8) + 16 * When(e.driver[3] = 8, 8)
           n1 == When(e.driver[2] = 8, 8) + 16 * When(e.driver[4] = 8, 8)
           x16 == When(e.rs485[1] # 0, 16)
           x32 == When(e.rs485[2] # 0, 32)
           x64 == When(e.rs485[3] # 0, 64)
           x128 == When(e.rs485[4] # 0, 128)
           n11 == x16 + x32 + x64 + x128
           n12 == Group(e, 1) + 16 * Group(e, 2)
           n13 == Group(e, 3) + 16 * Group(e, 4)
<1>1. StructRight(e)
  BY DEF Fits
<1>2. b[0] = n0 /\ b[1] = n1 /\ b[11] = n11 /\ b[12] = n12 /\ b[13] = n13
  <2>1. Specific("4232H", e) = Bytes4232H(e)
    BY DEF Specific, Older
  <2>2. LET s == Specific("4232H", e)
        IN  /\ Has(s, 0, n0) /\ Has(s, 1, n1) /\ Has(s, 11, n11)
            /\ Has(s, 12, n12) /\ Has(s, 13, n13)
    BY <2>1, Has4232H
  <2> HIDE DEF n0, n1, n11, n12, n13
  <2> QED BY <2>2, HeldSpecific
<1>3. OneOf(e.chip, b[24], Byte)
  <2>1. "4232H" \in Types \ {"AM", "BM", "R"} /\ TypeAddress("4232H") = 24
    BY DEF TypeAddress, Types, Older, Dual
  <2> QED BY <2>1, ChipRound
<1>4. /\ SameFlag(e.driver[1], Bits(b[0], 8), 8) /\ SameFlag(e.driver[3], Bits(b[0] \div 16, 8), 8)
      /\ SameFlag(e.driver[2], Bits(b[1], 8), 8) /\ SameFlag(e.driver[4], Bits(b[1] \div 16, 8), 8)
  <2>1. /\ b[0] = When(e.driver[1] = 8, 8) + 16 * When(e.driver[3] = 8, 8)
        /\ b[1] = When(e.driver[2] = 8, 8) + 16 * When(e.driver[4] = 8, 8)
    BY <1>2
  <2> HIDE DEF n0, n1
  <2>2. SameFlag(e.driver[1], Bits(b[0], 8), 8) /\ SameFlag(e.driver[3], Bits(b[0] \div 16, 8), 8)
    BY <2>1, DriverRound
  <2>3. SameFlag(e.driver[2], Bits(b[1], 8), 8) /\ SameFlag(e.driver[4], Bits(b[1] \div 16, 8), 8)
    BY <2>1, DriverRound
  <2> QED BY <2>2, <2>3
<1>5. /\ SameTruth(e.rs485[1], Bits(b[11], 16)) /\ SameTruth(e.rs485[2], Bits(b[11], 32))
      /\ SameTruth(e.rs485[3], Bits(b[11], 64)) /\ SameTruth(e.rs485[4], Bits(b[11], 128))
  <2>1. /\ x16 \in {0, 16} /\ (x16 # 0) = (e.rs485[1] # 0)
        /\ x32 \in {0, 32} /\ (x32 # 0) = (e.rs485[2] # 0)
        /\ x64 \in {0, 64} /\ (x64 # 0) = (e.rs485[3] # 0)
        /\ x128 \in {0, 128} /\ (x128 # 0) = (e.rs485[4] # 0)
    BY DEF When
  <2>2. b[11] = x16 + x32 + x64 + x128
    BY <1>2
  <2> HIDE DEF x16, x32, x64, x128, n11
  <2>3. b[11] = 0 + 0 + 0 + 0 + x16 + x32 + x64 + x128
    BY <2>1, <2>2
  <2>4. /\ Bits(b[11], 16) = x16 /\ Bits(b[11], 32) = x32 /\ Bits(b[11], 64) = x64
        /\ Bits(b[11], 128) = x128
    BY <2>1, <2>3, BitsOfSum
  <2> QED BY <2>1, <2>4 DEF SameTruth
<1>6. /\ \A g \in 1 .. 4 : /\ f.drive[g] = Nibbles(b)[g] % 4
                           /\ f.schmitt[g] = Bits(Nibbles(b)[g], 8)
                           /\ f.slew[g] = Bits(Nibbles(b)[g], 4)
      /\ ChangesOnly(old, f, {"drive", "schmitt", "slew"})
  BY Decoded4Is
<1>7. {"driver", "rs485", "chip", "drive", "schmitt", "slew"} \subseteq DOMAIN f
  BY <1>6 DEF ChangesOnly, StructRight, Blank
<1> DEFINE drivers == <<Bits(b[0], 8), Bits(b[1], 8), Bits(b[0] \div 16, 8), Bits(b[1] \div 16, 8)>>
           rs == <<Bits(b[11], 16), Bits(b[11], 32), Bits(b[11], 64), Bits(b[11], 128)>>
<1>8. d = [f EXCEPT !.driver = drivers, !.rs485 = rs, !.chip = b[24]]
  BY DEF Decoded4232H
<1> SUFFICES SpecificBack("4232H", e, d)
  OBVIOUS
<1>9. /\ d.driver = drivers /\ d.rs485 = rs /\ d.chip = b[24]
      /\ d.drive = f.drive /\ d.schmitt = f.schmitt /\ d.slew = f.slew
  <2> HIDE DEF d, f, drivers, rs
  <2> QED BY <1>7, <1>8
<1> HIDE DEF d, f, n0, n1, n11
<1>10. \A c \in 1 .. 4 : SameFlag(e.driver[c], d.driver[c], 8) /\ SameTruth(e.rs485[c], d.rs485[c])
  <2>1. \A c \in 1 .. 4 : c = 1 \/ c = 2 \/ c = 3 \/ c = 4
    OBVIOUS
  <2> QED BY <1>4, <1>5, <1>9, <2>1
<1>11. GroupsBack(e, d, 4)
  BY <1>1, <1>2, <1>6, <1>9, FourGroupsRound
<1> QED BY <1>3, <1>9, <1>10, <1>11 DEF SpecificBack, Older

\* A pair of a 232H's CBUS pins gives back the even one.
LEMMA AcbusRound ==
  ASSUME NEW e, StructRight(e), NEW i \in 0 .. 4, NEW n, n = AcbusPair(e, i)
  PROVE  OneOf(e.cbus[2*i + 1], n % 16, 0 .. 12)
<1> DEFINE p == e.cbus[2*i + 1]
           q == e.cbus[2*i + 2]
<1>1. p \in Nat
  <2>1. e.cbus \in [1 .. 10 -> Nat] /\ 2*i + 1 \in 1 .. 10
    BY FieldTypes
  <2> QED BY <2>1
<1>2. n = When(p <= 12, p) + When(q <= 12, Low(16 * p))
  BY DEF AcbusPair
<1> HIDE DEF p, q
<1>3. ASSUME p \in 0 .. 12
      PROVE  n % 16 = p
  <2>1. When(p <= 12, p) = p /\ When(q <= 12, Low(16 * p)) \in {0, 16 * p}
    BY <1>3 DEF When, Low
  <2> QED BY <1>2, <1>3, <2>1
<1> QED BY <1>3 DEF OneOf, p

\* The first byte of a 232H: the type of the channel in its low nibble.
LEMMA FirstByteRound ==
  ASSUME NEW mode \in Nat, NEW driver, NEW n, n = TypeBits("232H", mode) + When(driver = 8, 16)
  PROVE  OneOf(mode, n % 16, {0, 1, 2, 4, 8}) /\ SameFlag(driver, Bits(n, 16) \div 2, 8)
<1> DEFINE x1 == IF mode = 1 THEN 1 ELSE 0
           x2 == IF mode = 2 THEN 2 ELSE 0
           x4 == IF mode = 4 THEN 4 ELSE 0
           x8 == IF mode = 8 THEN 8 ELSE 0
           x16 == When(driver = 8, 16)
<1>1. x1 \in {0, 1} /\ x2 \in {0, 2} /\ x4 \in {0, 4} /\ x8 \in {0, 8}
  OBVIOUS
<1>2. x16 \in {0, 16} /\ (x16 # 0) = (driver = 8)
  BY DEF When
<1>3. TypeBits("232H", mode) = x1 + x2 + x4 + x8
  BY DEF TypeBits, When
<1>4. mode \in {0, 1, 2, 4, 8} => x1 + x2 + x4 + x8 = mode
  OBVIOUS
<1> HIDE DEF x1, x2, x4, x8, x16
<1>5. n = TypeBits("232H", mode) + x16
  BY DEF x16
<1>6. n = x1 + x2 + x4 + x8 + x16 + 0 + 0 + 0
  BY <1>1, <1>2, <1>3, <1>5
<1>7. Bits(n, 16) = x16 /\ n % 16 = x1 + x2 + x4 + x8
  BY <1>1, <1>2, <1>6, BitsOfSum
<1>8. (x16 \div 2 # 0) = (x16 # 0)
  BY <1>2
<1> QED BY <1>2, <1>4, <1>7, <1>8 DEF OneOf, SameFlag

\* Its second: flags.
LEMMA SecondByteRound ==
  ASSUME NEW e, NEW n, n = When(e.powersave # 0, 128) + When(e.clock_polarity # 0, 1)
                             + When(e.data_order # 0, 2) + When(e.flow_control # 0, 4)
  PROVE  /\ SameTruth(e.powersave, Bits(n, 128)) /\ SameTruth(e.clock_polarity, Bits(n, 1))
         /\ SameTruth(e.data_order, Bits(n, 2)) /\ SameTruth(e.flow_control, Bits(n, 4))
<1> DEFINE x1 == When(e.clock_polarity # 0, 1)
           x2 == When(e.data_order # 0, 2)
           x4 == When(e.flow_control # 0, 4)
           x128 == When(e.powersave # 0, 128)
<1>1. /\ x1 \in {0, 1} /\ (x1 # 0) = (e.clock_polarity # 0)
      /\ x2 \in {0, 2} /\ (x2 # 0) = (e.data_order # 0)
      /\ x4 \in {0, 4} /\ (x4 # 0) = (e.flow_control # 0)
      /\ x128 \in {0, 128} /\ (x128 # 0) = (e.powersave # 0)
  BY DEF When
<1>2. n = x128 + x1 + x2 + x4
  OBVIOUS
<1> HIDE DEF x1, x2, x4, x128
<1>3. n = x1 + x2 + x4 + 0 + 0 + 0 + 0 + x128
  BY <1>1, <1>2
<1>4. Bits(n, 1) = x1 /\ Bits(n, 2) = x2 /\ Bits(n, 4) = x4 /\ Bits(n, 128) = x128
  BY <1>1, <1>3, BitsOfSum
<1> QED BY <1>1, <1>4 DEF SameTruth

\* What decode makes of the bytes a 232H has for itself, but for the odd CBUS pins.
LEMMA Round232H ==
  ASSUME NEW e, Fits("232H", e), NEW b, Holding("232H", e, b),
         NEW old, StructRight(old)
  PROVE  SpecificBack("232H", e, Decoded232H(old, b))
<1> DEFINE d == Decoded232H(old, b)
           m == Decoded4(old, <<b[12], b[13], 0, 0>>)
           pins == [p \in 1 .. 10 |-> IF p % 2 = 1 THEN b[24 + (p - 1) \div 2] % 16
                                      ELSE b[24 + (p - 1) \div 2] \div 16]
           n0 == TypeBits("232H", e.channel_type[1]) + When(e.driver[1] = 8, 16)
           n1 == When(e.powersave # 0, 128) + When(e.clock_polarity # 0, 1)
                 + When(e.data_order # 0, 2) + When(e.flow_control # 0, 4)
<1>1. StructRight(e)
  BY DEF Fits
<1>2. LET s == Specific("232H", e)
      IN  /\ Has(s, 0, n0) /\ Has(s, 1, n1) /\ Has(s, 12, Group(e, 1)) /\ Has(s, 13, Group(e, 2))
          /\ \A a \in 24 .. 28 : Has(s, a, AcbusPair(e, a - 24))
  <2>1. Specific("232H", e) = Bytes232H(e)
    BY DEF Specific, Older
  <2> QED BY <2>1, Has232H
<1>3. /\ b[0] = n0 /\ b[1] = n1 /\ b[12] = Group(e, 1) /\ b[13] = Group(e, 2)
      /\ \A a \in 24 .. 28 : b[a] = AcbusPair(e, a - 24)
  <2> HIDE DEF n0, n1
  <2> QED BY <1>2, HeldSpecific
<1>4. OneOf(e.chip, b[30], Byte)
  <2>1. "232H" \in Types \ {"AM", "BM", "R"} /\ TypeAddress("232H") = 30
    BY DEF TypeAddress, Types, Older, Dual
  <2> QED BY <2>1, ChipRound
<1>5. /\ OneOf(e.channel_type[1], b[0] % 16, {0, 1, 2, 4, 8})
      /\ SameFlag(e.driver[1], Bits(b[0], 16) \div 2, 8)
  <2>1. e.channel_type[1] \in Nat
    BY <1>1, FieldTypes
  <2> QED BY <1>3, <2>1, FirstByteRound
<1>6. /\ SameTruth(e.powersave, Bits(b[1], 128)) /\ SameTruth(e.clock_polarity, Bits(b[1], 1))
      /\ SameTruth(e.data_order, Bits(b[1], 2)) /\ SameTruth(e.flow_control, Bits(b[1], 4))
  <2>1. b[1] = When(e.powersave # 0, 128) + When(e.clock_polarity # 0, 1)
               + When(e.data_order # 0, 2) + When(e.flow_control # 0, 4)
    BY <1>3
  <2> HIDE DEF n1
  <2> QED BY <2>1, SecondByteRound
<1>7. /\ \A g \in 1 .. 4 : /\ m.drive[g] = <<b[12], b[13], 0, 0>>[g] % 4
                           /\ m.schmitt[g] = Bits(<<b[12], b[13], 0, 0>>[g], 8)
                           /\ m.slew[g] = Bits(<<b[12], b[13], 0, 0>>[g], 4)
  BY Decoded4Is
<1>8. DOMAIN old = DOMAIN Blank /\ old.channel_type \in [1 .. 2 -> Nat] /\ old.driver \in [1 .. 4 -> Nat]
  BY FieldTypes DEF StructRight
<1>9. d = [old EXCEPT !.channel_type[1] = b[0] % 16, !.driver[1] = Bits(b[0], 16) \div 2,
                      !.clock_polarity = Bits(b[1], 1), !.data_order = Bits(b[1], 2),
                      !.flow_control = Bits(b[1], 4), !.powersave = Bits(b[1], 128),
                      !.drive   = FirstTwo(m.drive, old.drive),
                      !.schmitt = FirstTwo(m.schmitt, old.schmitt),
                      !.slew    = FirstTwo(m.slew, old.slew),
                      !.cbus = pins, !.chip = b[30]]
  <2>1. pins = [p \in 1 .. 10 |-> IF p % 2 = 1
                  THEN [q \in 1 .. 10 |-> b[24 + (q - 1) \div 2]][p] % 16
                  ELSE [q \in 1 .. 10 |-> b[24 + (q - 1) \div 2]][p] \div 16]
    OBVIOUS
  <2> HIDE DEF pins
  <2> QED BY <2>1 DEF Decoded232H
<1>10. \A p \in {1, 3, 5, 7, 9} : OneOf(e.cbus[p], pins[p], 0 .. 12)
  <2> SUFFICES ASSUME NEW i \in 0 .. 4
               PROVE  OneOf(e.cbus[2*i + 1], pins[2*i + 1], 0 .. 12)
    <3>1. \A p \in {1, 3, 5, 7, 9} : \E i \in 0 .. 4 : p = 2*i + 1
      <4>1. 1 = 2*0 + 1 /\ 3 = 2*1 + 1 /\ 5 = 2*2 + 1 /\ 7 = 2*3 + 1 /\ 9 = 2*4 + 1
        OBVIOUS
      <4> QED BY <4>1
    <3> HIDE DEF pins
    <3> QED BY <3>1
  <2>1. 24 + (2*i + 1 - 1) \div 2 = 24 + i /\ 2*i + 1 \in 1 .. 10 /\ (2*i + 1) % 2 = 1
    OBVIOUS
  <2>2. pins[2*i + 1] = b[24 + i] % 16
    BY <2>1
  <2>3. 24 + i \in 24 .. 28 /\ (24 + i) - 24 = i
    OBVIOUS
  <2>4. b[24 + i] = AcbusPair(e, i)
    BY <1>3, <2>3
  <2> HIDE DEF pins
  <2> QED BY <1>1, <2>2, <2>4, AcbusRound
<1> SUFFICES SpecificBack("232H", e, d)
  OBVIOUS
<1> DEFINE drives == FirstTwo(m.drive, old.drive)
           schmitts == FirstTwo(m.schmitt, old.schmitt)
           slews == FirstTwo(m.slew, old.slew)
<1>11. \A g \in 1 .. 2 : /\ drives[g] = m.drive[g] /\ schmitts[g] = m.schmitt[g]
                         /\ slews[g] = m.slew[g]
  BY DEF FirstTwo
<1> HIDE DEF d, m, pins, n0, n1, drives, schmitts, slews
<1>12. d.channel_type[1] = b[0] % 16 /\ d.driver[1] = Bits(b[0], 16) \div 2
  BY <1>8, <1>9 DEF Blank
<1>13. /\ d.clock_polarity = Bits(b[1], 1) /\ d.data_order = Bits(b[1], 2)
       /\ d.flow_control = Bits(b[1], 4) /\ d.powersave = Bits(b[1], 128)
  BY <1>8, <1>9 DEF Blank
<1>14. /\ d.drive = drives /\ d.schmitt = schmitts /\ d.slew = slews
       /\ d.cbus = pins /\ d.chip = b[30]
  BY <1>8, <1>9 DEF Blank, drives, schmitts, slews
<1>15. GroupsBack(e, d, 2)
  <2> SUFFICES ASSUME NEW g \in 1 .. 2
               PROVE  /\ OneOf(e.drive[g], d.drive[g], 0 .. 3)
                      /\ SameFlag(e.schmitt[g], d.schmitt[g], 8)
                      /\ SameFlag(e.slew[g], d.slew[g], 4)
    BY DEF GroupsBack
  <2>1. g \in 1 .. 4 /\ (g = 1 \/ g = 2)
    OBVIOUS
  <2> DEFINE n == <<b[12], b[13], 0, 0>>[g]
  <2>2. n = Group(e, g)
    BY <1>3, <2>1
  <2> HIDE DEF n
  <2>3. /\ OneOf(e.drive[g], n % 4, 0 .. 3)
        /\ SameFlag(e.schmitt[g], Bits(n, 8), 8) /\ SameFlag(e.slew[g], Bits(n, 4), 4)
    BY <1>1, <2>1, <2>2, GroupRound
  <2>4. m.drive[g] = n % 4 /\ m.schmitt[g] = Bits(n, 8) /\ m.slew[g] = Bits(n, 4)
    BY <1>7, <2>1 DEF n
  <2> QED BY <1>11, <1>14, <2>3, <2>4
<1> QED BY <1>4, <1>5, <1>6, <1>10, <1>12, <1>13, <1>14, <1>15 DEF SpecificBack, Older, Dual, SameFlag, SameTruth, OneOf

\* The fields that decode sets for a right checksum only.
TypesFields == {"channel_type", "driver", "high_current", "high_current_a", "high_current_b", "invert",
                "cbus", "drive", "schmitt", "slew", "rs485", "suspend_dbus7", "clock_polarity",
                "data_order", "flow_control", "powersave", "chip"}

\* It leaves the others,
LEMMA OthersKept ==
  ASSUME NEW t \in Types, NEW old, StructRight(old), NEW b
  PROVE  ChangesOnly(old, DecodedSpecific(t, old, b), TypesFields)
<1> DEFINE e == [old EXCEPT !.channel_type[1] = 0]
           d == DecodedSpecific(t, old, b)
<1>1. ChangesOnly(old, e, TypesFields)
  BY DEF ChangesOnly, TypesFields
<1>2. d = CASE t \in Older -> [e EXCEPT !.chip = -1]
            [] t = "2232C" -> Decoded2232C(e, b)
            [] t = "R"     -> DecodedR(e, b)
            [] t = "2232H" -> Decoded2232H(e, b)
            [] t = "4232H" -> Decoded4232H(e, b)
            [] t = "232H"  -> Decoded232H(e, b)
  BY DEF DecodedSpecific
<1>3. ChangesOnly(e, [e EXCEPT !.chip = -1], TypesFields)
  BY DEF ChangesOnly, TypesFields
<1> HIDE DEF d, e
<1>4. \A f : ChangesOnly(e, f, TypesFields) => ChangesOnly(old, f, TypesFields)
  BY <1>1 DEF ChangesOnly
<1>5. ChangesOnly(e, Decoded2232C(e, b), TypesFields)
  BY Zenon DEF ChangesOnly, TypesFields, Decoded2232C
<1>6. ChangesOnly(e, DecodedR(e, b), TypesFields)
  BY Zenon DEF ChangesOnly, TypesFields, DecodedR
<1>7. ChangesOnly(e, Decoded2232H(e, b), TypesFields)
  BY Zenon DEF ChangesOnly, TypesFields, Decoded2232H, Decoded4
<1>8. ChangesOnly(e, Decoded4232H(e, b), TypesFields)
  BY Zenon DEF ChangesOnly, TypesFields, Decoded4232H, Decoded4
<1>9. ChangesOnly(e, Decoded232H(e, b), TypesFields)
  <2> DEFINE m == Decoded4(e, <<b[12], b[13], 0, 0>>)
             bytes == [p \in 1 .. 10 |-> b[24 + (p - 1) \div 2]]
             pins == [p \in 1 .. 10 |-> IF p % 2 = 1 THEN bytes[p] % 16 ELSE bytes[p] \div 16]
  <2>1. Decoded232H(e, b) =
          [e EXCEPT !.channel_type[1] = b[0] % 16, !.driver[1] = Bits(b[0], 16) \div 2,
                    !.clock_polarity = Bits(b[1], 1), !.data_order = Bits(b[1], 2),
                    !.flow_control = Bits(b[1], 4), !.powersave = Bits(b[1], 128),
                    !.drive   = FirstTwo(m.drive, e.drive),
                    !.schmitt = FirstTwo(m.schmitt, e.schmitt),
                    !.slew    = FirstTwo(m.slew, e.slew),
                    !.cbus = pins, !.chip = b[30]]
    BY DEF Decoded232H
  <2> HIDE DEF m, pins
  <2> QED BY <2>1, Zenon DEF ChangesOnly, TypesFields
<1>10. ChangesOnly(e, d, TypesFields)
  BY <1>2, <1>3, <1>5, <1>6, <1>7, <1>8, <1>9 DEF Types, Older, Dual
<1> QED BY <1>4, <1>10 DEF d

\* and gives back the type's own.
LEMMA SpecificRound ==
  ASSUME NEW t, NEW e, Fits(t, e), NEW b, Holding(t, e, b),
         NEW old, StructRight(old)
  PROVE  SpecificBack(t, e, DecodedSpecific(t, old, b))
<1> DEFINE f == [old EXCEPT !.channel_type[1] = 0]
<1>1. t \in Types
  BY DEF Fits
<1>2. StructRight(f)
  BY ResetRight
<1> HIDE DEF f
<1>3. CASE t \in Older
  <2>1. t = "AM" \/ t = "BM"
    BY <1>3 DEF Older
  <2> QED BY <2>1 DEF SpecificBack, Older
<1>4. CASE t = "2232C"
  <2>1. DecodedSpecific(t, old, b) = Decoded2232C(f, b)
    BY <1>4 DEF DecodedSpecific, Older, f
  <2> QED BY <1>2, <1>4, <2>1, Round2232C
<1>5. CASE t = "R"
  <2>1. DecodedSpecific(t, old, b) = DecodedR(f, b)
    BY <1>5 DEF DecodedSpecific, Older, f
  <2> QED BY <1>2, <1>5, <2>1, RoundR
<1>6. CASE t = "2232H"
  <2>1. DecodedSpecific(t, old, b) = Decoded2232H(f, b)
    BY <1>6 DEF DecodedSpecific, Older, f
  <2> QED BY <1>2, <1>6, <2>1, Round2232H
<1>7. CASE t = "4232H"
  <2>1. DecodedSpecific(t, old, b) = Decoded4232H(f, b)
    BY <1>7 DEF DecodedSpecific, Older, f
  <2> QED BY <1>2, <1>7, <2>1, Round4232H
<1>8. CASE t = "232H"
  <2>1. DecodedSpecific(t, old, b) = Decoded232H(f, b)
    BY <1>8 DEF DecodedSpecific, Older, f
  <2> QED BY <1>2, <1>8, <2>1, Round232H
<1> QED BY <1>1, <1>3, <1>4, <1>5, <1>6, <1>7, <1>8 DEF Types, Older, Dual

-----------------------------------------------------------------------------
(* The strings of an image, and where decode finds them.                   *)

\* The strings decode finds, whatever the checksum is,
LEMMA CommonStrings ==
  ASSUME NEW old, StructRight(old), NEW b, NEW beyond
  PROVE  LET c == DecodedCommon(old, b, beyond)
         IN  /\ c.manufacturer = DecodedString(b, old.size, 14, beyond)
             /\ c.product      = DecodedString(b, old.size, 16, beyond)
             /\ c.serial       = DecodedString(b, old.size, 18, beyond)
<1> DEFINE m == DecodedString(b, old.size, 14, beyond)
           p == DecodedString(b, old.size, 16, beyond)
           n == DecodedString(b, old.size, 18, beyond)
<1>1. {"manufacturer", "product", "serial"} \subseteq DOMAIN old
  BY DEF StructRight, Blank
<1> HIDE DEF m, p, n
<1>2. DecodedCommon(old, b, beyond) =
        [old EXCEPT !.vendor_id  = b[2] + 256 * b[3],
            !.product_id = b[4] + 256 * b[5],
            !.self_powered = Bits(b[8], 64), !.remote_wakeup = Bits(b[8], 32),
            !.max_power = b[9],
            !.in_is_isochronous  = Bits(b[10], 1), !.out_is_isochronous = Bits(b[10], 2),
            !.suspend_pull_downs = Bits(b[10], 4), !.use_serial = Bits(b[10], 8) \div 8,
            !.use_usb_version    = Bits(b[10], 16),
            !.usb_version  = b[12] + 256 * b[13],
            !.manufacturer = m, !.product = p, !.serial = n]
  BY DEF DecodedCommon, m, p, n
<1> QED BY <1>1, <1>2 DEF m, p, n

\* and all it sets then.
LEMMA CommonFields ==
  ASSUME NEW t \in Types, NEW old, StructRight(old), NEW b \in [Address -> Byte], NEW beyond \in Byte
  PROVE  LET d == DecodedSpecific(t, DecodedCommon(old, b, beyond), b)
         IN  /\ Taken(d, b)
             /\ d.manufacturer = DecodedString(b, old.size, 14, beyond)
             /\ d.product      = DecodedString(b, old.size, 16, beyond)
             /\ d.serial       = DecodedString(b, old.size, 18, beyond)
<1> DEFINE c == DecodedCommon(old, b, beyond)
           d == DecodedSpecific(t, c, b)
           m == DecodedString(b, old.size, 14, beyond)
           p == DecodedString(b, old.size, 16, beyond)
           n == DecodedString(b, old.size, 18, beyond)
           shared == {"vendor_id", "product_id", "self_powered", "remote_wakeup", "max_power",
                      "in_is_isochronous", "out_is_isochronous", "suspend_pull_downs",
                      "use_serial", "use_usb_version", "usb_version",
                      "manufacturer", "product", "serial"}
<1>1. shared \subseteq DOMAIN old
  BY DEF StructRight, Blank
<1>2. Taken(c, b)
  BY <1>1 DEF DecodedCommon, Taken
<1>3. c.manufacturer = m /\ c.product = p /\ c.serial = n
  BY CommonStrings
<1>4. StructRight(c)
  BY CommonRight
<1> HIDE DEF c
<1>5. ChangesOnly(c, d, TypesFields)
  BY <1>4, OthersKept
<1>6. shared \subseteq DOMAIN c /\ shared \cap TypesFields = {}
  BY <1>1, <1>4 DEF StructRight, TypesFields
<1> HIDE DEF d, m, p, n
<1>7. \A f \in shared : d[f] = c[f]
  BY <1>5, <1>6 DEF ChangesOnly
<1>8. Taken(d, b)
  BY <1>2, <1>7 DEF Taken
<1>9. d.manufacturer = m /\ d.product = p /\ d.serial = n
  BY <1>3, <1>7
<1> QED BY <1>8, <1>9 DEF d, c, m, p, n

\* The text has the characters of s from x on, each two bytes after the last.
TextHas(text, x, s) == \A j \in 1 .. Len(s) : /\ x + 2 * j + 1 \in 1 .. Len(text)
                                              /\ text[x + 2 * j + 1] = s[j]

\* The second part of a concatenation.
LEMMA SecondPart ==
  ASSUME NEW S, NEW u \in Seq(S), NEW v \in Seq(S)
  PROVE  Len(u \o v) = Len(u) + Len(v) /\ \A k \in 1 .. Len(v) : (u \o v)[Len(u) + k] = v[k]
  OBVIOUS

\* A descriptor has those of its string,
LEMMA DescriptorHas ==
  ASSUME NEW s \in Seq(Byte)
  PROVE  TextHas(Descriptor(s), 0, s)
<1> DEFINE chars == [k \in 1 .. 2 * Len(s) |-> IF k % 2 = 1 THEN s[(k + 1) \div 2] ELSE 0]
           head  == <<2 * Len(s) + 2, 3>>
<1>1. Len(s) \in Nat
  OBVIOUS
<1>2. \A k \in 1 .. 2 * Len(s) : chars[k] = IF k % 2 = 1 THEN s[(k + 1) \div 2] ELSE 0
  OBVIOUS
<1>3. head \in Seq(Nat) /\ Len(head) = 2
  BY <1>1
<1>4. chars \in Seq(Byte) /\ Len(chars) = 2 * Len(s)
  <2>1. \A k \in 1 .. 2 * Len(s) : chars[k] \in Byte
    <3> TAKE k \in 1 .. 2 * Len(s)
    <3>1. k % 2 = 1 => (k + 1) \div 2 \in 1 .. Len(s)
      BY <1>1
    <3>2. k % 2 = 1 => s[(k + 1) \div 2] \in Byte
      BY <3>1
    <3>3. 0 \in Byte
      BY RangeByte
    <3> HIDE DEF chars
    <3> QED BY <1>2, <3>2, <3>3
  <2>2. 2 * Len(s) \in Nat
    BY <1>1
  <2>3. chars \in [1 .. 2 * Len(s) -> Byte]
    BY <2>1
  <2> HIDE DEF chars
  <2> QED BY <2>2, <2>3
<1>5. Descriptor(s) = head \o chars
  BY DEF Descriptor
<1> HIDE DEF head, chars
<1>6. Len(head \o chars) = 2 * Len(s) + 2 /\ \A k \in 1 .. 2 * Len(s) : (head \o chars)[2 + k] = chars[k]
  <2> DEFINE l == 2 * Len(s)
             Number == Nat
  <2>1. l \in Nat /\ Len(chars) = l /\ chars \in Seq(Number) /\ head \in Seq(Number)
    <3>1. \A x : x \in Byte => x \in Nat
      BY DEF Byte
    <3>2. chars \in [1 .. 2 * Len(s) -> Nat]
      BY <1>4, <3>1
    <3>3. 2 * Len(s) \in Nat
      BY <1>1
    <3>4. chars \in Seq(Nat)
      BY <3>2, <3>3
    <3> QED BY <1>3, <1>4, <3>3, <3>4, Zenon
  <2> HIDE DEF l, Number
  <2>2. Len(head \o chars) = 2 + l /\ \A k \in 1 .. l : (head \o chars)[2 + k] = chars[k]
    <3>1. Len(head \o chars) = Len(head) + Len(chars)
          /\ \A k \in 1 .. Len(chars) : (head \o chars)[Len(head) + k] = chars[k]
      BY <2>1, SecondPart
    <3> QED BY <1>3, <2>1, <3>1
  <2>3. 2 + l = l + 2
    BY <2>1
  <2> QED BY <2>2, <2>3 DEF l
<1>7. ASSUME NEW j \in 1 .. Len(s)
      PROVE  0 + 2 * j + 1 \in 1 .. Len(Descriptor(s)) /\ Descriptor(s)[0 + 2 * j + 1] = s[j]
  <2>1. /\ 2 * j - 1 \in 1 .. 2 * Len(s) /\ (2 * j - 1) % 2 = 1 /\ (2 * j - 1 + 1) \div 2 = j
        /\ 0 + 2 * j + 1 = 2 + (2 * j - 1) /\ 0 + 2 * j + 1 \in 1 .. 2 * Len(s) + 2
    BY <1>1
  <2>2. (head \o chars)[2 + (2 * j - 1)] = chars[2 * j - 1] /\ chars[2 * j - 1] = s[j]
    BY <1>2, <1>6, <2>1
  <2> QED BY <1>5, <1>6, <2>1, <2>2
<1> QED BY <1>7 DEF TextHas

\* and a text still has them with more text after it,
LEMMA HasBefore ==
  ASSUME NEW u \in Seq(Byte), NEW v \in Seq(Byte), NEW x \in Nat, NEW s \in Seq(Byte),
         TextHas(u, x, s)
  PROVE  TextHas(u \o v, x, s)
<1> SUFFICES ASSUME NEW j \in 1 .. Len(s)
             PROVE  x + 2 * j + 1 \in 1 .. Len(u \o v) /\ (u \o v)[x + 2 * j + 1] = s[j]
  BY DEF TextHas
<1> DEFINE k == x + 2 * j + 1
<1>1. k \in 1 .. Len(u) /\ u[k] = s[j]
  BY DEF TextHas
<1> HIDE DEF k
<1>2. k \in 1 .. Len(u \o v) /\ (u \o v)[k] = u[k]
  BY <1>1
<1> QED BY <1>1, <1>2 DEF k

\* or before it.
LEMMA HasAfter ==
  ASSUME NEW u \in Seq(Byte), NEW v \in Seq(Byte), NEW x \in Nat, NEW s \in Seq(Byte),
         TextHas(v, x, s), NEW y, y = Len(u) + x
  PROVE  TextHas(u \o v, y, s)
<1> SUFFICES ASSUME NEW j \in 1 .. Len(s)
             PROVE  y + 2 * j + 1 \in 1 .. Len(u \o v) /\ (u \o v)[y + 2 * j + 1] = s[j]
  BY DEF TextHas
<1> DEFINE k == x + 2 * j + 1
<1>1. k \in 1 .. Len(v) /\ v[k] = s[j]
  BY DEF TextHas
<1>2. y + 2 * j + 1 = Len(u) + k
  OBVIOUS
<1> HIDE DEF k
<1>3. Len(u) + k \in 1 .. Len(u \o v) /\ (u \o v)[Len(u) + k] = v[k]
  BY <1>1
<1> QED BY <1>1, <1>2, <1>3

\* The text has the three strings.
LEMMA TextIs ==
  ASSUME NEW t, NEW e, Fits(t, e)
  PROVE  LET m == Kept(e.manufacturer)
             p == Kept(e.product)
             n == Kept(e.serial)
         IN  /\ TextHas(Text(t, e), 0, m) /\ TextHas(Text(t, e), 2 * Len(m) + 2, p)
             /\ TextHas(Text(t, e), 2 * Len(m) + 2 + 2 * Len(p) + 2, n)
             /\ m \in Seq(Byte) /\ p \in Seq(Byte) /\ n \in Seq(Byte)
             /\ Len(m) \in Nat /\ Len(p) \in Nat /\ Len(n) \in Nat
             /\ Len(m) <= 100 /\ Len(p) <= 100 /\ Len(n) <= 100
<1> DEFINE m == Kept(e.manufacturer)
           p == Kept(e.product)
           n == Kept(e.serial)
           dm == Descriptor(m)
           dp == Descriptor(p)
           dn == Descriptor(n)
           pp == PnP(t, e)
<1>1. m \in Seq(Byte) /\ p \in Seq(Byte) /\ n \in Seq(Byte)
  <2>1. /\ e.manufacturer \in Seq(Byte) /\ e.product \in Seq(Byte)
        /\ e.serial \in Seq(Byte)
    BY FieldTypes DEF Fits
  <2> QED BY <2>1, KeptRight
<1>2. Len(m) \in Nat /\ Len(p) \in Nat /\ Len(n) \in Nat
  BY <1>1
<1>3. Len(m) <= 100 /\ Len(p) <= 100 /\ Len(n) <= 100
  <2> DEFINE u == UserArea(t)
             lm == Len(m)
             lp == Len(p)
             ln == Len(n)
  <2>1. 2 * lm + 2 * lp + 2 * ln <= u /\ u \in 80 .. 96
    BY TextRight
  <2>2. lm \in Nat /\ lp \in Nat /\ ln \in Nat
    BY <1>2
  <2> HIDE DEF lm, lp, ln, u
  <2>3. lm <= 100 /\ lp <= 100 /\ ln <= 100
    BY <2>1, <2>2
  <2> QED BY <2>3 DEF lm, lp, ln
<1>4. Text(t, e) = dm \o dp \o dn \o pp
  BY DEF Text
<1> SUFFICES /\ TextHas(Text(t, e), 0, m) /\ TextHas(Text(t, e), 2 * Len(m) + 2, p)
             /\ TextHas(Text(t, e), 2 * Len(m) + 2 + 2 * Len(p) + 2, n)
  BY <1>1, <1>2, <1>3
<1> HIDE DEF m, p, n
<1>5. /\ dm \in Seq(Byte) /\ Len(dm) = 2 * Len(m) + 2
      /\ dp \in Seq(Byte) /\ Len(dp) = 2 * Len(p) + 2
      /\ dn \in Seq(Byte) /\ Len(dn) = 2 * Len(n) + 2
  BY <1>1, <1>3, DescriptorRight
<1>6. pp \in Seq(Byte)
  BY PnPRight DEF Fits
<1>7. TextHas(dm, 0, m) /\ TextHas(dp, 0, p) /\ TextHas(dn, 0, n)
  BY <1>1, DescriptorHas
<1> HIDE DEF dm, dp, dn, pp
<1> DEFINE two == dm \o dp
           three == two \o dn
<1>8. two \in Seq(Byte) /\ Len(two) = 2 * Len(m) + 2 + 2 * Len(p) + 2
  <2>1. Joined(dm, dp)
    BY <1>5, Concatenated
  <2>2. two \in Seq(Byte) /\ Len(two) = (2 * Len(m) + 2) + (2 * Len(p) + 2)
    BY <1>5, <2>1 DEF Joined
  <2> QED BY <1>2, <2>2
<1>9. TextHas(two, 0, m) /\ TextHas(two, 2 * Len(m) + 2, p)
  <2>1. TextHas(two, 0, m)
    BY <1>1, <1>5, <1>7, HasBefore
  <2>2. 2 * Len(m) + 2 = Len(dm) + 0
    BY <1>2, <1>5
  <2> QED BY <1>1, <1>5, <1>7, <2>1, <2>2, HasAfter
<1>10. two \o dn \in Seq(Byte)
  BY <1>5, <1>8
<1>11. 2 * Len(m) + 2 \in Nat /\ Len(two) + 0 = 2 * Len(m) + 2 + 2 * Len(p) + 2
       /\ 2 * Len(m) + 2 + 2 * Len(p) + 2 \in Nat
  BY <1>2, <1>8
<1> HIDE DEF two
<1>12. /\ TextHas(three, 0, m) /\ TextHas(three, 2 * Len(m) + 2, p)
       /\ TextHas(three, 2 * Len(m) + 2 + 2 * Len(p) + 2, n)
  BY <1>1, <1>5, <1>7, <1>8, <1>9, <1>11, HasBefore, HasAfter
<1>13. three \in Seq(Byte) /\ Text(t, e) = three \o pp
  BY <1>4, <1>10 DEF two
<1> HIDE DEF three
<1> QED BY <1>1, <1>6, <1>11, <1>12, <1>13, HasBefore

\* An entry of the directory has an offset and a length.
LEMMA EntryHas ==
  ASSUME NEW a \in Nat, NEW v, NEW s
  PROVE  Has(Entry(a, v, s), a, v) /\ Has(Entry(a, v, s), a + 1, 2 * Len(s) + 2)
<1>1. a # a + 1
  OBVIOUS
<1> QED BY <1>1, HasAt, HasOver, HasUnder, MissesAt DEF Entry

\* All three strings start below address 256.
LEMMA StartsRight ==
  ASSUME NEW t, NEW e, Fits(t, e)
  PROVE  LET x == 2 * Len(Kept(e.manufacturer)) + 2
             y == x + 2 * Len(Kept(e.product)) + 2
         IN  /\ x \in Nat /\ y \in Nat /\ StringStart(t) + x < 256 /\ StringStart(t) + y < 256
             /\ StringStart(t) \in 148 .. 156
<1> DEFINE m == Kept(e.manufacturer)
           p == Kept(e.product)
           n == Kept(e.serial)
           x == 2 * Len(m) + 2
           y == x + 2 * Len(p) + 2
<1>1. Len(m) \in Nat /\ Len(p) \in Nat /\ Len(n) \in Nat
  BY TextIs
<1>2. x \in Nat /\ y \in Nat /\ StringStart(t) + x < 256 /\ StringStart(t) + y < 256
      /\ StringStart(t) \in 148 .. 156
  <2> DEFINE u == UserArea(t)
             o == StringStart(t)
             lm == Len(m)
             lp == Len(p)
             ln == Len(n)
  <2>1. 2 * lm + 2 * lp + 2 * ln <= u
    BY TextRight
  <2>2. lm \in Nat /\ lp \in Nat /\ ln \in Nat
    BY <1>1
  <2>3. o + u <= 244 /\ o \in 148 .. 156 /\ u \in 80 .. 96
    BY DEF Fits, StringStart, UserArea, Types, Older, Dual
  <2>4. x = 2 * lm + 2 /\ y = 2 * lm + 2 + 2 * lp + 2
    OBVIOUS
  <2> HIDE DEF lm, lp, ln, u, o, x, y
  <2>5. x \in Nat /\ y \in Nat /\ o + x < 256 /\ o + y < 256
    BY <2>1, <2>2, <2>3, <2>4
  <2> QED BY <2>3, <2>5 DEF o
<1> QED BY <1>2

\* The directory has an entry for each string.
LEMMA DirectoryHas ==
  ASSUME NEW t, NEW e, Fits(t, e)
  PROVE  LET m == Kept(e.manufacturer)
             p == Kept(e.product)
             n == Kept(e.serial)
             d == Directory(t, e)
             x == 2 * Len(m) + 2
             y == x + 2 * Len(p) + 2
         IN  /\ Has(d, 14, StringStart(t)) /\ Has(d, 15, 2 * Len(m) + 2)
             /\ Has(d, 16, StringStart(t) + x) /\ Has(d, 17, 2 * Len(p) + 2)
             /\ Has(d, 18, StringStart(t) + y) /\ Has(d, 19, 2 * Len(n) + 2)
<1> DEFINE m == Kept(e.manufacturer)
           p == Kept(e.product)
           n == Kept(e.serial)
           d == Directory(t, e)
           x == 2 * Len(m) + 2
           y == x + 2 * Len(p) + 2
           start(k) == Low(StringStart(t) + k)
           with128(k) == k + When(k < 128, 128)
           second == with128(start(x))
           third  == with128(start(y))
<1>1. Len(m) \in Nat /\ Len(p) \in Nat /\ Len(n) \in Nat
  BY TextIs
<1>2. x \in Nat /\ y \in Nat /\ StringStart(t) + x < 256 /\ StringStart(t) + y < 256
      /\ StringStart(t) \in 148 .. 156
  BY StartsRight
<1>3. \A k \in Nat : StringStart(t) + k < 256 => start(k) = StringStart(t) + k
                                               /\ with128(start(k)) = StringStart(t) + k
  <2> DEFINE o == StringStart(t)
  <2>1. o \in 148 .. 156
    BY <1>2
  <2> HIDE DEF o
  <2>2. \A k \in Nat : o + k < 256 => Low(o + k) = o + k /\ Low(o + k) + When(Low(o + k) < 128, 128) = o + k
    BY <2>1 DEF Low, When
  <2> QED BY <2>2 DEF o
<1>4. /\ start(0) = StringStart(t) /\ second = StringStart(t) + x /\ third = StringStart(t) + y
  <2>1. StringStart(t) + 0 < 256 /\ StringStart(t) + 0 = StringStart(t)
    BY <1>2
  <2> HIDE DEF start, with128, x, y
  <2> QED BY <1>2, <1>3, <2>1
<1>5. d = Entry(14, start(0), m) @@ Entry(16, second, p) @@ Entry(18, third, n)
  BY DEF Directory
<1> SUFFICES /\ Has(d, 14, StringStart(t)) /\ Has(d, 15, 2 * Len(m) + 2)
             /\ Has(d, 16, StringStart(t) + x) /\ Has(d, 17, 2 * Len(p) + 2)
             /\ Has(d, 18, StringStart(t) + y) /\ Has(d, 19, 2 * Len(n) + 2)
  OBVIOUS
<1> DEFINE e1 == Entry(14, start(0), m)
           e2 == Entry(16, second, p)
           e3 == Entry(18, third, n)
<1>6. /\ Has(e1, 14, start(0)) /\ Has(e1, 15, 2 * Len(m) + 2)
      /\ Has(e2, 16, second) /\ Has(e2, 17, 2 * Len(p) + 2)
      /\ Has(e3, 18, third) /\ Has(e3, 19, 2 * Len(n) + 2)
  <2>1. /\ 14 \in Nat /\ 16 \in Nat /\ 18 \in Nat
        /\ 14 + 1 = 15 /\ 16 + 1 = 17 /\ 18 + 1 = 19
    OBVIOUS
  <2> HIDE DEF start, second, third, m, p, n
  <2> QED BY <2>1, EntryHas
<1>7. \A a \in {16, 17, 18, 19} : Misses(e1, a)
  BY MissesAt, MissesOver DEF Entry
<1>8. \A a \in {18, 19} : Misses(e2, a)
  BY MissesAt, MissesOver DEF Entry
<1> HIDE DEF e1, e2, e3, start, second, third, d, m, p, n, x, y
<1>9. d = e1 @@ e2 @@ e3
  BY <1>5 DEF e1, e2, e3
<1>10. Has(d, 14, start(0)) /\ Has(d, 15, 2 * Len(m) + 2)
  BY <1>6, <1>9, HasOver
<1>11. Has(d, 16, second) /\ Has(d, 17, 2 * Len(p) + 2)
  BY <1>6, <1>7, <1>9, HasOver, HasUnder
<1>12. Has(d, 18, third) /\ Has(d, 19, 2 * Len(n) + 2)
  BY <1>6, <1>7, <1>8, <1>9, HasUnder, MissesOver
<1> QED BY <1>4, <1>10, <1>11, <1>12

\* The type's own bytes are below the strings, but for a 232H's on a small
\* image.
LEMMA SpecificBelow ==
  ASSUME NEW t \in Types, NEW e, NEW size \in {128, 256}, t = "232H" => size = 256,
         NEW a \in Nat, a >= Base(t, size)
  PROVE  Misses(Specific(t, e), a)
<1>1. a > 13 /\ (t = "2232C" => a > 20) /\ (t = "R" => a > 22) /\ (t \in Dual => a > 24)
      /\ (t = "232H" => a > 30)
  BY DEF Base, StringStart, Types, Older, Dual
<1>2. Misses(UsbVersion(e), a)
  BY <1>1, MissesAt, MissesOver DEF UsbVersion
<1>3. Misses(FourGroups(e), a)
  BY <1>1, MissesAt, MissesOver DEF FourGroups
<1>4. CASE t = "AM"
  BY <1>4 DEF Specific, Misses
<1>5. CASE t = "BM"
  BY <1>2, <1>5 DEF Specific
<1>6. CASE t = "2232C"
  <2>1. Specific(t, e) = Bytes2232C(e)
    BY <1>6 DEF Specific
  <2>2. a # 0 /\ a # 1 /\ a # 20
    BY <1>1, <1>6
  <2> QED BY <1>2, <2>1, <2>2, MissesAt, MissesOver DEF Bytes2232C
<1>7. CASE t = "R"
  <2>1. Specific(t, e) = BytesR(e)
    BY <1>7 DEF Specific
  <2>2. a # 0 /\ a # 1 /\ a # 11 /\ a # 20 /\ a # 21 /\ a # 22
    BY <1>1, <1>7
  <2> QED BY <1>2, <2>1, <2>2, MissesAt, MissesOver DEF BytesR
<1>8. CASE t = "2232H"
  <2>1. Specific(t, e) = Bytes2232H(e)
    BY <1>8 DEF Specific
  <2>2. a # 0 /\ a # 1 /\ a # 24
    BY <1>1, <1>8 DEF Dual
  <2> QED BY <1>3, <2>1, <2>2, MissesAt, MissesOver DEF Bytes2232H
<1>9. CASE t = "4232H"
  <2>1. Specific(t, e) = Bytes4232H(e)
    BY <1>9 DEF Specific
  <2>2. a # 0 /\ a # 1 /\ a # 11 /\ a # 24
    BY <1>1, <1>9 DEF Dual
  <2> QED BY <1>3, <2>1, <2>2, MissesAt, MissesOver DEF Bytes4232H
<1>10. CASE t = "232H"
  <2>1. Specific(t, e) = Bytes232H(e)
    BY <1>10 DEF Specific
  <2>2. a # 0 /\ a # 1 /\ a # 12 /\ a # 13 /\ a # 30 /\ a \notin 24 .. 28
    BY <1>1, <1>10
  <2> DEFINE p == [i \in 24 .. 28 |-> AcbusPair(e, i - 24)]
             q == (0 :> TypeBits("232H", e.channel_type[1]) + When(e.driver[1] = 8, 16))
                  @@ (1 :> When(e.powersave # 0, 128) + When(e.clock_polarity # 0, 1)
                           + When(e.data_order # 0, 2) + When(e.flow_control # 0, 4))
                  @@ (12 :> Group(e, 1)) @@ (13 :> Group(e, 2))
  <2>3. Bytes232H(e) = q @@ p @@ (30 :> Low(e.chip))
    BY DEF Bytes232H
  <2>4. Misses(p, a)
    BY <2>2 DEF Misses
  <2>5. Misses(q, a)
    BY <2>2, MissesAt, MissesOver
  <2> HIDE DEF p, q
  <2> QED BY <2>1, <2>2, <2>3, <2>4, <2>5, MissesAt, MissesOver
<1> QED BY <1>4, <1>5, <1>6, <1>7, <1>8, <1>9, <1>10 DEF Types, Older, Dual

\* So a buffer that holds an image has its whole text.
LEMMA HeldText ==
  ASSUME NEW t, NEW e, Fits(t, e), t = "232H" => BuildSize(e.chip) = 256,
         NEW b, Holding(t, e, b), NEW k \in 1 .. Len(Text(t, e))
  PROVE  LET a == Base(t, BuildSize(e.chip)) + k - 1
         IN  a \in Address /\ b[a] = Text(t, e)[k]
<1> DEFINE s == Specific(t, e)
           size == BuildSize(e.chip)
           text == Text(t, e)
           p == Placed(t, size, text)
           base == Base(t, size)
           len == Len(text)
           area == UserArea(t)
           a == base + k - 1
<1>1. size \in {128, 256} /\ t \in Types
  BY BuildSizes DEF Fits
<1>2. text \in Seq(Byte) /\ len \in 1 .. area + 9 /\ area \in 80 .. 96
  BY TextRight
<1>3. base \in 20 .. 156 /\ base + area + 9 <= size - 2
  <2> HIDE DEF size
  <2> QED BY <1>1, BaseRange
<1>4. DOMAIN p = base .. base + len - 1 /\ \A x \in DOMAIN p : p[x] = text[x - base + 1]
  <2> HIDE DEF text, size
  <2>1. len <= area + 9
    <3> HIDE DEF len, area
    <3> QED BY <1>2
  <2> QED BY <1>1, <1>2, <2>1, PlacedIs
<1>5. a \in Nat /\ a >= base /\ a < size - 2 /\ a \in base .. base + len - 1 /\ a - base + 1 = k
  <2>1. k \in 1 .. len
    OBVIOUS
  <2> HIDE DEF base, len, area, size
  <2> QED BY <1>1, <1>2, <1>3, <2>1
<1>6. a \in Address
  <2> HIDE DEF a, size
  <2> QED BY <1>1, <1>5, AddressRange
<1>7. b[a] = Body(t, e)[a]
  <2> HIDE DEF a
  <2> QED BY <1>5, HeldBody
<1>8. a \notin DOMAIN s
  <2> HIDE DEF a, size
  <2> QED BY <1>1, <1>5, SpecificBelow DEF Misses, size
<1>9. Body(t, e)[a] = p[a]
  <2>1. a \in DOMAIN p
    <3> HIDE DEF a, base, p
    <3> QED BY <1>4, <1>5
  <2> DEFINE d == Directory(t, e)
             g == General(t, e)
  <2>2. \A z \in Address : Body(t, e)[z] = IF z \in DOMAIN s THEN s[z]
                                           ELSE IF z \in DOMAIN p THEN p[z]
                                           ELSE IF z \in DOMAIN d THEN d[z]
                                           ELSE IF z \in DOMAIN g THEN g[z] ELSE 0
    BY BodyIs
  <2> HIDE DEF a, p, s, d, g
  <2> QED BY <1>6, <1>8, <2>1, <2>2
<1> HIDE DEF a, p, text
<1> QED BY <1>4, <1>5, <1>6, <1>7, <1>9 DEF a, text

\* A string without NUL is a C string.
LEMMA CStringWhole ==
  ASSUME NEW s, \A k \in DOMAIN s : s[k] # 0
  PROVE  CString(s) = s
  BY DEF CString

\* The text has the string s from x on, and the directory tells so at a.
Located(t, e, s, x, a) ==
    /\ s \in Seq(Byte) /\ x \in Nat
    /\ TextHas(Text(t, e), x, s) /\ \A j \in 1 .. Len(s) : s[j] # 0
    /\ StringStart(t) + x < 256
    /\ Has(Directory(t, e), a, StringStart(t) + x)
    /\ Has(Directory(t, e), a + 1, 2 * Len(s) + 2)

\* decode finds such a string.
LEMMA StringRound ==
  ASSUME NEW t, NEW e, Fits(t, e), t = "232H" => BuildSize(e.chip) = 256,
         NEW b, Holding(t, e, b), NEW s, NEW x, NEW a \in 14 .. 18, Located(t, e, s, x, a),
         NEW beyond
  PROVE  DecodedString(b, BuildSize(e.chip), a, beyond) = s
<1> DEFINE size == BuildSize(e.chip)
           start == StringStart(t)
           base == Base(t, size)
           text == Text(t, e)
           from == Offset(b[a], size)
           got == [j \in 1 .. (b[a + 1] \div 2) - 1 |->
                     IF from + 2*j \in Address THEN b[from + 2*j] ELSE beyond]
<1>1. size \in {128, 256} /\ t \in Types /\ s \in Seq(Byte) /\ x \in Nat /\ Len(s) \in Nat
  <2>1. s \in Seq(Byte) /\ x \in Nat
    BY DEF Located
  <2> QED BY <2>1, BuildSizes DEF Fits
<1>2. start \in 148 .. 156 /\ base = start - (256 - size)
  <2>1. start \in 148 .. 156
    BY <1>1, BaseRange
  <2> QED BY <2>1 DEF Base
<1>3. b[a] = start + x /\ b[a + 1] = 2 * Len(s) + 2
  <2>1. a \in 14 .. 19 /\ a + 1 \in 14 .. 19
    OBVIOUS
  <2>2. Has(Directory(t, e), a, start + x) /\ Has(Directory(t, e), a + 1, 2 * Len(s) + 2)
    BY DEF Located
  <2> QED BY <2>1, <2>2, HeldDirectory
<1>4. from = base + x
  <2>1. start - (256 - size) + x < size
    <3>1. start + x < 256
      BY DEF Located
    <3> HIDE DEF start, size
    <3> QED BY <1>1, <1>2, <3>1
  <2> HIDE DEF start, size, base
  <2>2. (start + x) % size = start - (256 - size) + x
    <3>1. start \in 148 .. 156
      BY <1>2
    <3> QED BY <1>1, <2>1, <3>1, Wrapped
  <2> QED BY <1>1, <1>2, <1>3, <2>2 DEF Offset
<1>5. (b[a + 1] \div 2) - 1 = Len(s)
  <2> DEFINE l == Len(s)
  <2>1. l \in Nat /\ b[a + 1] = 2 * l + 2
    BY <1>1, <1>3
  <2> HIDE DEF l
  <2>2. (b[a + 1] \div 2) - 1 = l
    BY <2>1
  <2> QED BY <2>2 DEF l
<1>6. ASSUME NEW j \in 1 .. Len(s)
      PROVE  from + 2*j \in Address /\ b[from + 2*j] = s[j]
  <2> DEFINE k == x + 2 * j + 1
  <2>1. k \in 1 .. Len(text) /\ text[k] = s[j]
    BY DEF Located, TextHas
  <2> HIDE DEF k
  <2>2. base + k - 1 \in Address /\ b[base + k - 1] = text[k]
    <3> HIDE DEF text
    <3> QED BY <2>1, HeldText DEF text
  <2>3. from + 2*j = base + k - 1
    <3>1. base \in Int
      <4> HIDE DEF start, size, base
      <4> QED BY <1>1, <1>2
    <3>2. j \in Nat /\ k = x + 2 * j + 1
      BY <1>1 DEF k
    <3> HIDE DEF base, from
    <3> QED BY <1>1, <1>4, <3>1, <3>2
  <2> HIDE DEF from, base, text
  <2> QED BY <2>1, <2>2, <2>3
<1>7. got = s
  <2> HIDE DEF from
  <2>1. got = [j \in 1 .. Len(s) |-> s[j]]
    BY <1>5, <1>6
  <2>2. s = [j \in 1 .. Len(s) |-> s[j]]
    <3>1. s \in Seq(Byte)
      BY <1>1
    <3> HIDE DEF got
    <3> QED BY <3>1
  <2> HIDE DEF got
  <2> QED BY <2>1, <2>2
<1>8. DecodedString(b, size, a, beyond) = CString(got)
  BY DEF DecodedString
<1> HIDE DEF got
<1>9. \A k \in DOMAIN s : s[k] # 0
  <2>1. DOMAIN s = 1 .. Len(s)
    BY <1>1
  <2> QED BY <2>1 DEF Located
<1> QED BY <1>7, <1>8, <1>9, CStringWhole

\* The names are C strings.
NamesOK(e) == e.manufacturer \in CStrings /\ e.product \in CStrings /\ e.serial \in CStrings

\* A short one is kept whole.
LEMMA KeptWhole ==
  ASSUME NEW s \in CStrings, Len(s) < 256
  PROVE  Kept(s) = s /\ s \in Seq(Byte) /\ \A j \in 1 .. Len(s) : s[j] # 0
<1>1. s \in Seq(Byte) /\ Len(s) \in Nat /\ \A j \in 1 .. Len(s) : s[j] # 0
  BY CStringBytes
<1>2. Len(s) % 256 = Len(s)
  <2> DEFINE l == Len(s)
  <2>1. l \in Nat /\ l < 256
    BY <1>1
  <2> HIDE DEF l
  <2>2. l % 256 = l
    BY <2>1
  <2> QED BY <2>2 DEF l
<1>3. SubSeq(s, 1, Len(s)) = s
  BY <1>1
<1> QED BY <1>1, <1>2, <1>3 DEF Kept

\* The three strings are in the text,
LEMMA StringsLocated ==
  ASSUME NEW t, NEW e, Fits(t, e), NamesOK(e),
         Len(e.manufacturer) < 256, Len(e.product) < 256, Len(e.serial) < 256
  PROVE  /\ Located(t, e, e.manufacturer, 0, 14)
         /\ \E x : Located(t, e, e.product, x, 16)
         /\ \E x : Located(t, e, e.serial, x, 18)
<1> DEFINE m == Kept(e.manufacturer)
           p == Kept(e.product)
           n == Kept(e.serial)
           x == 2 * Len(m) + 2
           y == x + 2 * Len(p) + 2
           dir == Directory(t, e)
<1>1. /\ m = e.manufacturer /\ \A j \in 1 .. Len(m) : m[j] # 0
      /\ p = e.product /\ \A j \in 1 .. Len(p) : p[j] # 0
      /\ n = e.serial /\ \A j \in 1 .. Len(n) : n[j] # 0
  <2>1. e.manufacturer \in CStrings /\ e.product \in CStrings /\ e.serial \in CStrings
    BY DEF NamesOK
  <2> QED BY <2>1, KeptWhole
<1>2. m \in Seq(Byte) /\ p \in Seq(Byte) /\ n \in Seq(Byte)
  BY TextIs
<1>3. TextHas(Text(t, e), 0, m) /\ TextHas(Text(t, e), x, p) /\ TextHas(Text(t, e), y, n)
  BY TextIs
<1>4. x \in Nat /\ y \in Nat /\ StringStart(t) + x < 256 /\ StringStart(t) + y < 256
      /\ StringStart(t) \in 148 .. 156
  BY StartsRight
<1>5. /\ Has(dir, 14, StringStart(t)) /\ Has(dir, 15, 2 * Len(m) + 2)
      /\ Has(dir, 16, StringStart(t) + x) /\ Has(dir, 17, 2 * Len(p) + 2)
      /\ Has(dir, 18, StringStart(t) + y) /\ Has(dir, 19, 2 * Len(n) + 2)
  BY DirectoryHas
<1> HIDE DEF m, p, n, x, y, dir
<1>6. Located(t, e, m, 0, 14)
  <2>1. StringStart(t) + 0 = StringStart(t) /\ StringStart(t) + 0 < 256 /\ 0 \in Nat
    <3> DEFINE o == StringStart(t)
    <3>1. o \in 148 .. 156
      BY <1>4
    <3> HIDE DEF o
    <3>2. o + 0 = o /\ o + 0 < 256 /\ 0 \in Nat
      BY <3>1
    <3> QED BY <3>2 DEF o
  <2>2. Has(dir, 14, StringStart(t) + 0) /\ Has(dir, 14 + 1, 2 * Len(m) + 2)
    BY <1>5, <2>1
  <2> QED BY <1>1, <1>2, <1>3, <2>1, <2>2 DEF Located, dir
<1>7. Located(t, e, p, x, 16)
  BY <1>1, <1>2, <1>3, <1>4, <1>5 DEF Located, dir
<1>8. Located(t, e, n, y, 18)
  BY <1>1, <1>2, <1>3, <1>4, <1>5 DEF Located, dir
<1>9. e.manufacturer = m /\ e.product = p /\ e.serial = n
  BY <1>1
<1>10. \E z : Located(t, e, p, z, 16)
  BY <1>7
<1>11. \E z : Located(t, e, n, z, 18)
  BY <1>8
<1> QED BY <1>6, <1>9, <1>10, <1>11

\* and come back.
LEMMA StringsRound ==
  ASSUME NEW t, NEW e, Fits(t, e), t = "232H" => BuildSize(e.chip) = 256, NamesOK(e),
         NEW b, Holding(t, e, b), NEW beyond, NEW d,
         d.manufacturer = DecodedString(b, BuildSize(e.chip), 14, beyond),
         d.product      = DecodedString(b, BuildSize(e.chip), 16, beyond),
         d.serial       = DecodedString(b, BuildSize(e.chip), 18, beyond)
  PROVE  StringsBack(e, d)
<1>1. \A a \in 14 .. 18 : \A s, x : Located(t, e, s, x, a)
                                  => DecodedString(b, BuildSize(e.chip), a, beyond) = s
  BY StringRound, SMTT(30)
<1> SUFFICES ASSUME Len(e.manufacturer) < 256, Len(e.product) < 256, Len(e.serial) < 256
             PROVE  <<d.manufacturer, d.product, d.serial>> = <<e.manufacturer, e.product, e.serial>>
  BY DEF StringsBack
<1>2. /\ Located(t, e, e.manufacturer, 0, 14)
      /\ \E x : Located(t, e, e.product, x, 16)
      /\ \E x : Located(t, e, e.serial, x, 18)
  BY StringsLocated
<1>3. 14 \in 14 .. 18 /\ 16 \in 14 .. 18 /\ 18 \in 14 .. 18
  OBVIOUS
<1>4. d.manufacturer = e.manufacturer
  <2>1. \A s, x : Located(t, e, s, x, 14) => DecodedString(b, BuildSize(e.chip), 14, beyond) = s
    BY <1>1, <1>3
  <2>2. PICK x : Located(t, e, e.manufacturer, x, 14)
    BY <1>2
  <2> QED BY <2>1, <2>2
<1>5. d.product = e.product
  <2>1. \A s, x : Located(t, e, s, x, 16) => DecodedString(b, BuildSize(e.chip), 16, beyond) = s
    BY <1>1, <1>3
  <2>2. PICK x : Located(t, e, e.product, x, 16)
    BY <1>2
  <2> QED BY <2>1, <2>2
<1>6. d.serial = e.serial
  <2>1. \A s, x : Located(t, e, s, x, 18) => DecodedString(b, BuildSize(e.chip), 18, beyond) = s
    BY <1>1, <1>3
  <2>2. PICK x : Located(t, e, e.serial, x, 18)
    BY <1>2
  <2> QED BY <2>1, <2>2
<1> QED BY <1>4, <1>5, <1>6

\* What decode makes of an image is what the image was built from.
LEMMA ImageRound ==
  ASSUME NEW t, NEW e, Fits(t, e), NamesOK(e),
         NEW b, Holding(t, e, b), NEW old, StructRight(old), old.size = BuildSize(e.chip),
         NEW beyond \in Byte
  PROVE  LET d == DecodedSpecific(t, DecodedCommon(old, b, beyond), b)
         IN  /\ CommonBack(t, e, d) /\ SpecificBack(t, e, d)
             /\ (t = "232H" => BuildSize(e.chip) = 256) => StringsBack(e, d)
<1> DEFINE c == DecodedCommon(old, b, beyond)
           d == DecodedSpecific(t, c, b)
<1>1. t \in Types /\ b \in [Address -> Byte]
  BY DEF Fits, Holding
<1>2. /\ Taken(d, b)
      /\ d.manufacturer = DecodedString(b, old.size, 14, beyond)
      /\ d.product      = DecodedString(b, old.size, 16, beyond)
      /\ d.serial       = DecodedString(b, old.size, 18, beyond)
  BY <1>1, CommonFields
<1>3. StructRight(c)
  BY <1>1, CommonRight
<1> HIDE DEF c
<1>4. SpecificBack(t, e, d)
  BY <1>3, SpecificRound
<1> HIDE DEF d
<1>5. CommonBack(t, e, d)
  BY <1>2, CommonRound
<1>6. (t = "232H" => BuildSize(e.chip) = 256) => StringsBack(e, d)
  BY <1>2, StringsRound
<1> QED BY <1>4, <1>5, <1>6 DEF c, d

-----------------------------------------------------------------------------
(* The names stay C strings, and no image is built for an unknown chip.    *)

\* Decoding leaves C strings, right or not,
LEMMA DecodedNames ==
  ASSUME NEW t \in Types, NEW old, StructRight(old), NEW b \in [Address -> Byte], NEW beyond \in Byte
  PROVE  LET c == DecodedCommon(old, b, beyond)
         IN  NamesOK(c) /\ NamesOK(DecodedSpecific(t, c, b))
<1> DEFINE c == DecodedCommon(old, b, beyond)
           d == DecodedSpecific(t, c, b)
           m == DecodedString(b, old.size, 14, beyond)
           p == DecodedString(b, old.size, 16, beyond)
           n == DecodedString(b, old.size, 18, beyond)
<1>1. m \in CStrings /\ p \in CStrings /\ n \in CStrings
  <2>1. 14 \in 14 .. 18 /\ 16 \in 14 .. 18 /\ 18 \in 14 .. 18
    OBVIOUS
  <2> QED BY <2>1, StringRight, Zenon
<1>2. c.manufacturer = m /\ c.product = p /\ c.serial = n
  BY CommonStrings
<1>3. d.manufacturer = m /\ d.product = p /\ d.serial = n
  BY CommonFields
<1> HIDE DEF c, d, m, p, n
<1>4. NamesOK(c) /\ NamesOK(d)
  BY <1>1, <1>2, <1>3 DEF NamesOK
<1> QED BY <1>4 DEF c, d

\* setting values leaves them alone,
LEMMA ValuesNames ==
  ASSUME NEW e, StructRight(e), NamesOK(e), NEW values, Settings(values)
  PROVE  NamesOK(WithValues(e, values))
<1>1. Strings \subseteq DOMAIN e /\ Strings \cap DOMAIN values = {}
  BY ZenonT(60) DEF StructRight, Blank, Settings, Settable, Numbers, Quads, Strings
<1>2. \A f \in Strings : WithValues(e, values)[f] = e[f]
  BY <1>1 DEF WithValues
<1> QED BY <1>2 DEF NamesOK, Strings

\* so does a size or a chip,
LEMMA SizedNames ==
  ASSUME NEW e, StructRight(e), NamesOK(e), NEW v, NEW d,
         d = [e EXCEPT !.size = v] \/ d = [e EXCEPT !.chip = v]
  PROVE  NamesOK(d)
<1>1. {"manufacturer", "product", "serial"} \subseteq DOMAIN e
  BY DEF StructRight, Blank
<1> QED BY <1>1 DEF NamesOK

\* and the client's are.
LEMMA DefaultNames ==
  ASSUME <<type, words>> \in Chips, NEW d \in DefaultsOf(type)
  PROVE  NamesOK(d)
<1>1. PICK n \in Names[type] : d = Defaults(type, n[1], n[2], n[3])
  BY DEF DefaultsOf
<1>2. n[1] \in CStrings /\ n[2] \in CStrings /\ n[3] \in CStrings
  BY <1>1, EepromAssumption
<1> DEFINE m == n[1]
           p == n[2]
           s == n[3]
<1>3. d = Defaults(type, m, p, s) /\ m \in CStrings /\ p \in CStrings /\ s \in CStrings
  BY <1>1, <1>2
<1> HIDE DEF m, p, s
<1>4. {"manufacturer", "product", "serial"} \subseteq DOMAIN Blank
  BY DEF Blank
<1>5. d.manufacturer = m /\ d.product = p /\ d.serial = s
  BY <1>3, <1>4 DEF Defaults
<1> QED BY <1>3, <1>5 DEF NamesOK

\* An image has the names and the chip of the structure it was built from.
LEMMA BuiltNames ==
  ASSUME NEW e, StructRight(e), NamesOK(e)
  PROVE  NamesOK(ImageOf(e).of) /\ ImageOf(e).of.chip = e.chip
<1>1. ImageOf(e).of = [e EXCEPT !.size = BuildSize(e.chip)]
  BY DEF ImageOf
<1> DEFINE d == ImageOf(e).of
<1>2. NamesOK(d)
  <2> DEFINE v == BuildSize(e.chip)
  <2>1. d = [e EXCEPT !.size = v]
    BY <1>1
  <2> HIDE DEF d, v
  <2> QED BY <2>1, SizedNames
<1>3. ImageOf(e).of.chip = e.chip
  BY <1>1 DEF StructRight, Blank
<1> QED BY <1>2, <1>3

\* What decode needs of the structure and of the images: the names are C
\* strings, and no image was built for an unknown chip.
Named == NamesOK(eeprom) /\ \A i \in images : NamesOK(i.of) /\ i.of.chip # -1

\* A context begins with C strings and images for the chip that is there, or that
\* the client has set.
LEMMA InitNamed ==
  ASSUME Init
  PROVE  /\ NamesOK(eeprom) /\ eeprom.chip \in {0, Kind} \cup claimed
         /\ \A i \in images : NamesOK(i.of) /\ i.of.chip # -1 /\ i.of.chip \in {Kind} \cup claimed
<1>1. <<type, words>> \in Chips /\ Pair(type, words)
  BY InitGood, Pairs DEF IInv
<1>2. CASE InitFresh
  <2>1. images = {}
    BY <1>2 DEF InitFresh
  <2>2. eeprom = Blank => NamesOK(eeprom) /\ eeprom.chip = 0
    BY DEF Blank, NamesOK, CStrings
  <2>3. eeprom \in DefaultsOf(type) => NamesOK(eeprom) /\ eeprom.chip = 0
    BY <1>1, NamesRight, DefaultNames
  <2> QED BY <1>2, <2>1, <2>2, <2>3 DEF InitFresh
<1>3. CASE InitProgrammed
  <2>1. PICK d \in DefaultsOf(type), v \in Values[type] : Programmed(d, v)
    BY <1>3 DEF InitProgrammed
  <2> DEFINE e == [d EXCEPT !.chip = Kind]
             f == WithValues(e, v)
  <2>2. /\ eeprom = ImageOf(f).of /\ images = {ImageOf(e), ImageOf(f)}
        /\ ImageOf(f).of.chip # -1 /\ claimed = Claims(v)
    BY <2>1 DEF Programmed
  <2>3. StructRight(d) /\ FieldRight("chip", Kind) /\ NamesOK(d)
    BY <1>1, NamesRight, DefaultNames, KindIs, OtherRight DEF GoodStruct
  <2>4. StructRight(e) /\ NamesOK(e)
    BY <2>3, OneField, SizedNames
  <2>5. e.chip = Kind
    BY <2>3 DEF StructRight, Blank
  <2> HIDE DEF e
  <2>6. StructRight(f) /\ f.chip \in {Kind} \cup claimed /\ NamesOK(f)
    <3>1. Settings(v)
      BY <1>1, EepromAssumption
    <3> QED BY <2>2, <2>4, <2>5, <3>1, ValuesRight, ValuesNames
  <2> HIDE DEF f
  <2>7. /\ NamesOK(ImageOf(e).of) /\ ImageOf(e).of.chip = Kind
        /\ NamesOK(ImageOf(f).of) /\ ImageOf(f).of.chip \in {Kind} \cup claimed
    BY <2>4, <2>5, <2>6, BuiltNames
  <2>8. Kind # -1
    BY <1>1, KindIs
  <2> QED BY <2>2, <2>7, <2>8
<1> QED BY <1>2, <1>3 DEF Init

\* Every step keeps that.
LEMMA NamedStep ==
  ASSUME IInv, Named, [Next]_vars
  PROVE  Named'
<1>1. /\ <<type, words>> \in Chips /\ type \in Types /\ StructRight(eeprom)
      /\ buf \in [Address -> Byte]
  BY Pairs DEF IInv, Pair, GoodStruct, GoodBuf
<1>2. CASE InitDefaults
  <2>1. NamesOK(eeprom') /\ images' = images
    BY <1>1, <1>2, DefaultNames DEF InitDefaults
  <2> QED BY <2>1 DEF Named
<1>3. CASE SetValues
  <2>1. PICK v \in Values[type] : eeprom' = WithValues(eeprom, v)
    BY <1>3 DEF SetValues
  <2>2. Settings(v)
    BY <1>1, EepromAssumption
  <2>3. NamesOK(eeprom') /\ images' = images
    BY <1>1, <1>3, <2>1, <2>2, ValuesNames DEF Named, SetValues
  <2> QED BY <2>3 DEF Named
<1>4. CASE Build
  <2> DEFINE i == ImageOf(eeprom)
  <2>1. eeprom.chip # -1 /\ eeprom' = i.of /\ images' = images \cup {i}
    BY <1>4 DEF Build
  <2>2. NamesOK(i.of) /\ i.of.chip = eeprom.chip
    BY <1>1, BuiltNames DEF Named
  <2> HIDE DEF i
  <2> QED BY <2>1, <2>2 DEF Named
<1>5. CASE Decode
  <2>1. PICK beyond \in {0, 255} :
          \/ eeprom' = DecodedCommon(eeprom, buf, beyond)
          \/ eeprom' = DecodedSpecific(type, DecodedCommon(eeprom, buf, beyond), buf)
    BY <1>5 DEF Decode
  <2>2. beyond \in Byte
    BY DEF Byte
  <2>3. NamesOK(eeprom') /\ images' = images
    BY <1>1, <1>5, <2>1, <2>2, DecodedNames DEF Decode
  <2> QED BY <2>3 DEF Named
<1>6. CASE BuildTooLong \/ ReadEeprom \/ Erase \/ EraseInternal \/ EraseFails
  <2>1. images' = images
    BY <1>6 DEF BuildTooLong, ReadEeprom, Erase, EraseInternal, EraseFails
  <2> DEFINE Sized == \E v : eeprom' = [eeprom EXCEPT !.size = v]
             Chosen == \E v : eeprom' = [eeprom EXCEPT !.chip = v]
  <2>2. eeprom' = eeprom \/ Sized \/ Chosen
    <3>1. BuildTooLong => Sized
      BY DEF BuildTooLong
    <3>2. ReadEeprom => Sized
      BY DEF ReadEeprom
    <3>3. Erase \/ EraseInternal => Chosen
      BY DEF Erase, EraseInternal
    <3>4. EraseFails => eeprom' = eeprom \/ Chosen
      BY DEF EraseFails
    <3> HIDE DEF Sized, Chosen
    <3> QED BY <1>6, <3>1, <3>2, <3>3, <3>4
  <2>3. NamesOK(eeprom')
    <3>1. NamesOK(eeprom)
      BY DEF Named
    <3> QED BY <1>1, <2>2, <3>1, SizedNames
  <2> QED BY <2>1, <2>3 DEF Named
<1>7. CASE UNCHANGED <<eeprom, images>>
  BY <1>7 DEF Named
<1>8. \/ SetBuf \/ ReadFails \/ WriteEeprom \/ WriteFails \/ WriteLocation
      \/ BuildUnknown \/ WriteRefused \/ LocationRefused \/ EraseRefused \/ UNCHANGED vars
      => UNCHANGED <<eeprom, images>>
  BY DEF SetBuf, ReadFails, WriteEeprom, WriteFails, WriteLocation, WriteLocationAt,
         BuildUnknown, WriteRefused, LocationRefused, EraseRefused, Refused, vars
<1> QED BY <1>2, <1>3, <1>4, <1>5, <1>6, <1>7, <1>8 DEF Next

\* No call sequence lets NUL into a name, or builds an image for an unknown chip.
THEOREM NamesKept == Spec => []Named
<1>1. Init => Named
  <2> SUFFICES ASSUME Init PROVE Named
    OBVIOUS
  <2> QED BY InitNamed DEF Named
<1> QED BY <1>1, NamedStep, Inductive, PTL DEF Spec

-----------------------------------------------------------------------------
(* The chip that erase finds.                                              *)

\* The part of Detected that holds for all values: erase finds the chip that is
\* there, and of an AM or BM, whose decode names none, the structure never names
\* another than that and those the client has set.
ChipFound == /\ last = <<"erase", 0>> => eeprom.chip = Kind
             /\ type \in Older => eeprom.chip \in {0, -1, Kind} \cup claimed

\* How a step changes the chip that the structure names.
LEMMA NamedBy ==
  ASSUME IInv, Next
  PROVE  \/ Erase \/ EraseInternal \/ (Decode /\ type \notin Older)
         \/ eeprom'.chip \in {eeprom.chip, 0, -1, Kind} \cup claimed'
<1>1. /\ <<type, words>> \in Chips /\ Pair(type, words) /\ type \in Types /\ StructRight(eeprom)
  BY Pairs DEF IInv, Pair, GoodStruct
<1>2. "chip" \in DOMAIN eeprom
  BY <1>1 DEF StructRight, Blank
<1>3. CASE InitDefaults
  BY <1>1, <1>3, NamesRight DEF InitDefaults
<1>4. CASE SetValues
  <2>1. PICK v \in Values[type] : /\ eeprom' = WithValues(eeprom, v)
                                 /\ claimed' = claimed \cup Claims(v)
    BY <1>4 DEF SetValues
  <2>2. Settings(v)
    BY <1>1, EepromAssumption
  <2>3. eeprom'.chip = eeprom.chip \/ eeprom'.chip \in claimed'
    BY <1>1, <2>1, <2>2, ValuesRight
  <2> QED BY <2>3
<1>5. CASE BuildTooLong
  BY <1>2, <1>5 DEF BuildTooLong
<1>6. CASE Build
  BY <1>2, <1>6 DEF Build, ImageOf
<1>7. CASE ReadEeprom
  BY <1>2, <1>7 DEF ReadEeprom
<1>8. CASE EraseFails
  <2>1. type # "R" /\ (eeprom' = eeprom \/ eeprom' = [eeprom EXCEPT !.chip = Probed])
    BY <1>8 DEF EraseFails
  <2>2. Probed = Kind
    BY <1>1, <2>1, KindIs
  <2> QED BY <1>2, <2>1, <2>2
<1>9. CASE Decode
  <2>1. PICK beyond \in {0, 255} :
          \/ eeprom' = DecodedCommon(eeprom, buf, beyond)
          \/ eeprom' = DecodedSpecific(type, DecodedCommon(eeprom, buf, beyond), buf)
    BY <1>9 DEF Decode
  <2> DEFINE e == DecodedCommon(eeprom, buf, beyond)
  <2>2. buf \in [Address -> Byte] /\ beyond \in Byte
    BY DEF IInv, GoodBuf, Byte
  <2>3. StructRight(e) /\ e.chip = eeprom.chip
    BY <1>1, <2>2, CommonRight
  <2> HIDE DEF e
  <2>4. type \in Older => DecodedSpecific(type, e, buf).chip = -1
    BY <1>1, <2>2, <2>3, SpecificRight
  <2>5. type \in Older => eeprom'.chip \in {eeprom.chip, -1}
    BY <2>1, <2>3, <2>4 DEF e
  <2> QED BY <1>9, <2>5
<1>10. CASE UNCHANGED eeprom
  BY <1>10
<1>11. SetBuf \/ ReadFails \/ WriteEeprom \/ WriteFails \/ WriteLocation => UNCHANGED eeprom
  BY DEF SetBuf, ReadFails, WriteEeprom, WriteFails, WriteLocation, WriteLocationAt
<1>12. BuildUnknown \/ WriteRefused \/ LocationRefused \/ EraseRefused => UNCHANGED eeprom
  BY DEF BuildUnknown, WriteRefused, LocationRefused, EraseRefused, Refused
<1> QED BY <1>3, <1>4, <1>5, <1>6, <1>7, <1>8, <1>9, <1>10, <1>11, <1>12 DEF Next

\* No step changes the device, or takes back what was said of it.
LEMMA SameDevice ==
  ASSUME Next
  PROVE  UNCHANGED <<type, words>> /\ Kind' = Kind /\ claimed \subseteq claimed'
<1>1. UNCHANGED <<type, words>> /\ claimed \subseteq claimed'
  BY DEF Next, OnDevice, Refused, InitDefaults, SetValues, Build, BuildUnknown,
         BuildTooLong, Decode, SetBuf, ReadEeprom, ReadFails, WriteEeprom, WriteFails,
         WriteRefused, WriteLocation, WriteLocationAt, LocationRefused, Erase, EraseInternal, EraseRefused,
         EraseFails
<1> QED BY <1>1 DEF Kind

\* A successful erase has found the chip that is there.
LEMMA EraseNames ==
  ASSUME IInv, Erase \/ EraseInternal
  PROVE  eeprom'.chip = Kind
<1>1. Pair(type, words) /\ StructRight(eeprom)
  BY Pairs DEF IInv, GoodStruct
<1>2. "chip" \in DOMAIN eeprom
  BY <1>1 DEF StructRight, Blank
<1> QED BY <1>1, <1>2, KindIs DEF Erase, EraseInternal

\* A successful erase has found the chip that is there, or left an internal EEPROM
\* alone, and an AM or BM comes to name no other but by set_value.
THEOREM EraseFinds == Spec => []ChipFound
<1>1. Init => ChipFound
  <2> SUFFICES ASSUME Init PROVE ChipFound
    OBVIOUS
  <2>1. last # <<"erase", 0>>
    BY DEF Init, Other
  <2> QED BY <2>1, InitNamed DEF ChipFound
<1>2. ASSUME IInv, ChipFound, [Next]_vars
      PROVE  ChipFound'
  <2>1. CASE UNCHANGED vars
    BY <1>2, <2>1 DEF ChipFound, vars, Kind
  <2>2. CASE Next
    <3>1. UNCHANGED <<type, words>> /\ Kind' = Kind /\ claimed \subseteq claimed'
      BY <2>2, SameDevice
    <3>2. CASE Erase \/ EraseInternal
      BY <1>2, <3>1, <3>2, EraseNames DEF ChipFound
    <3>3. CASE ~(Erase \/ EraseInternal)
      <4>1. last' # <<"erase", 0>>
        BY <2>2, <3>3, Told, ToldIs DEF Other
      <4>2. type \in Older => eeprom'.chip \in {eeprom.chip, 0, -1, Kind} \cup claimed'
        BY <1>2, <2>2, <3>3, NamedBy
      <4> QED BY <1>2, <3>1, <4>1, <4>2 DEF ChipFound
    <3> QED BY <3>2, <3>3
  <2> QED BY <1>2, <2>1, <2>2
<1> QED BY <1>1, <1>2, Inductive, PTL DEF Spec

-----------------------------------------------------------------------------
(* What decode gives back.                                                 *)

\* What decode accepts, the structure was decoded from as a whole.
LEMMA AcceptedWhole ==
  ASSUME Decode, last' = <<"decode", 0>>
  PROVE  \E beyond \in {0, 255} :
           eeprom' = DecodedSpecific(type, DecodedCommon(eeprom, buf, beyond), buf)
<1>1. ChecksumRight(buf, eeprom.size)
  <2>1. SUFFICES ASSUME ~ChecksumRight(buf, eeprom.size) PROVE FALSE
    OBVIOUS
  <2>2. Returns("decode", -1)
    BY <2>1 DEF Decode
  <2> QED BY <2>2 DEF Returns, Observed
<1> QED BY <1>1 DEF Decode

\* Whenever decode returns 0 and buf holds an image of that size, it gives back
\* everything the image was built from: the fields up to the width of their
\* bytes and the strings, but not those of a 232H on a chip of 128 bytes.
RoundTrip ==
    last = <<"decode", 0>> =>
        \A i \in images :
            eeprom.size = i.of.size /\ Agree(buf, i.buf, eeprom.size) =>
                /\ CommonBack(type, i.of, eeprom) /\ SpecificBack(type, i.of, eeprom)
                /\ (type = "232H" => i.of.size = 256) => StringsBack(i.of, eeprom)

\* Building an image and decoding it, with any calls before, between and after,
\* loses nothing that the image has room for.
THEOREM RoundTrips == Spec => []RoundTrip
<1>1. Init => RoundTrip
  BY DEF Init, RoundTrip, Other
<1>2. ASSUME IInv, Named, RoundTrip, [Next]_vars
      PROVE  RoundTrip'
  <2>1. CASE UNCHANGED vars
    BY <1>2, <2>1 DEF RoundTrip, vars, Agree
  <2>2. CASE Next /\ ~Decode
    <3>1. last' # <<"decode", 0>>
      BY <2>2, Told, ToldIs DEF Other
    <3> QED BY <3>1 DEF RoundTrip
  <2>3. CASE Decode
    <3>1. UNCHANGED <<type, buf, images>>
      BY <2>3 DEF Decode, OnDevice
    <3>2. SUFFICES ASSUME last' = <<"decode", 0>>, NEW i \in images, eeprom'.size = i.of.size,
                          Agree(buf, i.buf, eeprom'.size)
                   PROVE  /\ CommonBack(type, i.of, eeprom') /\ SpecificBack(type, i.of, eeprom')
                          /\ (type = "232H" => i.of.size = 256) => StringsBack(i.of, eeprom')
      BY <3>1 DEF RoundTrip, Agree
    <3>3. PICK beyond \in {0, 255} :
            eeprom' = DecodedSpecific(type, DecodedCommon(eeprom, buf, beyond), buf)
      BY <2>3, <3>2, AcceptedWhole
    <3> DEFINE o == i.of
               old == eeprom
    <3>4. beyond \in Byte /\ type \in Types /\ buf \in [Address -> Byte] /\ StructRight(old)
      BY <1>2, Pairs DEF Byte, IInv, Pair, GoodStruct, GoodBuf
    <3>5. /\ Fits(type, o) /\ o.size = BuildSize(o.chip) /\ i.buf = Image(type, o)
          /\ NamesOK(o) /\ o.chip # -1
      BY <1>2 DEF IInv, GoodImage, Named
    <3>6. old.size = BuildSize(o.chip)
      <4> DEFINE c == DecodedCommon(eeprom, buf, beyond)
      <4>1. StructRight(c) /\ c.size = old.size
        BY <3>4, CommonRight
      <4> HIDE DEF c
      <4>2. DecodedSpecific(type, c, buf).size = c.size
        BY <3>4, <4>1, SpecificRight
      <4> QED BY <3>2, <3>3, <3>5, <4>1, <4>2 DEF c
    <3>7. Holding(type, o, buf)
      BY <3>2, <3>4, <3>5 DEF Holding
    <3> DEFINE d == DecodedSpecific(type, DecodedCommon(old, buf, beyond), buf)
    <3>8. /\ CommonBack(type, o, d) /\ SpecificBack(type, o, d)
          /\ (type = "232H" => BuildSize(o.chip) = 256) => StringsBack(o, d)
      BY <3>4, <3>5, <3>6, <3>7, ImageRound
    <3>9. eeprom' = d
      BY <3>3
    <3> HIDE DEF d
    <3> QED BY <3>5, <3>8, <3>9
  <2> QED BY <1>2, <2>1, <2>2, <2>3
<1> QED BY <1>1, <1>2, Inductive, NamesKept, PTL DEF Spec

\* What decode accepts is an image that was built, of the size it takes it for:
\* the checksum of 16 bits has not taken anything else for one.
Recognised ==
    last = <<"decode", 0>> =>
        \E i \in images : eeprom.size = i.of.size /\ Agree(buf, i.buf, eeprom.size)

\* Only a checksum that is right by accident can make decode unfaithful: as long
\* as it has taken nothing but images for images, decode gives back all of the
\* image that buf holds, whatever was read, written or built in part before.
THEOREM DecodesBack == Spec => [](Recognised => DecodeFaithful)
<1>1. ASSUME IInv, RoundTrip, Recognised
      PROVE  DecodeFaithful
  <2>1. SUFFICES ASSUME DetectedFirst, type = "232H" => Kind # 70, last = <<"decode", 0>>
                 PROVE  \E i \in images : /\ Agree(buf, i.buf, eeprom.size)
                                          /\ GivesBack(type, i.of, eeprom)
    BY DEF DecodeFaithful, Decoded
  <2>2. PICK i \in images : eeprom.size = i.of.size /\ Agree(buf, i.buf, eeprom.size)
    BY <1>1, <2>1 DEF Recognised
  <2>3. type = "232H" => i.of.size = 256
    <3>1. i.of.chip = Kind /\ i.of.size = BuildSize(i.of.chip)
      BY <1>1, <2>1 DEF DetectedFirst, IInv, GoodImage
    <3>2. type = "232H" => Kind \in {86, 102}
      <4>1. Pair(type, words)
        BY <1>1, Pairs DEF IInv
      <4>2. type = "232H" => Kind = CASE words = 64 -> 70 [] words = 128 -> 86 [] OTHER -> 102
        BY <4>1, KindIs
      <4> QED BY <2>1, <4>2
    <3> QED BY <3>1, <3>2 DEF BuildSize
  <2>4. CommonBack(type, i.of, eeprom) /\ SpecificBack(type, i.of, eeprom) /\ StringsBack(i.of, eeprom)
    BY <1>1, <2>1, <2>2, <2>3 DEF RoundTrip
  <2> QED BY <2>2, <2>4 DEF GivesBack
<1> QED BY <1>1, Inductive, RoundTrips, PTL

-----------------------------------------------------------------------------
(* The chip that the structure names.                                      *)

\* decode has accepted no bytes but those of an image that was built.
NoCollision ==
    last = <<"decode", 0>> => \E i \in images : Agree(buf, i.buf, i.of.size)

\* The structure and the images name the chip that is there, none, or one that the
\* client has set.
OneChip == type # "R" => /\ eeprom.chip \in {0, -1, Kind} \cup Said
                         /\ \A i \in images : i.of.chip \in {0, Kind} \cup Said

\* An image keeps the low byte of any of them, and only that.
LEMMA LowSaid ==
  ASSUME Pair(type, words), claimed \subseteq Int, NEW n \in {0, Kind} \cup Said
  PROVE  Low(n) \in {0, Kind} \cup Said
<1>1. Low(0) = 0 /\ Low(Kind) = Kind
  BY KindIs DEF Low
<1>2. \A c \in Int : Low(Low(c)) = Low(c)
  BY DEF Low
<1> QED BY <1>1, <1>2 DEF Said

\* Nor to the images of such chips.
LEMMA ImageSaid ==
  ASSUME IInv, OneChip, type # "R", NEW i \in images
  PROVE  Low(i.of.chip) \in {0, Kind} \cup Said
<1> DEFINE n == i.of.chip
<1>1. n \in {0, Kind} \cup Said
  BY Zenon DEF OneChip
<1>2. Pair(type, words) /\ claimed \subseteq Int
  BY Pairs DEF IInv
<1> HIDE DEF n
<1>3. Low(n) \in {0, Kind} \cup Said
  BY ONLY <1>1, <1>2, LowSaid
<1> QED BY <1>3, Zenon DEF n

\* Without a collision a decode finds no other chip.
LEMMA DecodeNames ==
  ASSUME IInv, Named, OneChip, Decode, NoCollision', type # "R"
  PROVE  eeprom'.chip \in {0, -1, Kind} \cup Said
<1>1. /\ type \in Types /\ buf \in [Address -> Byte] /\ StructRight(eeprom)
      /\ UNCHANGED <<type, buf, images>>
  BY Pairs DEF IInv, Pair, GoodStruct, GoodBuf, Decode, OnDevice
<1>2. PICK beyond \in {0, 255} :
          \/ eeprom' = DecodedCommon(eeprom, buf, beyond) /\ last' = <<"decode", -1>>
          \/ eeprom' = DecodedSpecific(type, DecodedCommon(eeprom, buf, beyond), buf)
             /\ last' = <<"decode", 0>>
  BY DEF Decode, Returns, Observed
<1> DEFINE c == DecodedCommon(eeprom, buf, beyond)
           d == DecodedSpecific(type, c, buf)
<1>3. beyond \in Byte
  BY DEF Byte
<1>4. StructRight(c) /\ c.chip = eeprom.chip
  BY <1>1, <1>3, CommonRight
<1>5. CASE eeprom' = c
  BY <1>4, <1>5 DEF OneChip
<1>6. CASE eeprom' = d /\ last' = <<"decode", 0>>
  <2> HIDE DEF c
  <2>1. /\ type \in Older => d.chip = -1
        /\ type \in Types \ {"AM", "BM", "R"} => d.chip = buf[TypeAddress(type)]
    BY <1>1, <1>4, SpecificRight
  <2> HIDE DEF d
  <2>2. CASE type \in Older
    BY <1>6, <2>1, <2>2
  <2>3. CASE type \in Types \ {"AM", "BM", "R"}
    <3>1. PICK i \in images : Agree(buf, i.buf, i.of.size)
      BY <1>1, <1>6 DEF NoCollision, Agree
    <3>2. /\ Fits(type, i.of) /\ i.of.chip # -1
          /\ i.of.size = BuildSize(i.of.chip) /\ i.buf = Image(type, i.of)
      BY <3>1 DEF IInv, GoodImage, Named
    <3>3. Holding(type, i.of, buf)
      BY <1>1, <3>1, <3>2 DEF Holding
    <3>4. buf[TypeAddress(type)] = Low(i.of.chip)
      BY <2>3, <3>2, <3>3, ChipRound
    <3>5. Low(i.of.chip) \in {0, Kind} \cup Said
      BY <3>1, ImageSaid
    <3> QED BY <1>6, <2>1, <2>3, <3>4, <3>5
  <2> QED BY <1>1, <2>2, <2>3 DEF Older
<1> QED BY <1>2, <1>5, <1>6

\* Nor does any other step, whatever fails.
LEMMA OneChipStep ==
  ASSUME IInv, Named, OneChip, [Next]_vars, NoCollision'
  PROVE  OneChip'
<1>1. CASE UNCHANGED vars
  BY <1>1 DEF OneChip, vars, Kind, Said
<1>2. CASE Next
  <2>1. UNCHANGED <<type, words>> /\ Kind' = Kind /\ claimed \subseteq claimed'
    BY <1>2, SameDevice
  <2>2. SUFFICES ASSUME type # "R"
                 PROVE  /\ eeprom'.chip \in {0, -1, Kind} \cup Said'
                        /\ \A i \in images' : i.of.chip \in {0, Kind} \cup Said'
    BY <2>1 DEF OneChip
  <2>0. Said \subseteq Said' /\ claimed' \subseteq Said'
    BY <2>1 DEF Said
  <2>3. eeprom'.chip \in {0, -1, Kind} \cup Said'
    <3>1. CASE Erase \/ EraseInternal
      BY <3>1, EraseNames
    <3>2. CASE Decode
      BY <2>0, <2>2, <3>2, DecodeNames
    <3>3. CASE ~(Erase \/ EraseInternal \/ Decode)
      BY <1>2, <2>0, <2>2, <3>3, NamedBy DEF OneChip
    <3> QED BY <3>1, <3>2, <3>3
  <2>4. \A i \in images' : i.of.chip \in {0, Kind} \cup Said'
    <3>1. CASE Build
      <4> DEFINE j == ImageOf(eeprom)
      <4>1. eeprom.chip # -1 /\ images' = images \cup {j}
        BY <3>1 DEF Build
      <4>2. j.of.chip = eeprom.chip
        BY BuiltNames DEF IInv, GoodStruct, Named
      <4> HIDE DEF j
      <4> QED BY <2>0, <2>2, <4>1, <4>2 DEF OneChip
    <3>2. CASE ~Build
      <4>1. images' = images
        BY <1>2, <3>2 DEF Next, Refused, InitDefaults, SetValues, BuildUnknown,
              BuildTooLong, Decode, SetBuf, ReadEeprom, ReadFails, WriteEeprom, WriteFails,
              WriteRefused, WriteLocation, WriteLocationAt, LocationRefused, Erase, EraseInternal, EraseRefused,
              EraseFails
      <4> QED BY <2>0, <2>2, <4>1 DEF OneChip
    <3> QED BY <3>1, <3>2
  <2> QED BY <2>3, <2>4
<1> QED BY <1>1, <1>2

\* In every behaviour without a checksum that is right by accident, no sequence
\* of calls, however they fail, ends with the structure naming another chip than
\* the one that is there, and a successful erase names that one.
THEOREM ChipsDetected == Spec /\ []NoCollision => []Detected
<1>1. Init => OneChip
  BY InitNamed DEF OneChip, Said
<1>2. Spec /\ []NoCollision => []OneChip
  BY <1>1, OneChipStep, Inductive, NamesKept, PTL DEF Spec
<1>3. ChipFound /\ OneChip => Detected
  BY DEF ChipFound, OneChip, Detected
<1> QED BY <1>2, <1>3, EraseFinds, PTL
=============================================================================
