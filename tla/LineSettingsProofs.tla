-------------------------- MODULE LineSettingsProofs --------------------------
(***************************************************************************)
(* Baud rates: every rate above zero is turned into a request the chip can *)
(* read as a divisor it has (the divisor a computation ends with is        *)
(* between 16 and 131071 eighths, or one of the three special ones, and    *)
(* reading undoes encoding); the rate it is checked by is the one the chip *)
(* makes of it; and the divisor is the nearest there is (Chosen).  Bounds  *)
(* are inequalities, not intervals: the provers enumerate an interval      *)
(* between two numbers.                                                    *)
(*                                                                         *)
(* Modes: the flag the context multiplies baud rates by tells the mode     *)
(* that was last set, for every set of rates, modes and interfaces.  The   *)
(* invariant is that and the part of the types its steps need (FlagInv);   *)
(* what the requests are does not matter.  On both rest the properties of  *)
(* the rate that was set last, on the invariant alone how the flag can go  *)
(* stale, and apart from them, call by call, the properties of the other   *)
(* requests.                                                               *)
(***************************************************************************)
EXTENDS LineSettings, TLAPS

\* The codes of the eighths are a permutation of them.
LEMMA CodesDiffer ==
    /\ \A f \in 0 .. 7 : frac_code[f] \in 0 .. 7
    /\ \A f, g \in 0 .. 7 : frac_code[f] = frac_code[g] => f = g
    /\ \A f \in {0, 1, 2, 4} : frac_code[f] < 4
<1>1. /\ frac_code[0] = 0 /\ frac_code[1] = 3 /\ frac_code[2] = 2 /\ frac_code[3] = 4
      /\ frac_code[4] = 1 /\ frac_code[5] = 5 /\ frac_code[6] = 6 /\ frac_code[7] = 7
  BY DEF frac_code
<1> QED
  BY <1>1

LEMMA EighthsOfCode ==
    ASSUME NEW f \in 0 .. 7
    PROVE  Eighths(frac_code[f]) = f
BY CodesDiffer DEF Eighths

\* A quotient, without the division.
LEMMA QuotientBounds ==
    ASSUME NEW a \in Nat, NEW b \in Nat \ {0}
    PROVE  /\ a \div b \in Nat
           /\ (a \div b) * b <= a
           /\ a < ((a \div b) + 1) * b
OBVIOUS

LEMMA QuotientAtLeast ==
    ASSUME NEW a \in Nat, NEW b \in Nat \ {0}, NEW n \in Nat, n * b <= a
    PROVE  a \div b >= n
<1> DEFINE q == a \div b
<1>1. q \in Nat /\ a < (q + 1) * b
  BY QuotientBounds
<1>2. SUFFICES ASSUME q + 1 <= n PROVE FALSE
  BY <1>1
<1>3. (q + 1) * b <= n * b
  BY <1>1, <1>2
<1> QED
  BY <1>1, <1>3

\* Quotient and remainder are the only ones.
LEMMA Division ==
    ASSUME NEW b \in Nat \ {0}, NEW q \in Nat, NEW r \in Nat, r < b, NEW a \in Nat, a = b * q + r
    PROVE  a \div b = q /\ a % b = r
OBVIOUS

\* Below half the clock the divisor is one that 14 bits and an eighth can hold; that
\* 131072 is never reached is luck of the two clocks.
LEMMA RoundedDivisorRange ==
    ASSUME NEW baudrate \in Nat \ {0}, NEW fast \in {3000000, 12000000}, 2 * baudrate < fast
    PROVE  LET d == RoundedDivisor(baudrate, fast) IN d \in Nat /\ 16 <= d /\ d < 131072
<1> DEFINE q == (16 * fast) \div baudrate
<1>1. q \in Nat /\ q >= 32
  BY QuotientBounds, QuotientAtLeast
<1>2. q * baudrate <= 16 * fast /\ 16 * fast < (q + 1) * baudrate
  BY QuotientBounds
<1>3. q # 262143
  <2>1. SUFFICES ASSUME q = 262143 PROVE FALSE
    OBVIOUS
  <2>2. 262143 * baudrate <= 16 * fast /\ 16 * fast < 262144 * baudrate
    BY <1>2, <2>1
  <2> QED
    BY <2>2
<1>4. q # 262144
  <2>1. SUFFICES ASSUME q = 262144 PROVE FALSE
    OBVIOUS
  <2>2. 262144 * baudrate <= 16 * fast /\ 16 * fast < 262145 * baudrate
    BY <1>2, <2>1
  <2> QED
    BY <2>2
<1>5. HalfUp(q) \in Nat /\ HalfUp(q) >= 16 /\ HalfUp(q) # 131072
  BY <1>1, <1>3, <1>4 DEF HalfUp
<1> HIDE DEF q
<1>6. RoundedDivisor(baudrate, fast) = IF HalfUp(q) > 131072 THEN 131071 ELSE HalfUp(q)
  BY DEF RoundedDivisor, q
<1> QED
  BY <1>5, <1>6

-----------------------------------------------------------------------------
(* Reading undoes encoding.                                                *)

\* The code of an eighth and its high bit, which the chips keep apart.
LEMMA CodeBits ==
    ASSUME NEW c \in 0 .. 7
    PROVE  /\ c % 4 \in Nat /\ c % 4 < 4
           /\ c \div 4 \in {0, 1}
           /\ c = (c % 4) + 4 * (c \div 4)
           /\ c < 4 => c \div 4 = 0
OBVIOUS

\* Some bits hold the divisor w and the code c, and k in the clock bit of an H chip.
BitsOf(type, bits, w, c, k) ==
    /\ type \in Types
    /\ w \in Nat /\ w < 16384
    /\ c \in 0 .. 7 /\ (type = "AM" => c < 4)
    /\ k \in {0, 1} /\ (type \notin HighSpeed => k = 0)
    /\ bits = w + 16384 * c + 131072 * k

ClockOf(k) == IF k = 1 THEN 12000000 ELSE 3000000

\* The chip finds the code c and the clock bit k in the request, and the index holds
\* nothing it should not.
ReadAs(type, bits, i, c, k) ==
    /\ Index(type, bits, i) \in Nat
    /\ type \in HighSpeed => Index(type, bits, i) - i \in {0, 256, 512, 768}
    /\ type \in EighthTypes => Index(type, bits, i) \in {0, 1}
    /\ type = "AM" => Index(type, bits, i) = 0
    /\ FractionBits(type, bits % 65536, Index(type, bits, i)) = c
    /\ Clock(type, Index(type, bits, i)) = ClockOf(k)

\* The request is one the chip has, and means the divisor d of the clock k stands for.
Means(type, bits, i, d, k) ==
    /\ Readable(type, bits % 65536, Index(type, bits, i), i)
    /\ ChipDivisor(type, bits % 65536, Index(type, bits, i)) = d
    /\ Clock(type, Index(type, bits, i)) = ClockOf(k)

\* How they are split over value and index.
LEMMA SplitBits ==
    ASSUME NEW type, NEW w, NEW c, NEW k, NEW bits, BitsOf(type, bits, w, c, k)
    PROVE  /\ bits % 65536 \in Nat /\ bits % 65536 < 65536
           /\ (bits % 65536) % 16384 = w
           /\ (bits % 65536) \div 16384 = c % 4
           /\ bits \div 65536 = (c \div 4) + 2 * k
<1> USE DEF BitsOf
<1>1. PICK high \in Nat, low \in Nat : high = c \div 4 /\ low = c % 4 /\ low < 4 /\ c = low + 4 * high
  BY CodeBits
<1>2. PICK rest \in Nat : rest = w + 16384 * low /\ rest < 65536
  BY <1>1
<1>3. bits = 65536 * (high + 2 * k) + rest
  BY <1>1, <1>2
<1>4. bits \div 65536 = high + 2 * k /\ bits % 65536 = rest
  BY <1>2, <1>3, Division, 65536 \in Nat \ {0}, high + 2 * k \in Nat
<1>5. rest = 16384 * low + w
  BY <1>2
<1>6. rest \div 16384 = low /\ rest % 16384 = w
  BY <1>5, Division, 16384 \in Nat \ {0}
<1> QED
  BY <1>1, <1>2, <1>4, <1>6

LEMMA IndexRead ==
    ASSUME NEW type, NEW w, NEW c, NEW k, NEW bits, BitsOf(type, bits, w, c, k), NEW i \in 1 .. 4
    PROVE  ReadAs(type, bits, i, c, k)
<1> USE DEF BitsOf, ReadAs
<1>1. (bits % 65536) \div 16384 = c % 4 /\ bits \div 65536 = (c \div 4) + 2 * k
  BY SplitBits
<1>2. PICK high \in {0, 1} : high = c \div 4 /\ c = (c % 4) + 4 * high /\ (c < 4 => high = 0)
  BY CodeBits
<1>3. CASE type \in HighSpeed
  <2>1. Index(type, bits, i) = 256 * (high + 2 * k) + i
    BY <1>1, <1>2, <1>3 DEF Index
  <2>2. Index(type, bits, i) \div 256 = high + 2 * k
    BY <2>1, Division, 256 \in Nat \ {0}
  <2>3. (high + 2 * k) % 2 = high
    BY <1>2
  <2>4. FractionBits(type, bits % 65536, Index(type, bits, i)) = c
    BY <1>1, <1>2, <1>3, <2>2, <2>3 DEF FractionBits
  <2>5. Clock(type, Index(type, bits, i)) = ClockOf(k)
    <3>1. PICK low \in Nat : low = 256 * high + i /\ low < 512
      BY <1>2
    <3>2. Index(type, bits, i) = 512 * k + low
      BY <2>1, <3>1, <1>2
    <3>3. Index(type, bits, i) \div 512 = k
      BY <3>1, <3>2, Division, 512 \in Nat \ {0}
    <3> QED
      BY <1>3, <3>3 DEF Clock, ClockOf
  <2> QED
    BY <1>2, <1>3, <2>1, <2>4, <2>5 DEF HighSpeed, EighthTypes
<1>4. CASE type \in EighthTypes
  <2>1. Index(type, bits, i) = high
    BY <1>1, <1>2, <1>4 DEF Index, HighSpeed, EighthTypes
  <2>2. FractionBits(type, bits % 65536, Index(type, bits, i)) = c
    BY <1>1, <1>2, <1>4, <2>1 DEF FractionBits, HighSpeed, EighthTypes
  <2>3. Clock(type, Index(type, bits, i)) = ClockOf(k)
    BY <1>4 DEF Clock, ClockOf, HighSpeed, EighthTypes
  <2> QED
    BY <1>2, <1>4, <2>1, <2>2, <2>3 DEF HighSpeed, EighthTypes
<1>5. CASE type = "AM"
  <2>1. Index(type, bits, i) = 0
    BY <1>1, <1>2, <1>5 DEF Index, HighSpeed
  <2>2. FractionBits(type, bits % 65536, Index(type, bits, i)) = c
    BY <1>1, <1>2, <1>5 DEF FractionBits, HighSpeed, EighthTypes
  <2>3. Clock(type, Index(type, bits, i)) = ClockOf(k)
    BY <1>5 DEF Clock, ClockOf, HighSpeed
  <2> QED
    BY <1>5, <2>1, <2>2, <2>3 DEF HighSpeed, EighthTypes
<1> QED
  BY <1>3, <1>4, <1>5 DEF Types, HighSpeed, EighthTypes

\* The bits with the clock bit of an H chip (k) or without.
WithClock(bits, b, k) == bits = b + 131072 * k

\* An encoded divisor from 16 on is read back.
LEMMA ReadEncoded ==
    ASSUME NEW type \in Types, NEW d \in Nat, 16 <= d, d < 131072, NEW k \in {0, 1},
           NEW i \in 1 .. 4, type = "AM" => d % 8 \in {0, 1, 2, 4},
           type \notin HighSpeed => k = 0,
           NEW bits, WithClock(bits, Encoded(d), k)
    PROVE  Means(type, bits, i, d, k)
<1>1. PICK w \in Nat, f \in 0 .. 7 :
        w = d \div 8 /\ f = d % 8 /\ 2 <= w /\ w < 16384 /\ d = 8 * w + f
  OBVIOUS
<1>2. PICK c \in 0 .. 7 : c = frac_code[f] /\ Eighths(c) = f
  BY <1>1, CodesDiffer, EighthsOfCode
<1>3. type = "AM" => c < 4
  BY <1>1, <1>2, CodesDiffer
<1>4. BitsOf(type, bits, w, c, k)
  BY <1>1, <1>2, <1>3 DEF Encoded, BitsOf, WithClock
<1>5. /\ bits % 65536 \in Nat /\ bits % 65536 < 65536
      /\ (bits % 65536) % 16384 = w
  BY <1>4, SplitBits
<1>6. ReadAs(type, bits, i, c, k)
  BY <1>4, IndexRead
<1>7. ChipDivisor(type, bits % 65536, Index(type, bits, i)) = d
  BY <1>1, <1>2, <1>5, <1>6 DEF ChipDivisor, ReadAs
<1>8. Supported(type, d)
  BY DEF Supported
<1> QED
  BY <1>5, <1>6, <1>7, <1>8 DEF Readable, ReadAs, Means

\* The two divisors with codes of their own, 1 and 1.5, are read back.
LEMMA ReadSpecial ==
    ASSUME NEW type \in Types, NEW b \in {0, 1}, NEW k \in {0, 1}, NEW i \in 1 .. 4,
           type \notin HighSpeed => k = 0, type = "AM" => b = 0,
           NEW bits, WithClock(bits, b, k)
    PROVE  Means(type, bits, i, IF b = 0 THEN 8 ELSE 12, k)
<1> PICK c \in 0 .. 7 : c = 0
  OBVIOUS
<1>1. BitsOf(type, bits, b, c, k)
  BY DEF BitsOf, WithClock
<1>2. /\ bits % 65536 \in Nat /\ bits % 65536 < 65536
      /\ (bits % 65536) % 16384 = b
  BY <1>1, SplitBits
<1>3. ReadAs(type, bits, i, c, k)
  BY <1>1, IndexRead
<1>4. Eighths(0) = 0
  <2>1. frac_code[0] = 0
    BY DEF frac_code
  <2> QED
    BY <2>1, EighthsOfCode
<1>5. ChipDivisor(type, bits % 65536, Index(type, bits, i)) = IF b = 0 THEN 8 ELSE 12
  BY <1>2, <1>3, <1>4 DEF ChipDivisor, ReadAs
<1>6. Supported(type, IF b = 0 THEN 8 ELSE 12)
  BY DEF Supported
<1> QED
  BY <1>2, <1>3, <1>5, <1>6 DEF Readable, ReadAs, Means

-----------------------------------------------------------------------------
(* Which divisor is the nearest, and which rates no divisor is near to.    *)

\* The divisor e is no nearer to the rate b than d is, counted in divisors or in rates.
NoNearer(F, b, e, d) ==
    \/ Distance(8 * F, e * b) >= Distance(8 * F, d * b)
    \/ Distance(ChipRate(F, e), b) >= Distance(ChipRate(F, d), b)

Best(type, F, b, d) == \A e \in Nat : Supported(type, e) => NoNearer(F, b, e, d)

\* None of the rates of this clock is within the tolerance.
Unreachable(type, F, b) ==
    \A e \in Nat : Supported(type, e) => ~WithinTolerance(ChipRate(F, e), b)

LEMMA RateBounds ==
    ASSUME NEW F \in Nat, NEW d \in Nat \ {0}
    PROVE  /\ ChipRate(F, d) \in Nat
           /\ ChipRate(F, d) * d <= 8 * F + (d \div 2)
           /\ 8 * F + (d \div 2) < (ChipRate(F, d) + 1) * d
<1>1. 8 * F + (d \div 2) \in Nat
  OBVIOUS
<1> QED
  BY <1>1, QuotientBounds DEF ChipRate

LEMMA RateNatural ==
    ASSUME NEW F \in Nat, NEW d \in Nat \ {0}
    PROVE  ChipRate(F, d) \in Nat
BY RateBounds

LEMMA RateAtLeast ==
    ASSUME NEW F \in Nat, NEW d \in Nat \ {0}, NEW n \in Nat, n * d <= 8 * F
    PROVE  ChipRate(F, d) >= n
<1>1. 8 * F + (d \div 2) \in Nat /\ n * d <= 8 * F + (d \div 2)
  <2>1. PICK p \in Nat, h \in Nat : p = n * d /\ h = d \div 2
    OBVIOUS
  <2> QED
    BY <2>1
<1> QED
  BY <1>1, QuotientAtLeast DEF ChipRate

LEMMA RateAtMost ==
    ASSUME NEW F \in Nat, NEW d \in Nat \ {0}, NEW n \in Nat, 8 * F <= n * d
    PROVE  ChipRate(F, d) <= n
<1>1. PICK r \in Nat : r = ChipRate(F, d) /\ r * d <= 8 * F + (d \div 2)
  BY RateBounds
<1>2. SUFFICES ASSUME r >= n + 1 PROVE FALSE
  BY <1>1
<1>3. r * d >= (n + 1) * d
  BY <1>2
<1>4. (n + 1) * d = n * d + d /\ d \div 2 < d
  OBVIOUS
<1> QED
  BY <1>1, <1>3, <1>4

\* A greater divisor makes no greater rate.
LEMMA RateMonotone ==
    ASSUME NEW F \in Nat, NEW d \in Nat \ {0}, NEW e \in Nat \ {0}, e <= d
    PROVE  ChipRate(F, e) >= ChipRate(F, d)
<1>1. PICK r \in Nat : r = ChipRate(F, d) /\ r * d <= 8 * F + (d \div 2)
  BY RateBounds
<1>2. CASE r = 0
  BY <1>1, <1>2, RateBounds
<1>3. CASE r >= 1
  <2>1. PICK g \in Nat : d = e + g
    <3>1. d - e \in Nat /\ d = e + (d - e)
      OBVIOUS
    <3> QED
      BY <3>1
  <2>2. r * d = r * e + r * g /\ r * g >= g
    BY <1>3, <2>1
  <2>3. d \div 2 <= (e \div 2) + g
    BY <2>1
  <2>4. 8 * F + (e \div 2) \in Nat /\ r * e <= 8 * F + (e \div 2)
    BY <1>1, <2>2, <2>3
  <2> QED
    BY <1>1, <2>4, QuotientAtLeast DEF ChipRate
<1> QED
  BY <1>2, <1>3

\* Beyond a rate that is not within the tolerance there is none.
LEMMA ToleranceMonotone ==
    ASSUME NEW b \in Nat \ {0}, NEW r \in Nat, NEW s \in Nat, WithinTolerance(r, b),
           (r <= s /\ s <= b) \/ (b <= s /\ s <= r)
    PROVE  WithinTolerance(s, b)
BY DEF WithinTolerance

\* A divisor that is off by half an eighth at most has no rival.
LEMMA HalfAnEighth ==
    ASSUME NEW F \in Nat, NEW b \in Nat \ {0}, NEW d \in Nat, NEW e \in Nat,
           2 * (d * b) <= 16 * F + b, 16 * F <= 2 * (d * b) + b
    PROVE  NoNearer(F, b, e, d)
<1>1. PICK p \in Nat, q \in Nat : p = d * b /\ q = e * b
  OBVIOUS
<1>2. CASE e = d
  BY <1>1, <1>2 DEF NoNearer, Distance
<1>3. CASE e > d
  <2>1. PICK g \in Nat : e = d + 1 + g
    <3>1. e - d - 1 \in Nat /\ e = d + 1 + (e - d - 1)
      BY <1>3
    <3> QED
      BY <3>1
  <2>2. q = p + b + g * b /\ g * b \in Nat
    BY <1>1, <2>1
  <2>3. q >= p + b
    BY <1>1, <2>2
  <2> QED
    BY <1>1, <2>3 DEF NoNearer, Distance
<1>4. CASE e < d
  <2>1. PICK g \in Nat : d = e + 1 + g
    <3>1. d - e - 1 \in Nat /\ d = e + 1 + (d - e - 1)
      BY <1>4
    <3> QED
      BY <3>1
  <2>2. p = q + b + g * b /\ g * b \in Nat
    BY <1>1, <2>1
  <2>3. p >= q + b
    BY <1>1, <2>2
  <2> QED
    BY <1>1, <2>3 DEF NoNearer, Distance
<1> QED
  BY <1>2, <1>3, <1>4

-----------------------------------------------------------------------------
(* The three computations.                                                 *)

LEMMA EncodedTwo == Encoded(16) = 2
<1>1. 16 \div 8 = 2 /\ 16 % 8 = 0
  OBVIOUS
<1>2. frac_code[0] = 0
  BY DEF frac_code
<1> QED
  BY <1>1, <1>2 DEF Encoded

\* Both ways of rounding a quotient to the nearest integer.
LEMMA RoundedBothWays ==
    ASSUME NEW a \in Nat, NEW d \in Nat \ {0}
    PROVE  HalfUp((16 * a) \div d) = (8 * a + (d \div 2)) \div d
<1>1. PICK q \in Nat : q = (16 * a) \div d /\ q * d <= 16 * a /\ 16 * a < (q + 1) * d
  BY QuotientBounds, 16 * a \in Nat
<1>2. PICK r \in Nat, e \in {0, 1} : r = HalfUp(q) /\ q = 2 * r - e
  BY DEF HalfUp
<1>3. PICK h \in Nat, o \in {0, 1} : h = d \div 2 /\ d = 2 * h + o
  OBVIOUS
<1>4. PICK p \in Nat : p = r * d
  OBVIOUS
<1>5. (2 * r) * d = 2 * p /\ (2 * r + 1) * d = 2 * p + d /\ (2 * r - 1) * d = 2 * p - d
  BY <1>4
<1>6. p <= 8 * a + h /\ 8 * a + h < p + d
  <2>1. CASE e = 0
    <3>1. 2 * p <= 16 * a /\ 16 * a < 2 * p + d
      BY <1>1, <1>2, <1>5, <2>1
    <3> QED
      BY <1>3, <3>1
  <2>2. CASE e = 1
    <3>1. 2 * p - d <= 16 * a /\ 16 * a < 2 * p
      BY <1>1, <1>2, <1>5, <2>2
    <3> QED
      BY <1>3, <3>1
  <2> QED
    BY <2>1, <2>2
<1>7. PICK b \in Nat : b = 8 * a + h - p /\ b < d /\ 8 * a + h = d * r + b
  BY <1>4, <1>6
<1>8. (8 * a + h) \div d = r
  BY <1>7, Division, 8 * a + h \in Nat
<1> QED
  BY <1>1, <1>2, <1>3, <1>8

LEMMA RoundedRate ==
    ASSUME NEW F \in Nat, NEW d \in Nat \ {0}
    PROVE  HalfUp((16 * F) \div d) = ChipRate(F, d)
BY RoundedBothWays DEF ChipRate

\* Rates beyond what the clock divides to, or too far above the first of the divisors 1,
\* 1.5 and 2 that does not exceed the rate asked for.
Above(F, b) ==
    /\ 2 * b > F
    /\ b >= F => ~WithinTolerance(F, b)
    /\ b < F /\ 3 * b >= 2 * F => ~WithinTolerance(ChipRate(F, 12), b)
    /\ 3 * b < 2 * F => ~WithinTolerance(ChipRate(F, 16), b)

Extreme(F, b) == Above(F, b) \/ 21 * b < 20 * (F \div 16384)

\* What choosing the divisor d for the rate b is to achieve with this clock.
Chosen(type, F, b, d) ==
    IF WithinTolerance(ChipRate(F, d), b) THEN Best(type, F, b, d)
    ELSE IF type = "AM" THEN Unreachable(type, F, b)
    ELSE Extreme(F, b)

\* A result is bits, and the rate a chip with this clock makes of the divisor they mean,
\* which is the one to choose for b.
Makes(c, type, F, b) ==
    \/ c.bits = 0 /\ c.baud = ChipRate(F, 8) /\ Chosen(type, F, b, 8)
    \/ c.bits = 1 /\ c.baud = ChipRate(F, 12) /\ Chosen(type, F, b, 12)
    \/ \E d \in Nat : /\ 16 <= d /\ d < 131072 /\ Chosen(type, F, b, d)
                     /\ c.bits = Encoded(d) /\ c.baud = ChipRate(F, d)

\* Above half the clock one of the three first divisors is chosen.
LEMMA HighChosen ==
    ASSUME NEW type, type # "AM", NEW F \in {3000000, 12000000}, NEW b \in Nat \ {0},
           2 * b >= F
    PROVE  /\ b >= F => Chosen(type, F, b, 8)
           /\ b < F /\ 3 * b >= 2 * F => Chosen(type, F, b, 12)
           /\ 3 * b < 2 * F => Chosen(type, F, b, 16)
<1>1. ChipRate(F, 8) = F /\ 3 * ChipRate(F, 12) = 2 * F /\ 2 * ChipRate(F, 16) = F
  BY DEF ChipRate
<1>2. ASSUME NEW e \in Nat, Supported(type, e)
      PROVE  e = 8 \/ e = 12 \/ (e * b >= 16 * b)
  BY <1>2 DEF Supported
<1>3. CASE b >= F
  <2>1. ASSUME NEW e \in Nat, Supported(type, e) PROVE NoNearer(F, b, e, 8)
    <3>1. PICK p \in Nat : p = e * b
      OBVIOUS
    <3>2. p >= 8 * b
      BY <1>2, <2>1, <3>1
    <3> QED
      BY <1>3, <3>1, <3>2 DEF NoNearer, Distance
  <2>2. WithinTolerance(F, b) \/ Extreme(F, b)
    BY <1>3 DEF Extreme, Above
  <2> QED
    BY <1>1, <1>3, <2>1, <2>2 DEF Chosen, Best
<1>4. CASE b < F /\ 3 * b >= 2 * F
  <2>1. PICK r \in Nat : r = ChipRate(F, 12) /\ 3 * r = 2 * F
    BY <1>1 DEF ChipRate
  <2>2. ASSUME WithinTolerance(r, b), NEW e \in Nat, Supported(type, e)
        PROVE  NoNearer(F, b, e, 12)
    <3>1. PICK p \in Nat : p = e * b
      OBVIOUS
    <3>2. p = 8 * b \/ p = 12 * b \/ p >= 16 * b
      BY <1>2, <2>2, <3>1
    <3>3. 21 * r >= 20 * b
      BY <1>4, <2>1, <2>2 DEF WithinTolerance
    <3> QED
      BY <1>4, <2>1, <3>1, <3>2, <3>3 DEF NoNearer, Distance
  <2>3. WithinTolerance(r, b) \/ Extreme(F, b)
    BY <1>4, <2>1 DEF Extreme, Above
  <2> QED
    BY <1>4, <2>1, <2>2, <2>3 DEF Chosen, Best
<1>5. CASE 3 * b < 2 * F
  <2>1. PICK r \in Nat : r = ChipRate(F, 16) /\ 2 * r = F
    BY <1>1 DEF ChipRate
  <2>2. ASSUME WithinTolerance(r, b), NEW e \in Nat, Supported(type, e)
        PROVE  NoNearer(F, b, e, 16)
    <3>1. PICK p \in Nat : p = e * b
      OBVIOUS
    <3>2. p = 8 * b \/ p = 12 * b \/ p >= 16 * b
      BY <1>2, <2>2, <3>1
    <3>3. 21 * r >= 20 * b
      BY <2>1, <2>2 DEF WithinTolerance
    <3> QED
      BY <2>1, <3>1, <3>2, <3>3 DEF NoNearer, Distance
  <2>3. WithinTolerance(r, b) \/ Extreme(F, b)
    <3>1. CASE 2 * b = F
      BY <2>1, <3>1 DEF WithinTolerance
    <3>2. CASE 2 * b > F
      BY <1>5, <2>1, <3>2 DEF Extreme, Above
    <3> QED
      BY <3>1, <3>2
  <2> QED
    BY <1>5, <2>1, <2>2, <2>3 DEF Chosen, Best
<1> QED
  BY <1>3, <1>4, <1>5

\* Half an eighth is little from 2 on, and so is rounding the rate.
LEMMA SmallError ==
    ASSUME NEW F \in {3000000, 12000000}, NEW b \in Nat \ {0}, NEW d \in Nat, 16 <= d, d < 131072,
           NEW p \in Nat, p = d * b, 2 * p <= 16 * F + b, 16 * F <= 2 * p + b,
           NEW r \in Nat, r = ChipRate(F, d)
    PROVE  WithinTolerance(r, b)
<1>1. PICK z \in Nat : z = r * d /\ (r + 1) * d = z + d
  OBVIOUS
<1>2. 2 * z <= 16 * F + d /\ 16 * F <= 2 * z + d
  <2>1. F \in Nat /\ d \in Nat \ {0}
    OBVIOUS
  <2>2. z <= 8 * F + (d \div 2) /\ 8 * F + (d \div 2) < z + d
    BY <1>1, <2>1, RateBounds
  <2> QED
    BY <2>2
<1>3. p >= 16 * b /\ p >= 100 * d
  <2>1. p >= 16 * b
    OBVIOUS
  <2>2. b >= 100
    <3>1. SUFFICES ASSUME b < 100 PROVE FALSE
      OBVIOUS
    <3>2. p <= 100 * d
      BY <3>1
    <3> QED
      BY <3>1, <3>2
  <2> QED
    BY <2>1, <2>2
<1>4. CASE r >= b
  <2>1. PICK g \in Nat : r = b + g
    <3>1. r - b \in Nat /\ r = b + (r - b)
      BY <1>4
    <3> QED
      BY <3>1
  <2>2. PICK y \in Nat : y = g * d /\ z = p + y
    BY <1>1, <2>1
  <2>3. 20 * g <= b
    <3>1. SUFFICES ASSUME 20 * g >= b + 1 PROVE FALSE
      OBVIOUS
    <3>2. (20 * g) * d >= (b + 1) * d
      BY <3>1
    <3>3. 20 * y >= p + d
      BY <2>2, <3>2
    <3> QED
      BY <1>2, <1>3, <2>2, <3>3
  <2> QED
    BY <1>4, <2>1, <2>3 DEF WithinTolerance
<1>5. CASE r < b
  <2>1. PICK g \in Nat : b = r + g
    <3>1. b - r \in Nat /\ b = r + (b - r)
      BY <1>5
    <3> QED
      BY <3>1
  <2>2. PICK y \in Nat : y = g * d /\ p = z + y
    BY <1>1, <2>1
  <2>3. 21 * g <= b
    <3>1. SUFFICES ASSUME 21 * g >= b + 1 PROVE FALSE
      OBVIOUS
    <3>2. (21 * g) * d >= (b + 1) * d
      BY <3>1
    <3>3. 21 * y >= p + d
      BY <2>2, <3>2
    <3> QED
      BY <1>2, <1>3, <2>2, <3>3
  <2> QED
    BY <1>5, <2>1, <2>3 DEF WithinTolerance
<1> QED
  BY <1>4, <1>5

\* Below it the rounded one.
LEMMA LowChosen ==
    ASSUME NEW type, type # "AM", NEW F \in {3000000, 12000000}, NEW b \in Nat \ {0},
           2 * b < F
    PROVE  Chosen(type, F, b, RoundedDivisor(b, F))
<1>1. PICK d \in Nat : d = RoundedDivisor(b, F) /\ 16 <= d /\ d < 131072
  BY RoundedDivisorRange
<1>2. PICK q \in Nat : q = (16 * F) \div b /\ q * b <= 16 * F /\ 16 * F < (q + 1) * b
  BY QuotientBounds, 16 * F \in Nat
<1>3. PICK r \in Nat : r = ChipRate(F, d)
  <2>1. F \in Nat /\ d \in Nat \ {0}
    BY <1>1
  <2> QED
    BY <2>1, RateNatural
<1>4. PICK m \in Nat, x \in {0, 1} : m = HalfUp(q) /\ q = 2 * m - x
  BY DEF HalfUp
<1>5. PICK p \in Nat : p = d * b
  BY <1>1
<1>6. CASE m <= 131072
  <2>1. d = m
    BY <1>1, <1>2, <1>4, <1>6 DEF RoundedDivisor
  <2>2. 2 * p <= 16 * F + b /\ 16 * F <= 2 * p + b
    <3>1. (2 * d) * b = 2 * p /\ (2 * d + 1) * b = 2 * p + b /\ (2 * d - 1) * b = 2 * p - b
      BY <1>1, <1>5
    <3>2. CASE x = 0
      BY <1>2, <1>4, <2>1, <3>1, <3>2
    <3>3. CASE x = 1
      BY <1>2, <1>4, <2>1, <3>1, <3>3
    <3> QED
      BY <3>2, <3>3
  <2>3. Best(type, F, b, d)
    BY <1>1, <1>5, <2>2, HalfAnEighth DEF Best
  <2>4. WithinTolerance(r, b)
    BY <1>1, <1>3, <1>5, <2>2, SmallError
  <2> QED
    BY <1>1, <1>3, <2>3, <2>4 DEF Chosen
<1>7. CASE m > 131072
  <2>1. d = 131071 /\ 262145 * b <= 16 * F
    <3>1. d = 131071
      BY <1>1, <1>2, <1>4, <1>7 DEF RoundedDivisor
    <3>2. q >= 262145
      BY <1>4, <1>7
    <3>3. q * b >= 262145 * b
      BY <3>2
    <3> QED
      BY <1>2, <3>1, <3>3
  <2>2. r = F \div 16384 /\ r >= b
    BY <1>3, <2>1 DEF ChipRate
  <2>3. ASSUME NEW e \in Nat, Supported(type, e) PROVE NoNearer(F, b, e, d)
    <3>1. e <= d
      BY <2>1, <2>3 DEF Supported
    <3>2. PICK g \in Nat : d = e + g
      <4>1. d - e \in Nat /\ d = e + (d - e)
        BY <3>1
      <4> QED
        BY <4>1
    <3>3. PICK y \in Nat : y = e * b /\ p = y + g * b
      BY <1>5, <3>2
    <3>4. y <= p
      BY <3>3
    <3>5. p <= 8 * F
      BY <1>5, <2>1
    <3> QED
      BY <1>5, <3>3, <3>4, <3>5 DEF NoNearer, Distance
  <2>4. WithinTolerance(r, b) \/ Extreme(F, b)
    BY <2>2 DEF WithinTolerance, Extreme
  <2> QED
    BY <1>1, <1>3, <2>3, <2>4 DEF Chosen, Best
<1> QED
  BY <1>6, <1>7

\* What ftdi_to_clkbits can return.
LEMMA ClkBitsCases ==
    ASSUME NEW type, type # "AM",
           NEW baudrate \in Nat \ {0}, NEW clk, NEW clk_div, NEW fast,
           \/ clk = H_CLK /\ clk_div = 10 /\ fast = 12000000
           \/ clk = C_CLK /\ clk_div = 16 /\ fast = 3000000
    PROVE  Makes(ClkBits(baudrate, clk, clk_div), type, fast, baudrate)
<1>1. PICK half \in Nat :
        /\ fast = clk \div clk_div /\ half = clk \div (clk_div + (clk_div \div 2))
        /\ fast \in {3000000, 12000000} /\ 3 * half = 2 * fast
  BY DEF H_CLK, C_CLK
<1> DEFINE best == RoundedDivisor(baudrate, fast)
<1>2. ClkBits(baudrate, clk, clk_div) =
        IF baudrate >= fast THEN [baud |-> fast, bits |-> 0]
        ELSE IF baudrate >= half THEN [baud |-> half, bits |-> 1]
        ELSE IF 2 * baudrate >= fast THEN [baud |-> fast \div 2, bits |-> 2]
        ELSE [baud |-> HalfUp((16 * fast) \div best), bits |-> Encoded(best)]
  BY <1>1 DEF ClkBits
<1> HIDE DEF best
<1>3. fast \in {3000000, 12000000}
  BY <1>1
<1>4. half \in Nat /\ 3 * half = 2 * fast
  BY <1>1
<1>5. CASE 2 * baudrate >= fast
  <2>1. fast = ChipRate(fast, 8) /\ half = ChipRate(fast, 12) /\ fast \div 2 = ChipRate(fast, 16)
    BY <1>1 DEF ChipRate
  <2>2. CASE baudrate >= fast
    <3>1. Chosen(type, fast, baudrate, 8)
      BY <1>5, <1>3, <2>2, HighChosen
    <3>2. ClkBits(baudrate, clk, clk_div) = [baud |-> fast, bits |-> 0]
      BY <1>2, <2>2
    <3> QED
      BY <2>1, <3>1, <3>2 DEF Makes
  <2>3. CASE baudrate < fast /\ baudrate >= half
    <3>1. Chosen(type, fast, baudrate, 12)
      <4>1. 3 * baudrate >= 2 * fast
        BY <1>3, <1>4, <2>3
      <4> QED
        BY <1>5, <1>3, <2>3, <4>1, HighChosen
    <3>2. ClkBits(baudrate, clk, clk_div) = [baud |-> half, bits |-> 1]
      BY <1>2, <1>3, <2>3
    <3> QED
      BY <2>1, <3>1, <3>2 DEF Makes
  <2>4. CASE baudrate < half
    <3>1. Chosen(type, fast, baudrate, 16) /\ baudrate < fast
      <4>1. 3 * baudrate < 2 * fast /\ baudrate < fast
        BY <1>3, <1>4, <2>4
      <4> QED
        BY <1>5, <1>3, <4>1, HighChosen
    <3>2. ClkBits(baudrate, clk, clk_div) = [baud |-> fast \div 2, bits |-> 2]
      BY <1>2, <1>5, <1>3, <2>4, <3>1
    <3> QED
      BY <2>1, <3>1, <3>2, EncodedTwo DEF Makes
  <2> QED
    BY <1>3, <1>4, <2>2, <2>3, <2>4
<1>6. CASE 2 * baudrate < fast
  <2>1. best \in Nat /\ 16 <= best /\ best < 131072
    BY <1>6, <1>3, RoundedDivisorRange DEF best
  <2>2. ClkBits(baudrate, clk, clk_div) = [baud |-> HalfUp((16 * fast) \div best), bits |-> Encoded(best)]
    <3>1. baudrate < fast /\ baudrate < half
      BY <1>6, <1>3, <1>4
    <3> QED
      BY <1>2, <1>6, <1>3, <3>1
  <2>3. HalfUp((16 * fast) \div best) = ChipRate(fast, best)
    <3>1. fast \in Nat /\ best \in Nat \ {0}
      BY <1>3, <2>1
    <3> QED
      BY <3>1, RoundedRate
  <2>4. Chosen(type, fast, baudrate, best)
    BY <1>6, <1>3, LowChosen DEF best
  <2> QED
    BY <2>1, <2>2, <2>3, <2>4 DEF Makes
<1> QED
  BY <1>3, <1>5, <1>6

\* What ftdi_to_clkbits_AM tries: 1, or a divisor with an eighth the chip has.
LEMMA TriedDivisor ==
    ASSUME NEW divisor \in Int, NEW i \in {0, 1}
    PROVE  LET d == TryDivisor(divisor, i)
           IN  d = 8 \/ (d \in Nat /\ 16 <= d /\ d < 131072 /\ d % 8 \in {0, 1, 2, 4})
<1> DEFINE try == divisor + i
           up  == try + am_adjust_up[try % 8]
<1>1. CASE try <= 8
  BY <1>1 DEF TryDivisor
<1>2. CASE try > 8 /\ divisor < 16
  BY <1>2 DEF TryDivisor
<1>3. CASE try > 8 /\ divisor >= 16
  <2>1. PICK f \in 0 .. 7, w \in Nat : f = try % 8 /\ try = 8 * w + f /\ w >= 2
    BY <1>3
  <2>2. PICK j \in 0 .. 3 : j = am_adjust_up[f] /\ f + j \in {0, 1, 2, 4, 8}
    BY DEF am_adjust_up
  <2>3. PICK n \in Nat : n = up /\ n = 8 * w + (f + j)
    <3>1. up = try + am_adjust_up[f]
      BY <2>1
    <3> HIDE DEF up, try
    <3>2. up = (8 * w + f) + j
      BY <2>1, <2>2, <3>1
    <3>3. (8 * w + f) + j = 8 * w + (f + j) /\ (8 * w + f) + j \in Nat
      OBVIOUS
    <3> QED
      BY <3>2, <3>3
  <2>4. n >= 16 /\ n % 8 \in {0, 1, 2, 4}
    <3>1. CASE f + j = 8
      BY <2>1, <2>3, <3>1
    <3>2. CASE f + j \in {0, 1, 2, 4}
      BY <2>1, <2>3, <3>2
    <3> QED
      BY <2>2, <3>1, <3>2
  <2>5. TryDivisor(divisor, i) = IF n > 131064 THEN 131064 ELSE n
    BY <1>3, <2>3 DEF TryDivisor
  <2> QED
    BY <2>3, <2>4, <2>5
<1> QED
  BY <1>1, <1>2, <1>3

LEMMA BestDivisorRange ==
    ASSUME NEW baudrate \in Nat \ {0}
    PROVE  LET best == BestDivisor(baudrate)
           IN  best = 8 \/ (best \in Nat /\ 16 <= best /\ best < 131072 /\ best % 8 \in {0, 1, 2, 4})
<1>1. FirstDivisor(baudrate) \in Int
  <2>1. 24000000 \div baudrate \in Nat /\ (24000000 \div baudrate) % 8 \in 0 .. 7
    BY QuotientBounds
  <2> QED
    BY <2>1 DEF FirstDivisor, am_adjust_dn
<1>2. BestDivisor(baudrate) \in {TryDivisor(FirstDivisor(baudrate), 0), TryDivisor(FirstDivisor(baudrate), 1)}
  BY DEF BestDivisor
<1> QED
  BY <1>1, <1>2, TriedDivisor

\* Of two divisors around a rate, the one with the nearer rate is the one to choose, if
\* no other divisor makes a rate between theirs; when it is not within the tolerance, the
\* other is not either, as the two are close together or far apart.
LEMMA NearerOfTwo ==
    ASSUME NEW b \in Nat \ {0}, NEW d0 \in Nat \ {0}, NEW d1 \in Nat \ {0},
           NEW r0 \in Nat, r0 = ChipRate(3000000, d0),
           NEW r1 \in Nat, r1 = ChipRate(3000000, d1),
           r0 = r1 \/ (r1 <= b /\ b <= r0),
           r0 = r1 \/ 10 * r0 <= 11 * r1 \/ 19 * r0 >= 21 * r1,
           \A e \in Nat : Supported("AM", e) =>
              \/ ChipRate(3000000, e) >= r0 /\ r0 >= b
              \/ ChipRate(3000000, e) <= r1 /\ r1 <= b
    PROVE  Chosen("AM", 3000000, b, IF Distance(r1, b) < Distance(r0, b) THEN d1 ELSE d0)
<1>1. PICK r \in Nat, d \in Nat \ {0} :
        /\ d = IF Distance(r1, b) < Distance(r0, b) THEN d1 ELSE d0
        /\ r = IF Distance(r1, b) < Distance(r0, b) THEN r1 ELSE r0
        /\ r = ChipRate(3000000, d)
  OBVIOUS
<1>2. ASSUME NEW e \in Nat, Supported("AM", e)
      PROVE  /\ NoNearer(3000000, b, e, d)
             /\ WithinTolerance(ChipRate(3000000, e), b) => WithinTolerance(r0, b) \/ WithinTolerance(r1, b)
  <2>1. e \in Nat \ {0} /\ 3000000 \in Nat
    BY <1>2 DEF Supported
  <2>2. PICK s \in Nat : s = ChipRate(3000000, e)
    BY <2>1, RateNatural
  <2>3. (s >= r0 /\ r0 >= b) \/ (s <= r1 /\ r1 <= b)
    BY <1>2, <2>2
  <2>4. Distance(s, b) >= Distance(r, b)
    BY <1>1, <2>3 DEF Distance
  <2>5. WithinTolerance(s, b) => WithinTolerance(r0, b) \/ WithinTolerance(r1, b)
    BY <2>3, ToleranceMonotone
  <2> QED
    BY <1>1, <2>2, <2>4, <2>5 DEF NoNearer
<1>3. ~WithinTolerance(r, b) => ~WithinTolerance(r0, b) /\ ~WithinTolerance(r1, b)
  <2>1. CASE r0 = r1
    BY <1>1, <2>1
  <2>2. CASE r1 <= b /\ b <= r0 /\ 10 * r0 <= 11 * r1
    BY <1>1, <2>2 DEF WithinTolerance, Distance
  <2>3. CASE r1 <= b /\ b <= r0 /\ 19 * r0 >= 21 * r1
    BY <1>1, <2>3 DEF WithinTolerance, Distance
  <2> QED
    BY <2>1, <2>2, <2>3
<1> QED
  BY <1>1, <1>2, <1>3 DEF Chosen, Best, Unreachable

FarOrFew(d, g) == d + g >= 12 * g \/ (d = 18 /\ g = 2) \/ (d \in {20, 28, 36} /\ g = 4)

\* From 16 on the two divisors that are tried are the neighbours of the exact one, and
\* their rates are a tenth apart at most, but for those of four small divisors.
LEMMA NeighboursTried ==
    ASSUME NEW q \in Nat, 16 <= q, q < 131000,
           NEW first \in Nat, first = q - am_adjust_dn[q % 8]
    PROVE  \E d0 \in Nat, g \in {1, 2, 4} :
             /\ TryDivisor(first, 0) = d0 /\ TryDivisor(first, 1) = d0 + g
             /\ 16 <= d0 /\ d0 <= q /\ q < d0 + g
             /\ \A e \in Nat : Supported("AM", e) => e <= d0 \/ e >= d0 + g
             /\ FarOrFew(d0, g)
<1>1. PICK w \in Nat, f \in 0 .. 7 : q = 8 * w + f /\ f = q % 8 /\ 2 <= w
  OBVIOUS
<1>2. PICK c \in {0, 1, 2, 4} : c = f - am_adjust_dn[f]
  BY DEF am_adjust_dn
<1>3. first = 8 * w + c /\ f < c + (IF c = 2 THEN 2 ELSE IF c = 4 THEN 4 ELSE 1) /\ c <= f
  <2>1. am_adjust_dn[f] \in 0 .. 3
    BY DEF am_adjust_dn
  <2>2. first = 8 * w + c
    BY <1>1, <1>2, <2>1
  <2>3. f < c + (IF c = 2 THEN 2 ELSE IF c = 4 THEN 4 ELSE 1) /\ c <= f
    BY <1>2 DEF am_adjust_dn
  <2> QED
    BY <2>2, <2>3
<1>4. PICK g \in {1, 2, 4} : g = IF c = 2 THEN 2 ELSE IF c = 4 THEN 4 ELSE 1
  OBVIOUS
<1>5. TryDivisor(first, 0) = first
  <2>1. (first + 0) % 8 = c /\ first + 0 = first
    BY <1>3
  <2>2. am_adjust_up[c] = 0
    BY DEF am_adjust_up
  <2> QED
    BY <1>1, <1>3, <2>1, <2>2 DEF TryDivisor
<1>6. TryDivisor(first, 1) = first + g
  <2>1. (first + 1) % 8 = c + 1
    BY <1>3
  <2>2. am_adjust_up[c + 1] = g - 1
    BY <1>4 DEF am_adjust_up
  <2>3. (first + 1) + (g - 1) = first + g
    BY <1>3
  <2> QED
    BY <1>1, <1>3, <2>1, <2>2, <2>3 DEF TryDivisor
<1>7. ASSUME NEW e \in Nat, Supported("AM", e)
      PROVE  e <= first \/ e >= first + g
  <2>1. SUFFICES ASSUME first < e, e < first + g PROVE FALSE
    BY <1>3
  <2>2. e = first + 1 \/ e = first + 2 \/ e = first + 3
    BY <1>3, <2>1
  <2>3. e >= 16 /\ e % 8 \in {0, 1, 2, 4}
    BY <1>1, <1>3, <1>7, <2>1 DEF Supported
  <2>4. CASE c = 2
    BY <1>3, <1>4, <2>1, <2>2, <2>3, <2>4
  <2>5. CASE c = 4
    BY <1>3, <1>4, <2>1, <2>2, <2>3, <2>5
  <2>6. CASE c \in {0, 1}
    BY <1>3, <1>4, <2>1, <2>6
  <2> QED
    BY <2>4, <2>5, <2>6
<1>8. FarOrFew(first, g)
  <2>1. CASE c \in {0, 1}
    BY <1>1, <1>3, <1>4, <2>1 DEF FarOrFew
  <2>2. CASE c = 2
    BY <1>1, <1>3, <1>4, <2>2 DEF FarOrFew
  <2>3. CASE c = 4
    BY <1>1, <1>3, <1>4, <2>3 DEF FarOrFew
  <2> QED
    BY <2>1, <2>2, <2>3
<1>9. 16 <= first /\ first <= q /\ q < first + g
  BY <1>1, <1>3, <1>4
<1> QED
  BY <1>5, <1>6, <1>7, <1>8, <1>9

LEMMA RoundedLittle ==
    ASSUME NEW d \in Nat \ {0}, NEW r \in Nat, r = ChipRate(3000000, d), NEW x \in Nat, x = r * d
    PROVE  2 * x <= 48000000 + d /\ 48000000 <= 2 * x + d
<1>1. x <= 8 * 3000000 + (d \div 2) /\ 8 * 3000000 + (d \div 2) < (r + 1) * d
  BY RateBounds, 3000000 \in Nat
<1>2. (r + 1) * d = x + d
  OBVIOUS
<1> QED
  BY <1>1, <1>2

LEMMA TenthApart ==
    ASSUME NEW d0 \in Nat, NEW g \in {1, 2, 4}, 16 <= d0, d0 < 131000,
           FarOrFew(d0, g),
           NEW r0 \in Nat, r0 = ChipRate(3000000, d0),
           NEW r1 \in Nat, r1 = ChipRate(3000000, d0 + g)
    PROVE  10 * r0 <= 11 * r1 \/ 19 * r0 >= 21 * r1
<1>1. CASE (d0 = 18 /\ g = 2) \/ (d0 \in {20, 28, 36} /\ g = 4)
  BY <1>1 DEF ChipRate
<1>2. CASE d0 + g >= 12 * g
  <2>1. SUFFICES ASSUME 10 * r0 >= 11 * r1 + 1 PROVE FALSE
    OBVIOUS
  <2>2. PICK d1 \in Nat : d1 = d0 + g
    OBVIOUS
  <2>3. PICK x0 \in Nat, x1 \in Nat, y \in Nat : x0 = r0 * d0 /\ x1 = r1 * d1 /\ y = r0 * g
    BY <2>2
  <2>4. x0 + y = r0 * d1 /\ r0 * d1 >= 12 * y
    <3>1. r0 * d1 = x0 + y
      BY <2>2, <2>3
    <3>2. r0 * d1 >= r0 * (12 * g)
      BY <1>2, <2>2
    <3>3. r0 * (12 * g) = 12 * y
      BY <2>3
    <3> QED
      BY <3>1, <3>2, <3>3
  <2>5. 10 * (x0 + y) >= 11 * x1
    <3>1. (10 * r0) * d1 >= (11 * r1) * d1
      BY <2>1, <2>2
    <3> QED
      BY <2>2, <2>3, <2>4, <3>1
  <2>6. 2 * x0 <= 48000000 + d0 /\ 48000000 <= 2 * x1 + d1
    BY <2>2, <2>3, RoundedLittle
  <2> QED
    BY <2>2, <2>4, <2>5, <2>6
<1> QED
  BY <1>1, <1>2 DEF FarOrFew

\* What ftdi_to_clkbits_AM ends with: of the two it tries, the one with the nearer rate.
LEMMA BestIsNearer ==
    ASSUME NEW b \in Nat \ {0}, NEW d0 \in Nat \ {0}, NEW d1 \in Nat \ {0},
           NEW first \in Int, first = FirstDivisor(b),
           TryDivisor(first, 0) = d0, TryDivisor(first, 1) = d1,
           NEW r0 \in Nat, r0 = ChipRate(3000000, d0),
           NEW r1 \in Nat, r1 = ChipRate(3000000, d1)
    PROVE  BestDivisor(b) = IF Distance(r1, b) < Distance(r0, b) THEN d1 ELSE d0
<1>1. Estimate(d0) = r0 /\ Estimate(d1) = r1
  BY DEF Estimate, ChipRate
<1> QED
  BY <1>1 DEF BestDivisor

LEMMA AMBetween ==
    ASSUME NEW b \in Nat \ {0}, NEW q \in Nat, 16 <= q, q < 131000,
           q * b <= 24000000, 24000000 < (q + 1) * b,
           NEW first \in Int, first = q - am_adjust_dn[q % 8], first = FirstDivisor(b)
    PROVE  Chosen("AM", 3000000, b, BestDivisor(b))
<1>1. first \in Nat
  <2>1. am_adjust_dn[q % 8] \in 0 .. 3
    BY DEF am_adjust_dn
  <2> QED
    BY <2>1
<1>2. PICK d0 \in Nat, g \in {1, 2, 4} :
        /\ TryDivisor(first, 0) = d0 /\ TryDivisor(first, 1) = d0 + g
        /\ 16 <= d0 /\ d0 <= q /\ q < d0 + g
        /\ \A e \in Nat : Supported("AM", e) => e <= d0 \/ e >= d0 + g
        /\ FarOrFew(d0, g)
  BY <1>1, NeighboursTried
<1>3. PICK d1 \in Nat \ {0} : d1 = d0 + g
  BY <1>2
<1>4. d0 \in Nat \ {0} /\ d0 < 131000 /\ 3000000 \in Nat
  BY <1>2
<1>5. PICK r0 \in Nat, r1 \in Nat : r0 = ChipRate(3000000, d0) /\ r1 = ChipRate(3000000, d1)
  BY <1>4, RateNatural
<1>6. b <= r0
  <2>1. b * d0 <= 8 * 3000000
    <3>1. d0 * b <= q * b
      BY <1>2
    <3> QED
      BY <3>1
  <2> QED
    BY <1>4, <1>5, <2>1, RateAtLeast
<1>7. r1 <= b
  <2>1. 8 * 3000000 <= b * d1
    <3>1. (q + 1) * b <= d1 * b
      BY <1>2, <1>3
    <3> QED
      BY <3>1
  <2> QED
    BY <1>4, <1>5, <2>1, RateAtMost
<1>8. 10 * r0 <= 11 * r1 \/ 19 * r0 >= 21 * r1
  BY <1>2, <1>3, <1>4, <1>5, TenthApart
<1>9. ASSUME NEW e \in Nat, Supported("AM", e)
      PROVE  \/ ChipRate(3000000, e) >= r0 /\ r0 >= b
             \/ ChipRate(3000000, e) <= r1 /\ r1 <= b
  <2>1. e \in Nat \ {0} /\ (e <= d0 \/ d1 <= e)
    BY <1>2, <1>3, <1>9 DEF Supported
  <2>2. CASE e <= d0
    BY <1>4, <1>5, <1>6, <2>1, <2>2, RateMonotone
  <2>3. CASE d1 <= e
    BY <1>4, <1>5, <1>7, <2>1, <2>3, RateMonotone
  <2> QED
    BY <2>1, <2>2, <2>3
<1>10. BestDivisor(b) = IF Distance(r1, b) < Distance(r0, b) THEN d1 ELSE d0
  BY <1>2, <1>3, <1>4, <1>5, BestIsNearer
<1>11. Chosen("AM", 3000000, b, IF Distance(r1, b) < Distance(r0, b) THEN d1 ELSE d0)
  BY <1>4, <1>5, <1>6, <1>7, <1>8, <1>9, NearerOfTwo
<1> QED
  BY <1>10, <1>11

\* Below the least rate an AM has the divisor is the greatest whole one, 16383.
LEMMA AMSlow ==
    ASSUME NEW b \in Nat \ {0}, NEW q \in Nat, q >= 131000,
           q * b <= 24000000, 24000000 < (q + 1) * b,
           NEW first \in Int, first = q - am_adjust_dn[q % 8], first = FirstDivisor(b),
           \A e \in Nat : Supported("AM", e) => ChipRate(3000000, e) >= 183
    PROVE  Chosen("AM", 3000000, b, BestDivisor(b))
<1>1. b <= 183
  <2>1. SUFFICES ASSUME b >= 184 PROVE FALSE
    OBVIOUS
  <2>2. q * b >= 131000 * 184
    BY <2>1
  <2> QED
    BY <2>2
<1>2. q >= 131147
  <2>1. SUFFICES ASSUME q + 1 <= 131147 PROVE FALSE
    OBVIOUS
  <2>2. (q + 1) * b <= 131147 * 183
    BY <1>1, <2>1
  <2> QED
    BY <2>2
<1>3. first >= 131144
  <2>1. am_adjust_dn[q % 8] \in 0 .. 3
    BY DEF am_adjust_dn
  <2> QED
    BY <1>2, <2>1
<1>4. ASSUME NEW i \in {0, 1} PROVE TryDivisor(first, i) = 131064
  <2>1. am_adjust_up[(first + i) % 8] \in 0 .. 3
    BY <1>3 DEF am_adjust_up
  <2> QED
    BY <1>3, <2>1 DEF TryDivisor
<1>5. ChipRate(3000000, 131064) = 183
  BY DEF ChipRate
<1>6. BestDivisor(b) = 131064
  BY <1>4, <1>5, BestIsNearer
<1> QED
  BY <1>1, <1>5, <1>6, NearerOfTwo

LEMMA AMChosen ==
    ASSUME NEW b \in Nat \ {0}
    PROVE  Chosen("AM", 3000000, b, BestDivisor(b))
<1>1. PICK q \in Nat : q = 24000000 \div b /\ q * b <= 24000000 /\ 24000000 < (q + 1) * b
  BY QuotientBounds, 24000000 \in Nat
<1>2. PICK first \in Int : first = q - am_adjust_dn[q % 8] /\ first = FirstDivisor(b)
  <2>1. am_adjust_dn[q % 8] \in Int
    <3>1. q % 8 \in 0 .. 7
      BY <1>1
    <3> QED
      BY <3>1 DEF am_adjust_dn
  <2> QED
    BY <1>1, <2>1 DEF FirstDivisor
<1>3. ChipRate(3000000, 8) = 3000000 /\ ChipRate(3000000, 16) = 1500000
      /\ ChipRate(3000000, 131064) = 183
  BY DEF ChipRate
<1>4. ASSUME NEW e \in Nat, Supported("AM", e)
      PROVE  /\ e \in Nat \ {0} /\ (e = 8 \/ e >= 16) /\ e <= 131071
             /\ e >= 8 /\ ChipRate(3000000, e) \in Nat
             /\ e >= 16 => ChipRate(3000000, e) <= 1500000
             /\ ChipRate(3000000, e) <= 3000000
             /\ ChipRate(3000000, e) >= 183
  <2>1. e \in Nat \ {0} /\ (e = 8 \/ e >= 16) /\ e <= 131071 /\ e >= 8
    BY <1>4 DEF Supported
  <2>2. 183 * e <= 8 * 3000000 /\ 8 * 3000000 <= 3000000 * e
        /\ (e >= 16 => 8 * 3000000 <= 1500000 * e)
    BY <2>1
  <2>3. 183 \in Nat /\ 3000000 \in Nat /\ 1500000 \in Nat
    OBVIOUS
  <2> QED
    BY <2>1, <2>2, <2>3, RateNatural, RateAtLeast, RateAtMost
<1>5. CASE q <= 7
  <2>1. b >= 3000000
    BY <1>1, <1>5
  <2>2. TryDivisor(first, 0) = 8 /\ TryDivisor(first, 1) = 8
    <3>1. first + 0 <= 8 /\ first + 1 <= 8
      BY <1>1, <1>2, <1>5 DEF am_adjust_dn
    <3> QED
      BY <3>1 DEF TryDivisor
  <2>3. BestDivisor(b) = 8
    BY <1>2, <1>3, <2>2, BestIsNearer
  <2> QED
    BY <1>3, <1>4, <2>1, <2>3, NearerOfTwo
<1>6. CASE q = 8
  <2>1. b <= 3000000 /\ b >= 1500000
    BY <1>1, <1>6
  <2>2. TryDivisor(first, 0) = 8 /\ TryDivisor(first, 1) = 16
    <3>1. first = 8
      BY <1>2, <1>6 DEF am_adjust_dn
    <3> QED
      BY <3>1 DEF TryDivisor
  <2>3. BestDivisor(b) = IF Distance(1500000, b) < Distance(3000000, b) THEN 16 ELSE 8
    BY <1>2, <1>3, <2>2, BestIsNearer
  <2> QED
    BY <1>3, <1>4, <2>1, <2>3, NearerOfTwo
<1>7. CASE 9 <= q /\ q <= 15
  <2>1. 16 * b >= 24000000 /\ 9 * b <= 24000000
    <3>1. (q + 1) * b <= 16 * b /\ 9 * b <= q * b
      BY <1>7
    <3> QED
      BY <1>1, <3>1
  <2>2. TryDivisor(first, 0) = 16 /\ TryDivisor(first, 1) = 16
    <3>1. 9 <= first /\ first < 16
      BY <1>2, <1>7 DEF am_adjust_dn
    <3> QED
      BY <3>1 DEF TryDivisor
  <2>3. BestDivisor(b) = 16
    BY <1>2, <1>3, <2>2, BestIsNearer
  <2>4. ASSUME NEW e \in Nat, Supported("AM", e)
        PROVE  /\ WithinTolerance(1500000, b) => NoNearer(3000000, b, e, 16)
               /\ WithinTolerance(ChipRate(3000000, e), b) => WithinTolerance(1500000, b)
    <3>1. PICK s \in Nat : s = ChipRate(3000000, e) /\ (s <= 1500000 \/ s = 3000000)
      BY <1>3, <1>4, <2>4
    <3>2. WithinTolerance(1500000, b) => Distance(s, b) >= Distance(1500000, b)
      BY <2>1, <3>1 DEF WithinTolerance, Distance
    <3>3. WithinTolerance(s, b) => WithinTolerance(1500000, b)
      BY <2>1, <3>1 DEF WithinTolerance
    <3> QED
      BY <1>3, <3>1, <3>2, <3>3 DEF NoNearer
  <2> QED
    BY <1>3, <2>3, <2>4 DEF Chosen, Best, Unreachable
<1>8. CASE 16 <= q /\ q < 131000
  BY <1>1, <1>2, <1>8, AMBetween
<1>9. CASE q >= 131000
  BY <1>1, <1>2, <1>3, <1>4, <1>9, AMSlow
<1> QED
  BY <1>1, <1>5, <1>6, <1>7, <1>8, <1>9

LEMMA AMMeans ==
    ASSUME NEW baudrate \in Nat \ {0}, NEW i \in 1 .. 4
    PROVE  Means("AM", ClkBitsAM(baudrate).bits, i, BestDivisor(baudrate), 0)
<1> DEFINE best == BestDivisor(baudrate)
           bits == ClkBitsAM(baudrate).bits
<1>1. best = 8 \/ (best \in Nat /\ 16 <= best /\ best < 131072 /\ best % 8 \in {0, 1, 2, 4})
  BY BestDivisorRange
<1>2. bits = IF Encoded(best) = 1 THEN 0 ELSE IF Encoded(best) = 16385 THEN 1 ELSE Encoded(best)
  BY DEF ClkBitsAM
<1> HIDE DEF best, bits
<1>3. "AM" \in Types /\ "AM" \notin HighSpeed
  BY DEF Types, HighSpeed
<1>4. CASE best = 8
  <2>1. Encoded(8) = 1
    <3>1. 8 \div 8 = 1 /\ 8 % 8 = 0
      OBVIOUS
    <3>2. frac_code[0] = 0
      BY DEF frac_code
    <3> QED
      BY <3>1, <3>2 DEF Encoded
  <2>2. WithClock(bits, 0, 0)
    BY <1>2, <1>4, <2>1 DEF WithClock
  <2> QED
    BY <1>3, <1>4, <2>2, ReadSpecial DEF bits, best
<1>5. CASE best \in Nat /\ 16 <= best /\ best < 131072 /\ best % 8 \in {0, 1, 2, 4}
  <2>1. Encoded(best) \in Nat /\ Encoded(best) # 1 /\ Encoded(best) # 16385
    <3>1. PICK w \in Nat, f \in 0 .. 7 :
            w = best \div 8 /\ f = best % 8 /\ 2 <= w /\ w < 16384
      BY <1>5
    <3>2. PICK c \in 0 .. 7 : c = frac_code[f]
      BY CodesDiffer
    <3>3. Encoded(best) = w + 16384 * c
      BY <3>1, <3>2 DEF Encoded
    <3> QED
      BY <3>1, <3>3
  <2>2. WithClock(bits, Encoded(best), 0)
    BY <1>2, <2>1 DEF WithClock
  <2> QED
    BY <1>3, <1>5, <2>2, ReadEncoded DEF bits, best
<1> QED
  BY <1>1, <1>4, <1>5

LEMMA BitsNatural ==
    ASSUME NEW baudrate \in Nat \ {0}
    PROVE  ClkBits(baudrate, C_CLK, 16).bits \in Nat
<1>1. \A d \in Nat : Encoded(d) \in Nat
  <2>1. \A d \in Nat : d \div 8 \in Nat /\ d % 8 \in 0 .. 7
    OBVIOUS
  <2> QED
    BY <2>1, CodesDiffer DEF Encoded
<1>2. Makes(ClkBits(baudrate, C_CLK, 16), "BM", 3000000, baudrate)
  BY ClkBitsCases
<1> QED
  BY <1>1, <1>2 DEF Makes

\* The request for some bits means one divisor, the rate is the one the chip makes of it,
\* and it is the one to choose for b.
TrueTo(type, bits, i, k, baud, b) ==
    \E d \in Nat \ {0} : /\ Means(type, bits, i, d, k)
                        /\ baud = ChipRate(ClockOf(k), d)
                        /\ Chosen(type, ClockOf(k), b, d)

LEMMA EighthsTrue ==
    ASSUME NEW type \in Types, NEW i \in 1 .. 4, type # "AM", NEW k \in {0, 1}, NEW b,
           type \notin HighSpeed => k = 0,
           NEW c, Makes(c, type, ClockOf(k), b), NEW bits, WithClock(bits, c.bits, k)
    PROVE  TrueTo(type, bits, i, k, c.baud, b)
<1>1. CASE c.bits = 0 /\ c.baud = ChipRate(ClockOf(k), 8) /\ Chosen(type, ClockOf(k), b, 8)
  <2>1. WithClock(bits, 0, k)
    BY <1>1
  <2>2. Means(type, bits, i, 8, k)
    BY <2>1, ReadSpecial
  <2> QED
    BY <1>1, <2>2 DEF TrueTo
<1>2. CASE c.bits = 1 /\ c.baud = ChipRate(ClockOf(k), 12) /\ Chosen(type, ClockOf(k), b, 12)
  <2>1. WithClock(bits, 1, k)
    BY <1>2
  <2>2. Means(type, bits, i, 12, k)
    BY <2>1, ReadSpecial
  <2> QED
    BY <1>2, <2>2 DEF TrueTo
<1>3. ASSUME NEW d \in Nat, 16 <= d, d < 131072, Chosen(type, ClockOf(k), b, d),
             c.bits = Encoded(d), c.baud = ChipRate(ClockOf(k), d)
      PROVE  TrueTo(type, bits, i, k, c.baud, b)
  <2>1. WithClock(bits, Encoded(d), k)
    BY <1>3
  <2>2. Means(type, bits, i, d, k)
    BY <1>3, <2>1, ReadEncoded
  <2>3. d \in Nat \ {0}
    BY <1>3
  <2> QED
    BY <1>3, <2>2, <2>3 DEF TrueTo
<1> QED
  BY <1>1, <1>2, <1>3 DEF Makes

\* The clock an H chip is given for a rate.
ClockFor(type, b, k) ==
    type \in HighSpeed => IF k = 1 THEN b > 732 ELSE b <= 732 \/ b > 214748364

LEMMA FastClockBound == \A b \in Nat : 10 * b > H_CLK \div 16383 <=> b > 732
<1>1. 120000000 \div 16383 = 7324
  BY SMT
<1> QED
  BY <1>1, SMT DEF H_CLK

LEMMA FastClockFor ==
    ASSUME NEW type, NEW b \in Nat \ {0}
    PROVE  /\ FastClock(b) \subseteq BOOLEAN
           /\ TRUE \in FastClock(b) => ClockFor(type, b, 1)
           /\ FALSE \in FastClock(b) => ClockFor(type, b, 0)
<1>1. (10 * b > H_CLK \div 16383) <=> b > 732
  BY FastClockBound
<1> QED
  BY <1>1, SMT DEF FastClock, ClockFor

\* What each of the conversions ends with.
LEMMA EveryResultTrue ==
    ASSUME NEW type \in Types, NEW baudrate \in Nat \ {0}, NEW i \in 1 .. 4,
           NEW b \in AllClkBits(type, baudrate)
    PROVE  \E k \in {0, 1} : /\ TrueTo(type, b.bits, i, k, b.baud, baudrate)
                           /\ ClockFor(type, baudrate, k)
<1>1. CASE type \in HighSpeed
  <2>1. PICK fast \in FastClock(baudrate) : b = ClkBitsH(baudrate, fast)
    BY <1>1 DEF AllClkBits
  <2>2. type # "AM"
    BY <1>1 DEF HighSpeed
  <2>3. CASE fast = TRUE
    <3>1. PICK c : c = ClkBits(baudrate, H_CLK, 10) /\ b = [c EXCEPT !.bits = @ + 131072]
      BY <2>1, <2>3 DEF ClkBitsH
    <3>2. b.bits = c.bits + 131072 * 1 /\ b.baud = c.baud
      BY <3>1 DEF ClkBits
    <3>3. WithClock(b.bits, c.bits, 1)
      BY <3>2 DEF WithClock
    <3>4. Makes(c, type, ClockOf(1), baudrate)
      BY <2>2, <3>1, ClkBitsCases DEF ClockOf
    <3>5. TrueTo(type, b.bits, i, 1, c.baud, baudrate)
      BY <1>1, <2>2, <3>3, <3>4, EighthsTrue
    <3>6. ClockFor(type, baudrate, 1)
      BY <2>1, <2>3, FastClockFor
    <3> QED
      BY <3>2, <3>5, <3>6
  <2>4. CASE fast = FALSE
    <3>1. b = ClkBits(baudrate, C_CLK, 16)
      BY <2>1, <2>4 DEF ClkBitsH
    <3>2. WithClock(b.bits, b.bits, 0)
      BY <3>1, BitsNatural DEF WithClock
    <3>3. Makes(b, type, ClockOf(0), baudrate)
      BY <2>2, <3>1, ClkBitsCases DEF ClockOf
    <3>4. TrueTo(type, b.bits, i, 0, b.baud, baudrate)
      BY <1>1, <2>2, <3>2, <3>3, EighthsTrue
    <3>5. ClockFor(type, baudrate, 0)
      BY <2>1, <2>4, FastClockFor
    <3> QED
      BY <3>4, <3>5
  <2> QED
    BY <2>1, <2>3, <2>4, FastClockFor
<1>2. CASE type \in EighthTypes
  <2>1. b = ClkBits(baudrate, C_CLK, 16) /\ type # "AM" /\ type \notin HighSpeed
    BY <1>2 DEF AllClkBits, EighthTypes, HighSpeed
  <2>2. WithClock(b.bits, b.bits, 0)
    BY <2>1, BitsNatural DEF WithClock
  <2>3. Makes(b, type, ClockOf(0), baudrate)
    BY <2>1, ClkBitsCases DEF ClockOf
  <2>4. TrueTo(type, b.bits, i, 0, b.baud, baudrate)
    BY <2>1, <2>2, <2>3, EighthsTrue
  <2> QED
    BY <2>1, <2>4 DEF ClockFor
<1>3. CASE type = "AM"
  <2>1. b = ClkBitsAM(baudrate)
    BY <1>3 DEF AllClkBits, EighthTypes, HighSpeed
  <2>2. Means(type, b.bits, i, BestDivisor(baudrate), 0)
    BY <1>3, <2>1, AMMeans
  <2>3. b.baud = ChipRate(ClockOf(0), BestDivisor(baudrate))
    BY <2>1 DEF ClkBitsAM, Estimate, ChipRate, ClockOf
  <2>4. BestDivisor(baudrate) \in Nat \ {0}
    BY BestDivisorRange
  <2>5. Chosen(type, ClockOf(0), baudrate, BestDivisor(baudrate))
    BY <1>3, AMChosen DEF ClockOf
  <2>6. TrueTo(type, b.bits, i, 0, b.baud, baudrate)
    BY <2>2, <2>3, <2>4, <2>5 DEF TrueTo
  <2> QED
    BY <1>3, <2>6 DEF ClockFor, HighSpeed
<1> QED
  BY <1>1, <1>2, <1>3 DEF Types, HighSpeed, EighthTypes

LEMMA ConversionTrue ==
    ASSUME NEW type \in Types, NEW baudrate \in Nat \ {0}, NEW i \in 1 .. 4,
           NEW c \in Conversions(type, baudrate, i)
    PROVE  /\ Readable(type, c.value, c.index, i)
           /\ c.baud = ChipRate(Clock(type, c.index), ChipDivisor(type, c.value, c.index))
           /\ ChipDivisor(type, c.value, c.index) \in Nat \ {0}
           /\ Chosen(type, Clock(type, c.index), baudrate, ChipDivisor(type, c.value, c.index))
           /\ \E k \in {0, 1} : Clock(type, c.index) = ClockOf(k) /\ ClockFor(type, baudrate, k)
<1>1. PICK b \in AllClkBits(type, baudrate) :
        c = [baud |-> b.baud, value |-> b.bits % 65536, index |-> Index(type, b.bits, i)]
  BY DEF Conversions
<1>2. PICK k \in {0, 1}, d \in Nat \ {0} :
        /\ Means(type, b.bits, i, d, k) /\ b.baud = ChipRate(ClockOf(k), d)
        /\ Chosen(type, ClockOf(k), baudrate, d) /\ ClockFor(type, baudrate, k)
  BY EveryResultTrue DEF TrueTo
<1> QED
  BY <1>1, <1>2 DEF Means

\* Whatever rate above zero is asked for, on whichever type and interface, and whichever
\* way an overflowing comparison goes: ftdi_convert_baudrate makes a request which the
\* chip reads as a divisor it has, with nothing in the bits that belong to something else.
THEOREM EveryConversionReadable ==
    ASSUME NEW type \in Types, NEW baudrate \in Nat \ {0}, NEW i \in 1 .. 4,
           NEW c \in Conversions(type, baudrate, i)
    PROVE  Readable(type, c.value, c.index, i)
BY ConversionTrue

\* And the rate it says the chip will run at, which ftdi_set_baudrate holds against the
\* one that was asked for, is what the chip, to the nearest integer, makes of the request:
\* the two computations round alike, and no bit is lost between them.
THEOREM EveryConversionTrue ==
    ASSUME NEW type \in Types, NEW baudrate \in Nat \ {0}, NEW i \in 1 .. 4,
           NEW c \in Conversions(type, baudrate, i)
    PROVE  c.baud = ChipRate(Clock(type, c.index), ChipDivisor(type, c.value, c.index))
BY ConversionTrue

-----------------------------------------------------------------------------
(* The bitbang flag.                                                       *)

Contexts == [open : BOOLEAN, type : Types, index : 1 .. 4,
             bitbang_enabled : {0, 1}, bitbang_mode : Modes \cup {1}]

\* The flag is that of the mode that was last set.
FlagInv == /\ ftdi \in Contexts /\ mode \in Modes /\ told \in Modes
           /\ ftdi.bitbang_enabled = 0 <=> told = BITMODE_RESET

\* A call that is a plain setting touches neither the context nor the mode.
LEMMA SettingKeeps ==
    ASSUME NEW call, NEW args, NEW code, NEW value, NEW index, NEW failed, NEW unavailable,
           Setting(call, args, code, value, index, failed, unavailable)
    PROVE  UNCHANGED <<ftdi, mode, told>>
BY DEF Setting, Unavailable, Returns

\* A request for a mode that fails leaves the flag.
LEMMA FlagFailure ==
    ASSUME FlagInv, NEW call, NEW m \in Modes, ModeFails(call, m)
    PROVE  FlagInv'
BY DEF FlagInv, ModeFails

LEMMA FlagInit == Init => FlagInv
<1>1. 0 \in Modes /\ "BM" \in Types
  BY LineAssumption DEF BITMODE_RESET, Types
<1> QED
  BY <1>1 DEF Init, FlagInv, Contexts, BITMODE_RESET

\* Opening keeps the flag, whichever mode the device is in.
LEMMA OpenKeepsFlag ==
    ASSUME FlagInv, Open
    PROVE  ftdi' \in Contexts /\ ftdi'.bitbang_enabled = ftdi.bitbang_enabled
<1>1. PICK t \in Types : \E i \in Interfaces[t] : OpenOn(t, i)
  BY DEF Open
<1>2. PICK i \in Interfaces[t] : OpenOn(t, i)
  BY <1>1
<1>3. i \in 1 .. 4
  BY LineAssumption
<1>4. ftdi' = [Found(t, i) EXCEPT !.open = TRUE] \/ ftdi' = Found(t, i)
  BY <1>2 DEF OpenOn
<1> QED
  BY <1>3, <1>4 DEF FlagInv, Contexts, Found

LEMMA FlagOpen ==
    ASSUME FlagInv, Open
    PROVE  FlagInv'
<1>1. mode' \in Modes /\ told' = told
  BY LineAssumption DEF Open, FlagInv
<1> QED
  BY <1>1, OpenKeepsFlag DEF FlagInv

LEMMA FlagClose ==
    ASSUME FlagInv, Close
    PROVE  FlagInv' /\ ftdi'.bitbang_enabled = ftdi.bitbang_enabled
<1>1. ftdi' \in Contexts /\ ftdi'.bitbang_enabled = ftdi.bitbang_enabled
  BY DEF Close, FlagInv, Contexts
<1> QED
  BY <1>1 DEF Close, FlagInv

\* What a call that sets a mode does when it returns 0.
ModeSet(m) == /\ mode' = m /\ told' = m
              /\ ftdi' \in Contexts /\ ftdi'.bitbang_enabled = Enabled(m)

LEMMA BitmodeSet ==
    ASSUME FlagInv, NEW m \in Modes, mode' = m, told' = m,
           ftdi' = [ftdi EXCEPT !.bitbang_mode = m, !.bitbang_enabled = Enabled(m)]
    PROVE  ModeSet(m)
BY DEF FlagInv, Contexts, Enabled, ModeSet

LEMMA BitbangDisabled ==
    ASSUME FlagInv, mode' = BITMODE_RESET, told' = BITMODE_RESET,
           ftdi' = [ftdi EXCEPT !.bitbang_enabled = 0]
    PROVE  ModeSet(BITMODE_RESET)
BY DEF FlagInv, Contexts, Enabled, ModeSet

LEMMA FlagOfMode ==
    ASSUME NEW m \in Modes, ModeSet(m)
    PROVE  FlagInv' /\ ~Stale'
BY DEF ModeSet, FlagInv, Enabled, Stale

\* The ways a call on the mode can end: without a device, in a failure, or with the
\* mode set.
LEMMA ModeCalls ==
    ASSUME FlagInv, SetBitmode \/ DisableBitbang
    PROVE  \/ UNCHANGED <<ftdi, mode, told>> /\ last'.result = -2
           \/ \E call \in {"set_bitmode", "disable_bitbang"}, m \in Modes : ModeFails(call, m)
           \/ \E m \in Modes : ModeSet(m)
<1>1. BITMODE_RESET \in Modes
  BY LineAssumption
<1>2. ASSUME NEW call, Unavailable(call, -2)
      PROVE  UNCHANGED <<ftdi, mode, told>> /\ last'.result = -2
  BY <1>2 DEF Unavailable, Returns, Called
<1>3. CASE SetBitmode
  <2>1. CASE Unavailable("set_bitmode", -2)
    BY <1>2, <2>1
  <2>2. CASE \E m \in Modes : ModeFails("set_bitmode", m)
    BY <2>2
  <2>3. ASSUME NEW m \in Modes, mode' = m, told' = m,
               ftdi' = [ftdi EXCEPT !.bitbang_mode = m, !.bitbang_enabled = Enabled(m)]
        PROVE  ModeSet(m)
    BY <2>3, BitmodeSet
  <2> QED
    BY <1>3, <2>1, <2>2, <2>3 DEF SetBitmode
<1>4. CASE DisableBitbang
  <2>1. CASE Unavailable("disable_bitbang", -2)
    BY <1>2, <2>1
  <2>2. CASE ModeFails("disable_bitbang", BITMODE_RESET)
    BY <1>1, <2>2
  <2>3. CASE /\ mode' = BITMODE_RESET /\ told' = BITMODE_RESET
             /\ ftdi' = [ftdi EXCEPT !.bitbang_enabled = 0]
    BY <1>1, <2>3, BitbangDisabled
  <2> QED
    BY <1>4, <2>1, <2>2, <2>3 DEF DisableBitbang
<1> QED
  BY <1>3, <1>4

LEMMA FlagMode ==
    ASSUME FlagInv, SetBitmode \/ DisableBitbang
    PROVE  FlagInv'
<1>1. CASE UNCHANGED <<ftdi, mode, told>>
  BY <1>1 DEF FlagInv
<1>2. CASE \E call \in {"set_bitmode", "disable_bitbang"}, m \in Modes : ModeFails(call, m)
  BY <1>2, FlagFailure
<1>3. CASE \E m \in Modes : ModeSet(m)
  BY <1>3, FlagOfMode
<1> QED
  BY <1>1, <1>2, <1>3, ModeCalls

\* The calls that touch neither the context nor a mode, and their names.
Plain == SetBaudrate \/ SetLineProperty \/ SetFlowCtrl \/ SetDtr \/ SetRts \/ SetDtrRts
           \/ SetLatencyTimer \/ SetEventChar \/ SetErrorChar
           \/ ReadPins \/ GetLatencyTimer \/ PollModemStatus

LEMMA PlainKeeps ==
    ASSUME Plain
    PROVE  UNCHANGED <<ftdi, mode, told>>
<1>1. ASSUME SetBaudrate PROVE UNCHANGED <<ftdi, mode, told>>
  BY <1>1 DEF SetBaudrate, Unavailable, Returns
<1>2. ASSUME SetLineProperty \/ SetFlowCtrl
      PROVE  UNCHANGED <<ftdi, mode, told>>
  BY <1>2, SettingKeeps DEF SetLineProperty, SetFlowCtrl
<1>3. ASSUME SetDtr \/ SetRts \/ SetDtrRts
      PROVE  UNCHANGED <<ftdi, mode, told>>
  BY <1>3, SettingKeeps DEF SetDtr, SetRts, SetDtrRts
<1>4. ASSUME SetEventChar \/ SetErrorChar
      PROVE  UNCHANGED <<ftdi, mode, told>>
  BY <1>4, SettingKeeps DEF SetEventChar, SetErrorChar
<1>5. ASSUME ReadPins \/ GetLatencyTimer \/ PollModemStatus
      PROVE  UNCHANGED <<ftdi, mode, told>>
  BY <1>5, SettingKeeps DEF ReadPins, GetLatencyTimer, PollModemStatus
<1>6. ASSUME SetLatencyTimer PROVE UNCHANGED <<ftdi, mode, told>>
  BY <1>6, SettingKeeps DEF SetLatencyTimer, Returns
<1> QED
  BY <1>1, <1>2, <1>3, <1>4, <1>5, <1>6 DEF Plain

LEMMA SettingNamed ==
    ASSUME NEW call, NEW args, NEW code, NEW value, NEW index, NEW failed, NEW unavailable,
           Setting(call, args, code, value, index, failed, unavailable)
    PROVE  last'.call = call
BY DEF Setting, Unavailable, Returns, Called

LEMMA PlainNamed ==
    ASSUME Plain
    PROVE  last'.call \notin {"set_bitmode", "disable_bitbang"}
<1>1. ASSUME SetBaudrate PROVE last'.call = "set_baudrate"
  BY <1>1 DEF SetBaudrate, Unavailable, Returns, Called
<1>2. ASSUME SetLineProperty \/ SetFlowCtrl
      PROVE  last'.call \in {"set_line_property", "setflowctrl"}
  BY <1>2, SettingNamed DEF SetLineProperty, SetFlowCtrl
<1>3. ASSUME SetDtr \/ SetRts \/ SetDtrRts
      PROVE  last'.call \in {"setdtr", "setrts", "setdtr_rts"}
  BY <1>3, SettingNamed DEF SetDtr, SetRts, SetDtrRts
<1>4. ASSUME SetEventChar \/ SetErrorChar
      PROVE  last'.call \in {"set_event_char", "set_error_char"}
  BY <1>4, SettingNamed DEF SetEventChar, SetErrorChar
<1>5. ASSUME ReadPins \/ GetLatencyTimer \/ PollModemStatus
      PROVE  last'.call \in {"read_pins", "get_latency_timer", "poll_modem_status"}
  BY <1>5, SettingNamed DEF ReadPins, GetLatencyTimer, PollModemStatus
<1>6. ASSUME SetLatencyTimer PROVE last'.call = "set_latency_timer"
  BY <1>6, SettingNamed DEF SetLatencyTimer, Returns, Called
<1> QED
  BY <1>1, <1>2, <1>3, <1>4, <1>5, <1>6 DEF Plain

LEMMA NextCases ==
    ASSUME Next
    PROVE  Open \/ Close \/ SetBitmode \/ DisableBitbang \/ Plain
BY DEF Next, Plain

LEMMA FlagNext ==
    ASSUME FlagInv, [Next]_vars
    PROVE  FlagInv'
<1>1. CASE UNCHANGED <<ftdi, mode, told>>
  BY <1>1 DEF FlagInv
<1>2. CASE UNCHANGED vars
  BY <1>1, <1>2 DEF vars
<1>3. CASE Next
  BY <1>1, <1>3, NextCases, PlainKeeps, FlagOpen, FlagClose, FlagMode
<1> QED
  BY <1>2, <1>3

\* However devices are opened and closed, modes set and requests lost: the flag that
\* ftdi_set_baudrate multiplies by stops telling the mode of the interface only when the
\* chip took a request for a mode that was reported as failed, or when a context that
\* had a bitbang mode set opens a device that is in none; and a call on the mode that
\* returns 0 puts it right.
THEOREM StaleFlags == Spec => StaleFrom
<1> DEFINE modeCall == last'.call \in {"set_bitmode", "disable_bitbang"}
           Step == /\ (Stale' /\ ~Stale) =>
                         \/ modeCall /\ last'.result = -1
                         \/ last'.call = "open" /\ ftdi.bitbang_enabled = 1 /\ mode' = BITMODE_RESET
                   /\ (modeCall /\ last'.result = 0) => ~Stale'
<1>1. ASSUME FlagInv, Open PROVE Step
  <2>1. last'.call = "open"
    BY <1>1 DEF Open, OpenOn, Called
  <2>2. ftdi.bitbang_enabled \in {0, 1} /\ ftdi'.bitbang_enabled = ftdi.bitbang_enabled
    BY <1>1, OpenKeepsFlag DEF FlagInv, Contexts
  <2>3. mode' \in {BITMODE_RESET, mode}
    BY <1>1 DEF Open
  <2> QED
    BY <2>1, <2>2, <2>3 DEF Stale
<1>2. ASSUME FlagInv, Close PROVE Step
  <2>1. last'.call = "close" /\ mode' = mode
    BY <1>2 DEF Close, Called
  <2> QED
    BY <1>2, <2>1, FlagClose DEF Stale
<1>3. ASSUME FlagInv, SetBitmode \/ DisableBitbang PROVE Step
  <2>1. CASE UNCHANGED <<ftdi, mode, told>> /\ last'.result = -2
    BY <2>1 DEF Stale
  <2>2. CASE \E call \in {"set_bitmode", "disable_bitbang"}, m \in Modes : ModeFails(call, m)
    BY <2>2 DEF ModeFails, Called
  <2>3. CASE \E m \in Modes : ModeSet(m)
    BY <2>3, FlagOfMode
  <2> QED
    BY <1>3, <2>1, <2>2, <2>3, ModeCalls
<1>4. ASSUME Plain PROVE Step
  BY <1>4, PlainKeeps, PlainNamed DEF Stale
<1>5. FlagInv /\ [Next]_vars => [Step]_vars
  <2> HIDE DEF Step
  <2> QED
    BY <1>1, <1>2, <1>3, <1>4, NextCases
<1> QED
  BY FlagInit, FlagNext, <1>5, PTL DEF Spec, StaleFrom

-----------------------------------------------------------------------------
(* The rates.                                                              *)

LEMMA MultipliedInt ==
    ASSUME NEW asked \in Int, NEW enabled
    PROVE  Multiplied(enabled, asked) \in Int
<1>1. asked % 1073741824 \in Int
  OBVIOUS
<1>2. Times4(asked) \in Int
  BY <1>1 DEF Times4
<1> QED
  BY <1>2 DEF Multiplied

\* A rate ftdi_set_baudrate reports as set was sent as a request the chip can read.
LEMMA RequestReadable ==
    ASSUME NEW f \in Contexts, NEW asked \in Int, NEW b \in BaudRequests(f, asked), b.result = 0
    PROVE  Readable(f.type, b.request.value, b.request.index, f.index)
<1>1. PICK baudrate \in Int : baudrate = Multiplied(f.bitbang_enabled, asked)
  BY MultipliedInt
<1>2. f.type \in Types /\ f.index \in 1 .. 4
  BY DEF Contexts
<1>3. baudrate \in Nat \ {0}
  BY <1>1 DEF BaudRequests
<1>4. PICK c \in Conversions(f.type, baudrate, f.index) :
        b.request = [code |-> "SET_BAUDRATE", value |-> c.value, index |-> c.index]
  BY <1>1, <1>3 DEF BaudRequests
<1>5. Readable(f.type, c.value, c.index, f.index)
  BY <1>2, <1>3, EveryConversionReadable
<1> QED
  BY <1>4, <1>5

LEMMA EncodableOpen ==
    ASSUME FlagInv, Open
    PROVE  Encodable'
<1>1. PICK t \in Types : \E i \in Interfaces[t] : OpenOn(t, i)
  BY DEF Open
<1>2. PICK i \in Interfaces[t] : OpenOn(t, i)
  BY <1>1
<1>3. PICK b \in BaudRequests(Found(t, i), FirstRate) :
        /\ request' = b.request
        /\ \/ b.result = 0 /\ ftdi' = [Found(t, i) EXCEPT !.open = TRUE]
           \/ b.result # 0 /\ Called("open", <<FirstRate>>, -7)
  BY <1>2 DEF OpenOn
<1>4. CASE b.result = 0
  <2>1. i \in 1 .. 4
    BY LineAssumption
  <2>2. Found(t, i) \in Contexts /\ FirstRate \in Int
    <3>1. Found(t, i) \in Contexts
      BY <2>1 DEF Found, FlagInv, Contexts
    <3> QED
      BY <3>1 DEF FirstRate
  <2>3. Readable(Found(t, i).type, b.request.value, b.request.index, Found(t, i).index)
    BY <1>4, <2>2, RequestReadable
  <2>4. ftdi'.type = Found(t, i).type /\ ftdi'.index = Found(t, i).index
    BY <1>3, <1>4, <2>2 DEF Contexts
  <2> QED
    BY <1>3, <2>3, <2>4 DEF Encodable
<1>5. CASE b.result # 0
  <2>1. Called("open", <<FirstRate>>, -7)
    BY <1>3, <1>5
  <2>2. last'.result = -7
    BY <2>1 DEF Called
  <2> QED
    BY <2>2 DEF Encodable, RateIsSet
<1> QED
  BY <1>4, <1>5

LEMMA EncodableSetBaudrate ==
    ASSUME FlagInv, SetBaudrate
    PROVE  Encodable'
<1>1. CASE Unavailable("set_baudrate", -3)
  BY <1>1 DEF Unavailable, Returns, Called, Encodable, RateIsSet
<1>2. ASSUME NEW asked \in Rates, NEW b \in BaudRequests(ftdi, asked), request' = b.request,
             last'.result = b.result, ftdi' = ftdi
      PROVE  Encodable'
  <2>1. CASE b.result = 0
    <3>1. Readable(ftdi.type, b.request.value, b.request.index, ftdi.index)
      BY <1>2, <2>1, LineAssumption, RequestReadable DEF FlagInv
    <3> QED
      BY <1>2, <3>1 DEF Encodable
  <2>2. CASE b.result # 0
    BY <1>2, <2>2 DEF Encodable, RateIsSet
  <2> QED
    BY <2>1, <2>2
<1> QED
  BY <1>1, <1>2 DEF SetBaudrate, Called

\* The other calls leave no rate set last.
LEMMA OthersSetNoRate ==
    ASSUME Next, ~Open, ~SetBaudrate
    PROVE  last'.call \notin {"open", "set_baudrate"}
<1> USE DEF Setting, Unavailable, Returns, Called, ModeFails
<1>3. ASSUME Close \/ SetBitmode \/ DisableBitbang
      PROVE  last'.call \notin {"open", "set_baudrate"}
  <2>1. CASE Close
    BY <2>1 DEF Close
  <2>2. CASE SetBitmode
    <3>1. CASE Unavailable("set_bitmode", -2)
      BY <3>1
    <3>2. CASE \E m \in Modes : ModeFails("set_bitmode", m)
      BY <3>2
    <3>3. ASSUME NEW m \in Modes, Called("set_bitmode", <<m>>, 0)
          PROVE  last'.call \notin {"open", "set_baudrate"}
      BY <3>3
    <3> HIDE DEF Unavailable, ModeFails, Called
    <3> QED
      BY <2>2, <3>1, <3>2, <3>3 DEF SetBitmode
  <2>3. CASE DisableBitbang
    BY <2>3 DEF DisableBitbang
  <2> QED
    BY <1>3, <2>1, <2>2, <2>3
<1>4. ASSUME SetLineProperty \/ SetFlowCtrl \/ SetDtr \/ SetRts \/ SetDtrRts
      PROVE  last'.call \notin {"open", "set_baudrate"}
  BY <1>4 DEF SetLineProperty, SetFlowCtrl, SetDtr, SetRts, SetDtrRts
<1>5. ASSUME SetLatencyTimer \/ SetEventChar \/ SetErrorChar
      PROVE  last'.call \notin {"open", "set_baudrate"}
  BY <1>5 DEF SetLatencyTimer, SetEventChar, SetErrorChar
<1>6. ASSUME ReadPins \/ GetLatencyTimer \/ PollModemStatus
      PROVE  last'.call \notin {"open", "set_baudrate"}
  BY <1>6 DEF ReadPins, GetLatencyTimer, PollModemStatus
<1> QED
  BY <1>3, <1>4, <1>5, <1>6 DEF Next

\* Every rate that is reported as set, when opening or by ftdi_set_baudrate, for any set
\* of rates, was sent to the chip as a divisor it has, on the interface of the context.
THEOREM RatesEncodable == Spec => []Encodable
<1>1. Init => Encodable
  BY DEF Init, Encodable, RateIsSet
<1>2. ASSUME FlagInv, Encodable, [Next]_vars
      PROVE  Encodable'
  <2>1. CASE UNCHANGED vars
    BY <1>2, <2>1 DEF vars, Encodable, RateIsSet
  <2>2. CASE last'.call \notin {"open", "set_baudrate"}
    BY <2>2 DEF Encodable, RateIsSet
  <2> QED
    BY <1>2, <2>1, <2>2, EncodableOpen, EncodableSetBaudrate, OthersSetNoRate
<1> QED
  BY FlagInit, FlagNext, <1>1, <1>2, PTL DEF Spec

-----------------------------------------------------------------------------
(* The types, which need the range of every request.                       *)

Request(r) == /\ r.value \in Nat /\ r.value < 65536
              /\ r.index \in Nat /\ r.index < 65536

LEMMA NoRequestFits == Request(NoRequest)
BY DEF Request, NoRequest

LEMMA AcceptedFits ==
    ASSUME NEW code, NEW value \in Nat, value < 65536, NEW index \in Nat, index < 65536,
           Accepted(code, value, index)
    PROVE  Request(request')
BY DEF Accepted, Request

\* What a rate's request is: one the chip can read, or none.
LEMMA BaudRequestFits ==
    ASSUME NEW f \in Contexts, NEW asked \in Int, NEW b \in BaudRequests(f, asked)
    PROVE  Request(b.request) /\ b.result \in {-2, -1, 0}
<1>1. CASE b.result = 0
  <2>1. Readable(f.type, b.request.value, b.request.index, f.index)
    BY <1>1, RequestReadable
  <2>2. f.type \in Types /\ f.index \in 1 .. 4
    BY DEF Contexts
  <2>3. b.request.index < 65536
    BY <2>1, <2>2 DEF Readable, Types, HighSpeed, EighthTypes
  <2> QED
    BY <1>1, <2>1, <2>3 DEF Readable, Request
<1>2. CASE b.result # 0
  <2>1. b.request = NoRequest /\ b.result \in {-2, -1}
    BY <1>2 DEF BaudRequests
  <2> QED
    BY <2>1, NoRequestFits
<1> QED
  BY <1>1, <1>2

TypeRest == Request(request) /\ last.result \in -7 .. 0

LEMMA ReturnsTyped ==
    ASSUME TypeRest, NEW call, NEW result \in -7 .. 0, Returns(call, result)
    PROVE  TypeRest'
BY NoRequestFits DEF Returns, Called, TypeRest

LEMMA SettingTyped ==
    ASSUME TypeRest, NEW call, NEW args, NEW code, NEW value \in Nat, value < 65536,
           NEW index \in Nat, index < 65536,
           NEW failed \in -7 .. 0, NEW unavailable \in -7 .. 0,
           Setting(call, args, code, value, index, failed, unavailable)
    PROVE  TypeRest'
<1>1. CASE Unavailable(call, unavailable)
  BY <1>1, ReturnsTyped DEF Unavailable
<1>2. CASE Returns(call, failed)
  BY <1>2, ReturnsTyped
<1>3. CASE Accepted(code, value, index) /\ Called(call, args, 0)
  BY <1>3, AcceptedFits DEF Called, TypeRest
<1> QED
  BY <1>1, <1>2, <1>3 DEF Setting

LEMMA ModeFailsTyped ==
    ASSUME NEW call, NEW m, ModeFails(call, m)
    PROVE  TypeRest'
<1>1. request' = NoRequest /\ last'.result = -1
  BY DEF ModeFails, Called
<1> QED
  BY <1>1, NoRequestFits DEF TypeRest

LEMMA OpenTyped ==
    ASSUME FlagInv, Open
    PROVE  TypeRest'
<1>1. PICK t \in Types : \E i \in Interfaces[t] : OpenOn(t, i)
  BY DEF Open
<1>2. PICK i \in Interfaces[t] : OpenOn(t, i)
  BY <1>1
<1>3. PICK b \in BaudRequests(Found(t, i), FirstRate), r \in {0, -7} :
        request' = b.request /\ Called("open", <<FirstRate>>, r)
  BY <1>2 DEF OpenOn
<1>4. Found(t, i) \in Contexts
  <2>1. i \in 1 .. 4
    BY LineAssumption
  <2> QED
    BY <2>1 DEF Found, FlagInv, Contexts
<1>5. FirstRate \in Int
  BY DEF FirstRate
<1>6. Request(b.request)
  BY <1>4, <1>5, BaudRequestFits
<1>7. last'.result \in -7 .. 0
  BY <1>3 DEF Called
<1> QED
  BY <1>3, <1>6, <1>7 DEF TypeRest

LEMMA SetBaudrateTyped ==
    ASSUME FlagInv, TypeRest, SetBaudrate
    PROVE  TypeRest'
<1>1. CASE Unavailable("set_baudrate", -3)
  BY <1>1, ReturnsTyped DEF Unavailable
<1>2. ASSUME NEW asked \in Rates, NEW b \in BaudRequests(ftdi, asked), request' = b.request,
             last'.result = b.result
      PROVE  TypeRest'
  <2>1. Request(b.request) /\ b.result \in {-2, -1, 0}
    BY LineAssumption, BaudRequestFits DEF FlagInv
  <2> QED
    BY <1>2, <2>1 DEF TypeRest
<1> QED
  BY <1>1, <1>2 DEF SetBaudrate, Called

LEMMA ModesTyped ==
    ASSUME FlagInv, TypeRest, SetBitmode \/ DisableBitbang
    PROVE  TypeRest'
<1>1. ftdi.index \in Nat /\ ftdi.index < 65536
  BY DEF FlagInv, Contexts
<1>2. ASSUME NEW call, NEW args, NEW m \in 0 .. 255, Accepted("SET_BITMODE", 256 * m, ftdi.index),
             Called(call, args, 0)
      PROVE  TypeRest'
  <2>1. 256 * m \in Nat /\ 256 * m < 65536
    OBVIOUS
  <2>2. Request(request')
    BY <1>1, <1>2, <2>1, AcceptedFits
  <2>3. last'.result = 0
    BY <1>2 DEF Called
  <2> QED
    BY <2>2, <2>3 DEF TypeRest
<1>3. CASE SetBitmode
  <2>1. CASE Unavailable("set_bitmode", -2)
    BY <2>1, ReturnsTyped DEF Unavailable
  <2>2. CASE \E m \in Modes : ModeFails("set_bitmode", m)
    BY <2>2, ModeFailsTyped
  <2>3. ASSUME NEW m \in Modes, Accepted("SET_BITMODE", 256 * m, ftdi.index),
               Called("set_bitmode", <<m>>, 0)
        PROVE  TypeRest'
    <3>1. m \in 0 .. 255
      BY LineAssumption
    <3> QED
      BY <1>2, <2>3, <3>1
  <2> QED
    BY <1>3, <2>1, <2>2, <2>3 DEF SetBitmode
<1>4. CASE DisableBitbang
  <2>1. CASE Unavailable("disable_bitbang", -2)
    BY <2>1, ReturnsTyped DEF Unavailable
  <2>2. CASE ModeFails("disable_bitbang", BITMODE_RESET)
    BY <2>2, ModeFailsTyped
  <2>3. CASE /\ Accepted("SET_BITMODE", 0, ftdi.index)
             /\ Called("disable_bitbang", <<>>, 0)
    <3>1. 256 * 0 = 0 /\ 0 \in 0 .. 255
      OBVIOUS
    <3> QED
      BY <1>2, <2>3, <3>1
  <2> QED
    BY <1>4, <2>1, <2>2, <2>3 DEF DisableBitbang
<1> QED
  BY <1>3, <1>4

LEMMA SettingsTyped ==
    ASSUME FlagInv, TypeRest,
           SetLineProperty \/ SetFlowCtrl \/ SetDtr \/ SetRts \/ SetDtrRts
             \/ SetLatencyTimer \/ SetEventChar \/ SetErrorChar
             \/ ReadPins \/ GetLatencyTimer \/ PollModemStatus
    PROVE  TypeRest'
<1>1. ftdi.index \in 1 .. 4 /\ ftdi.index \in Nat /\ ftdi.index < 65536
  BY DEF FlagInv, Contexts
<1>2. -1 \in -7 .. 0 /\ -2 \in -7 .. 0 /\ -3 \in -7 .. 0
  OBVIOUS
<1>3. CASE SetLineProperty
  <2>1. PICK l \in Lines : Setting("set_line_property", l, "SET_DATA",
              l[1] + 256 * l[2] + 2048 * l[3] + 16384 * l[4], ftdi.index, -1, -2)
    BY <1>3 DEF SetLineProperty
  <2>2. l[1] \in {7, 8} /\ l[2] \in 0 .. 4 /\ l[3] \in 0 .. 2 /\ l[4] \in {0, 1}
    BY LineAssumption
  <2>3. PICK v \in Nat : v = l[1] + 256 * l[2] + 2048 * l[3] + 16384 * l[4] /\ v < 65536
    BY <2>2
  <2> QED
    BY <1>1, <1>2, <2>1, <2>3, SettingTyped
<1>4. CASE SetFlowCtrl
  <2>1. PICK flowctrl \in {0, 256, 512, 1024} :
          Setting("setflowctrl", <<flowctrl>>, "SET_FLOW_CTRL", 0,
                  FlowIndex(flowctrl, ftdi.index), -1, -2)
    BY <1>4 DEF SetFlowCtrl
  <2>2. FlowIndex(flowctrl, ftdi.index) \in Nat /\ FlowIndex(flowctrl, ftdi.index) < 65536
    BY <1>1 DEF FlowIndex
  <2> QED
    BY <1>2, <2>1, <2>2, SettingTyped
<1>5. CASE SetDtr
  <2>1. PICK s \in {0, 1} : Setting("setdtr", <<s>>, "SET_MODEM_CTRL", Dtr(s), ftdi.index, -1, -2)
    BY <1>5 DEF SetDtr
  <2>2. Dtr(s) \in Nat /\ Dtr(s) < 65536
    BY DEF Dtr
  <2> QED
    BY <1>1, <1>2, <2>1, <2>2, SettingTyped
<1>6. CASE SetRts
  <2>1. PICK s \in {0, 1} : Setting("setrts", <<s>>, "SET_MODEM_CTRL", Rts(s), ftdi.index, -1, -2)
    BY <1>6 DEF SetRts
  <2>2. Rts(s) \in Nat /\ Rts(s) < 65536
    BY DEF Rts
  <2> QED
    BY <1>1, <1>2, <2>1, <2>2, SettingTyped
<1>7. CASE SetDtrRts
  <2>1. PICK d, r \in {0, 1} :
          Setting("setdtr_rts", <<d, r>>, "SET_MODEM_CTRL", Dtr(d) + Rts(r), ftdi.index, -1, -2)
    BY <1>7 DEF SetDtrRts
  <2>2. Dtr(d) + Rts(r) \in Nat /\ Dtr(d) + Rts(r) < 65536
    BY DEF Dtr, Rts
  <2> QED
    BY <1>1, <1>2, <2>1, <2>2, SettingTyped
<1>8. CASE SetLatencyTimer
  <2>1. PICK latency \in Chars :
          \/ Returns("set_latency_timer", -1)
          \/ Setting("set_latency_timer", <<latency>>, "SET_LATENCY_TIMER", latency,
                     ftdi.index, -2, -3)
    BY <1>8 DEF SetLatencyTimer
  <2>2. latency \in Nat /\ latency < 65536
    BY LineAssumption
  <2>3. CASE Returns("set_latency_timer", -1)
    BY <1>2, <2>3, ReturnsTyped
  <2> QED
    BY <1>1, <1>2, <2>1, <2>2, <2>3, SettingTyped
<1>9. CASE SetEventChar
  <2>1. PICK c \in Chars, e \in {0, 1} :
          Setting("set_event_char", <<c, e>>, "SET_EVENT_CHAR", Marked(c, e), ftdi.index, -1, -2)
    BY <1>9 DEF SetEventChar
  <2>2. Marked(c, e) \in Nat /\ Marked(c, e) < 65536
    BY LineAssumption DEF Marked
  <2> QED
    BY <1>1, <1>2, <2>1, <2>2, SettingTyped
<1>10. CASE SetErrorChar
  <2>1. PICK c \in Chars, e \in {0, 1} :
          Setting("set_error_char", <<c, e>>, "SET_ERROR_CHAR", Marked(c, e), ftdi.index, -1, -2)
    BY <1>10 DEF SetErrorChar
  <2>2. Marked(c, e) \in Nat /\ Marked(c, e) < 65536
    BY LineAssumption DEF Marked
  <2> QED
    BY <1>1, <1>2, <2>1, <2>2, SettingTyped
<1>11. CASE ReadPins \/ GetLatencyTimer \/ PollModemStatus
  <2>1. PICK call, code : Setting(call, <<>>, code, 0, ftdi.index, -1, -2)
    BY <1>11 DEF ReadPins, GetLatencyTimer, PollModemStatus
  <2>2. 0 \in Nat /\ 0 < 65536
    OBVIOUS
  <2> QED
    BY <1>1, <1>2, <2>1, <2>2, SettingTyped
<1> QED
  BY <1>3, <1>4, <1>5, <1>6, <1>7, <1>8, <1>9, <1>10, <1>11

\* Type correctness, with every value and index of a request within 16 bits, whatever
\* the rates, modes, lines and characters are.
THEOREM LineTypes == Spec => []TypeOK
<1>1. Init => TypeRest
  BY NoRequestFits DEF Init, TypeRest
<1>2. ASSUME FlagInv, TypeRest, [Next]_vars
      PROVE  TypeRest'
  <2>1. CASE UNCHANGED vars
    BY <1>2, <2>1 DEF vars, TypeRest
  <2>2. CASE Close
    BY <1>2, <2>2, NoRequestFits DEF Close, Called, TypeRest
  <2> QED
    BY <1>2, <2>1, <2>2, OpenTyped, SetBaudrateTyped, ModesTyped, SettingsTyped DEF Next
<1>3. FlagInv /\ TypeRest => TypeOK
  BY DEF FlagInv, Contexts, TypeRest, Request, TypeOK
<1> QED
  BY FlagInit, FlagNext, <1>1, <1>2, <1>3, PTL DEF Spec

-----------------------------------------------------------------------------
(* The fields of a request: what the chip reads is what was asked.         *)

LEMMA NothingApplied ==
    ASSUME request' = NoRequest
    PROVE  Applied'
BY DEF NoRequest, Applied

\* What reading a request gives depends on it and on the call alone.
LEMMA MeaningOf ==
    ASSUME NEW call, NEW args, NEW code, NEW value, NEW index,
           request' = [code |-> code, value |-> value, index |-> index],
           last' = [call |-> call, args |-> args, result |-> 0]
    PROVE  Meaning' =
             CASE code = "SET_DATA" ->
                    <<value % 256, (value \div 256) % 8, (value \div 2048) % 8,
                      (value \div 16384) % 2>>
               [] code = "SET_FLOW_CTRL" -> <<256 * (index \div 256)>>
               [] call = "setdtr" -> <<value % 2>>
               [] call = "setrts" -> <<(value \div 2) % 2>>
               [] call = "setdtr_rts" -> <<value % 2, (value \div 2) % 2>>
               [] code = "SET_BITMODE" /\ args # <<>> -> <<value \div 256>>
               [] code = "SET_LATENCY_TIMER" -> <<value>>
               [] code \in {"SET_EVENT_CHAR", "SET_ERROR_CHAR"} -> <<value % 256, value \div 256>>
               [] OTHER -> args
BY DEF Meaning

LEMMA SettingApplied ==
    ASSUME NEW call, NEW args, NEW code, NEW value, NEW index, NEW failed, NEW unavailable,
           Setting(call, args, code, value, index, failed, unavailable),
           /\ request' = [code |-> code, value |-> value, index |-> index]
           /\ last' = [call |-> call, args |-> args, result |-> 0]
           => Meaning' = args,
           index % 256 = ftdi.index
    PROVE  Applied'
<1>1. CASE request' = NoRequest
  BY <1>1, NothingApplied
<1>2. CASE Accepted(code, value, index) /\ Called(call, args, 0) /\ ftdi' = ftdi
  <2>1. /\ request' = [code |-> code, value |-> value, index |-> index]
        /\ last' = [call |-> call, args |-> args, result |-> 0]
    BY <1>2 DEF Accepted, Called
  <2> QED
    BY <1>2, <2>1 DEF Applied
<1> QED
  BY <1>1, <1>2 DEF Setting, Unavailable, Returns

LEMMA OwnInterface ==
    ASSUME FlagInv
    PROVE  ftdi.index \in 1 .. 4 /\ ftdi.index % 256 = ftdi.index
BY DEF FlagInv, Contexts

\* The bits of ftdi_set_line_property2.
LEMMA LineBits ==
    ASSUME NEW b \in {7, 8}, NEW p \in 0 .. 4, NEW t \in 0 .. 2, NEW k \in {0, 1}, NEW v,
           v = b + 256 * p + 2048 * t + 16384 * k
    PROVE  v % 256 = b /\ (v \div 256) % 8 = p /\ (v \div 2048) % 8 = t /\ (v \div 16384) % 2 = k
<1>1. v \in Nat
  OBVIOUS
<1>2. v % 256 = b /\ v \div 256 = p + 8 * t + 64 * k
  BY <1>1, Division, 256 \in Nat \ {0}, p + 8 * t + 64 * k \in Nat, v = 256 * (p + 8 * t + 64 * k) + b
<1>3. (v \div 256) % 8 = p
  BY <1>2, Division, 8 \in Nat \ {0}, t + 8 * k \in Nat, p + 8 * t + 64 * k = 8 * (t + 8 * k) + p
<1>4. v \div 2048 = t + 8 * k
  BY <1>1, Division, 2048 \in Nat \ {0}, t + 8 * k \in Nat, v = 2048 * (t + 8 * k) + (b + 256 * p),
     b + 256 * p \in Nat, b + 256 * p < 2048
<1>5. (v \div 2048) % 8 = t
  BY <1>4
<1>6. v \div 16384 = k
  BY <1>1, Division, 16384 \in Nat \ {0}, v = 16384 * k + (b + 256 * p + 2048 * t),
     b + 256 * p + 2048 * t \in Nat, b + 256 * p + 2048 * t < 16384
<1> QED
  BY <1>2, <1>3, <1>5, <1>6

LEMMA LineApplied ==
    ASSUME FlagInv, SetLineProperty
    PROVE  Applied'
<1>1. PICK l \in Lines : Setting("set_line_property", l, "SET_DATA",
              l[1] + 256 * l[2] + 2048 * l[3] + 16384 * l[4], ftdi.index, -1, -2)
  BY DEF SetLineProperty
<1>2. /\ l[1] \in {7, 8} /\ l[2] \in 0 .. 4 /\ l[3] \in 0 .. 2 /\ l[4] \in {0, 1}
      /\ l = <<l[1], l[2], l[3], l[4]>>
  BY LineAssumption
<1>3. PICK v : v = l[1] + 256 * l[2] + 2048 * l[3] + 16384 * l[4]
  OBVIOUS
<1>4. <<v % 256, (v \div 256) % 8, (v \div 2048) % 8, (v \div 16384) % 2>> = l
  BY <1>2, <1>3, LineBits
<1>5. /\ request' = [code |-> "SET_DATA", value |-> v, index |-> ftdi.index]
      /\ last' = [call |-> "set_line_property", args |-> l, result |-> 0]
      => Meaning' = l
  BY <1>4, MeaningOf
<1> QED
  BY <1>1, <1>3, <1>5, OwnInterface, SettingApplied

LEMMA FlowApplied ==
    ASSUME FlagInv, SetFlowCtrl
    PROVE  Applied'
<1>1. PICK flowctrl \in {0, 256, 512, 1024} :
        Setting("setflowctrl", <<flowctrl>>, "SET_FLOW_CTRL", 0,
                FlowIndex(flowctrl, ftdi.index), -1, -2)
  BY DEF SetFlowCtrl
<1>2. PICK i \in Nat : i = FlowIndex(flowctrl, ftdi.index) /\ i = flowctrl + ftdi.index
  BY OwnInterface DEF FlowIndex
<1>3. i % 256 = ftdi.index /\ 256 * (i \div 256) = flowctrl
  <2>1. PICK n \in Nat : flowctrl = 256 * n
    <3>1. flowctrl = 256 * 0 \/ flowctrl = 256 * 1 \/ flowctrl = 256 * 2 \/ flowctrl = 256 * 4
      OBVIOUS
    <3> QED
      BY <3>1
  <2>2. i = 256 * n + ftdi.index
    BY <1>2, <2>1
  <2>3. PICK k \in Nat : k = ftdi.index /\ k < 256 /\ i = 256 * n + k
    BY <2>2, OwnInterface
  <2>4. i \div 256 = n /\ i % 256 = ftdi.index
    BY <2>3, Division, 256 \in Nat \ {0}, SMTT(30)
  <2> QED
    BY <2>1, <2>4
<1>4. /\ request' = [code |-> "SET_FLOW_CTRL", value |-> 0, index |-> i]
      /\ last' = [call |-> "setflowctrl", args |-> <<flowctrl>>, result |-> 0]
      => Meaning' = <<flowctrl>>
  BY <1>3, MeaningOf
<1> QED
  BY <1>1, <1>2, <1>3, <1>4, SettingApplied

LEMMA ModemApplied ==
    ASSUME FlagInv, SetDtr \/ SetRts \/ SetDtrRts
    PROVE  Applied'
<1>1. CASE SetDtr
  <2>1. PICK s \in {0, 1} : Setting("setdtr", <<s>>, "SET_MODEM_CTRL", Dtr(s), ftdi.index, -1, -2)
    BY <1>1 DEF SetDtr
  <2>2. Dtr(s) % 2 = s
    BY DEF Dtr
  <2>3. /\ request' = [code |-> "SET_MODEM_CTRL", value |-> Dtr(s), index |-> ftdi.index]
        /\ last' = [call |-> "setdtr", args |-> <<s>>, result |-> 0]
        => Meaning' = <<s>>
    BY <2>2, MeaningOf
  <2> QED
    BY <2>1, <2>3, OwnInterface, SettingApplied
<1>2. CASE SetRts
  <2>1. PICK s \in {0, 1} : Setting("setrts", <<s>>, "SET_MODEM_CTRL", Rts(s), ftdi.index, -1, -2)
    BY <1>2 DEF SetRts
  <2>2. (Rts(s) \div 2) % 2 = s
    BY DEF Rts
  <2>3. /\ request' = [code |-> "SET_MODEM_CTRL", value |-> Rts(s), index |-> ftdi.index]
        /\ last' = [call |-> "setrts", args |-> <<s>>, result |-> 0]
        => Meaning' = <<s>>
    BY <2>2, MeaningOf
  <2> QED
    BY <2>1, <2>3, OwnInterface, SettingApplied
<1>3. CASE SetDtrRts
  <2>1. PICK d, r \in {0, 1} :
          Setting("setdtr_rts", <<d, r>>, "SET_MODEM_CTRL", Dtr(d) + Rts(r), ftdi.index, -1, -2)
    BY <1>3 DEF SetDtrRts
  <2>2. (Dtr(d) + Rts(r)) % 2 = d /\ ((Dtr(d) + Rts(r)) \div 2) % 2 = r
    BY DEF Dtr, Rts
  <2>3. /\ request' = [code |-> "SET_MODEM_CTRL", value |-> Dtr(d) + Rts(r), index |-> ftdi.index]
        /\ last' = [call |-> "setdtr_rts", args |-> <<d, r>>, result |-> 0]
        => Meaning' = <<d, r>>
    BY <2>2, MeaningOf
  <2> QED
    BY <2>1, <2>3, OwnInterface, SettingApplied
<1> QED
  BY <1>1, <1>2, <1>3

\* A character and, above its eight bits, whether it is wanted.
LEMMA CharApplied ==
    ASSUME FlagInv, SetLatencyTimer \/ SetEventChar \/ SetErrorChar
    PROVE  Applied'
<1>1. CASE SetLatencyTimer
  <2>1. PICK latency \in Chars :
          \/ Returns("set_latency_timer", -1)
          \/ Setting("set_latency_timer", <<latency>>, "SET_LATENCY_TIMER", latency,
                     ftdi.index, -2, -3)
    BY <1>1 DEF SetLatencyTimer
  <2>2. CASE Returns("set_latency_timer", -1)
    BY <2>2, NothingApplied DEF Returns
  <2>3. /\ request' = [code |-> "SET_LATENCY_TIMER", value |-> latency, index |-> ftdi.index]
        /\ last' = [call |-> "set_latency_timer", args |-> <<latency>>, result |-> 0]
        => Meaning' = <<latency>>
    BY MeaningOf
  <2> QED
    BY <2>1, <2>2, <2>3, OwnInterface, SettingApplied
<1>2. ASSUME NEW c \in Chars, NEW e \in {0, 1}, NEW call \in {"set_event_char", "set_error_char"},
             NEW code \in {"SET_EVENT_CHAR", "SET_ERROR_CHAR"},
             Setting(call, <<c, e>>, code, Marked(c, e), ftdi.index, -1, -2)
      PROVE  Applied'
  <2>1. c \in Nat /\ c < 256
    BY LineAssumption
  <2>2. Marked(c, e) % 256 = c /\ Marked(c, e) \div 256 = e
    <3>1. Marked(c, e) \in Nat /\ Marked(c, e) = 256 * e + c
      BY <2>1 DEF Marked
    <3> QED
      BY <2>1, <3>1, Division, 256 \in Nat \ {0}
  <2>3. /\ request' = [code |-> code, value |-> Marked(c, e), index |-> ftdi.index]
        /\ last' = [call |-> call, args |-> <<c, e>>, result |-> 0]
        => Meaning' = <<c, e>>
    BY <2>2, MeaningOf
  <2> QED
    BY <1>2, <2>3, OwnInterface, SettingApplied
<1>3. CASE SetEventChar
  BY <1>2, <1>3 DEF SetEventChar
<1>4. CASE SetErrorChar
  BY <1>2, <1>4 DEF SetErrorChar
<1> QED
  BY <1>1, <1>3, <1>4

\* A question has nothing to apply.
LEMMA QuestionApplied ==
    ASSUME FlagInv, ReadPins \/ GetLatencyTimer \/ PollModemStatus
    PROVE  Applied'
<1>1. PICK call \in {"read_pins", "get_latency_timer", "poll_modem_status"},
           code \in {"READ_PINS", "GET_LATENCY_TIMER", "POLL_MODEM_STATUS"} :
        Setting(call, <<>>, code, 0, ftdi.index, -1, -2)
  BY DEF ReadPins, GetLatencyTimer, PollModemStatus
<1>2. /\ request' = [code |-> code, value |-> 0, index |-> ftdi.index]
      /\ last' = [call |-> call, args |-> <<>>, result |-> 0]
      => Meaning' = <<>>
  BY MeaningOf
<1> QED
  BY <1>1, <1>2, OwnInterface, SettingApplied

LEMMA ModeApplied ==
    ASSUME FlagInv, FlagInv', SetBitmode \/ DisableBitbang
    PROVE  Applied'
<1>1. ASSUME request' = [code |-> "SET_BITMODE", value |-> 0, index |-> ftdi.index],
             last' = [call |-> "disable_bitbang", args |-> <<>>, result |-> 0],
             ftdi'.index = ftdi.index
      PROVE  Applied'
  <2>1. Meaning' = <<>>
    BY <1>1, MeaningOf
  <2> QED
    BY <1>1, <2>1, OwnInterface DEF Applied
<1>2. ASSUME NEW m \in Modes,
             request' = [code |-> "SET_BITMODE", value |-> 256 * m, index |-> ftdi.index],
             last' = [call |-> "set_bitmode", args |-> <<m>>, result |-> 0],
             ftdi'.index = ftdi.index
      PROVE  Applied'
  <2>1. m \in Nat
    BY LineAssumption
  <2>2. (256 * m) \div 256 = m
    BY <2>1
  <2>3. Meaning' = <<m>>
    BY <1>2, <2>2, MeaningOf
  <2> QED
    BY <1>2, <2>3, OwnInterface DEF Applied
<1>3. ftdi \in Contexts
  BY DEF FlagInv
<1>4. CASE request' = NoRequest
  BY <1>4, NothingApplied
<1>5. CASE SetBitmode /\ request' # NoRequest
  <2>1. PICK m \in Modes :
          /\ request' = [code |-> "SET_BITMODE", value |-> 256 * m, index |-> ftdi.index]
          /\ last' = [call |-> "set_bitmode", args |-> <<m>>, result |-> 0]
          /\ ftdi' = [ftdi EXCEPT !.bitbang_mode = m, !.bitbang_enabled = Enabled(m)]
    BY <1>5 DEF SetBitmode, Unavailable, Returns, ModeFails, Accepted, Called
  <2>2. ftdi'.index = ftdi.index
    BY <1>3, <2>1 DEF Contexts
  <2> QED
    BY <1>2, <2>1, <2>2
<1>6. CASE DisableBitbang /\ request' # NoRequest
  <2>1. /\ request' = [code |-> "SET_BITMODE", value |-> 0, index |-> ftdi.index]
        /\ last' = [call |-> "disable_bitbang", args |-> <<>>, result |-> 0]
        /\ ftdi' = [ftdi EXCEPT !.bitbang_enabled = 0]
    BY <1>6 DEF DisableBitbang, Unavailable, Returns, ModeFails, Accepted, Called
  <2>2. ftdi'.index = ftdi.index
    BY <1>3, <2>1 DEF Contexts
  <2> QED
    BY <1>1, <2>1, <2>2
<1> QED
  BY <1>4, <1>5, <1>6

\* A rate that is not set sends nothing.
LEMMA RateApplied ==
    ASSUME Open \/ SetBaudrate
    PROVE  Applied'
<1>1. \A f, asked : \A b \in BaudRequests(f, asked) : b.result # 0 => b.request = NoRequest
  BY DEF BaudRequests
<1>2. CASE Open
  <2>1. PICK f, b :
          /\ b \in BaudRequests(f, FirstRate)
          /\ request' = b.request
          /\ b.result = 0 => Called("open", <<FirstRate>>, 0)
    BY <1>2 DEF Open, OpenOn
  <2> QED
    BY <1>1, <2>1, NothingApplied DEF Called, Applied, RateIsSet
<1>3. CASE SetBaudrate
  <2>1. CASE request' = NoRequest
    BY <2>1, NothingApplied
  <2>2. CASE request' # NoRequest
    <3>1. PICK asked, b :
            /\ b \in BaudRequests(ftdi, asked)
            /\ request' = b.request /\ last'.call = "set_baudrate" /\ last'.result = b.result
      BY <1>3, <2>2 DEF SetBaudrate, Unavailable, Returns, Called
    <3> QED
      BY <1>1, <2>2, <3>1 DEF Applied, RateIsSet
  <2> QED
    BY <2>1, <2>2
<1> QED
  BY <1>2, <1>3

\* Line properties, flow control, modem lines, latency, event and error characters and
\* bit modes: whatever values are asked for, the fields of a request that was accepted
\* hold them, none runs into another, and the request is for the context's interface.
THEOREM RequestsApplied == Spec => []Applied
<1>1. Init => Applied
  BY DEF Init, NoRequest, Applied
<1>2. ASSUME FlagInv, FlagInv', Applied, [Next]_vars
      PROVE  Applied'
  <2>1. CASE UNCHANGED vars
    BY <1>2, <2>1 DEF vars, Applied, Meaning, RateIsSet
  <2>2. CASE Close
    BY <2>2, NothingApplied DEF Close
  <2> QED
    BY <1>2, <2>1, <2>2, LineApplied, FlowApplied, ModemApplied, CharApplied, QuestionApplied,
       ModeApplied, RateApplied DEF Next
<1> QED
  BY FlagInit, FlagNext, <1>1, <1>2, PTL DEF Spec

-----------------------------------------------------------------------------
(* The rate set last, or refused.                                          *)

\* Four times a rate is itself, if an int holds it.
LEMMA Fourfold ==
    ASSUME NEW asked \in Int, FourfoldFits(asked)
    PROVE  Times4(asked) = 4 * asked
<1>1. CASE asked >= 0
  BY <1>1 DEF Times4, FourfoldFits
<1>2. CASE asked < 0
  <2>1. asked % 1073741824 = asked + 1073741824
    BY <1>2 DEF FourfoldFits
  <2> QED
    BY <1>2, <2>1 DEF Times4, FourfoldFits
<1> QED
  BY <1>1, <1>2

\* What the rate of the last call became: the request is a conversion of it that passed
\* the check, or a conversion of it did not pass.
Converted == (RateIsSet /\ Exact) =>
    /\ Wanted \in Nat \ {0}
    /\ \E c \in Conversions(ftdi.type, Wanted, ftdi.index) :
         /\ WithinTolerance(c.baud, Wanted)
         /\ request.value = c.value /\ request.index = c.index

Rejected == (last.call = "set_baudrate" /\ last.result = -1 /\ Asked > 0 /\ Exact) =>
    /\ Wanted \in Nat \ {0}
    /\ \E c \in Conversions(ftdi.type, Wanted, ftdi.index) : ~WithinTolerance(c.baud, Wanted)

LEMMA RequestsConverted ==
    ASSUME NEW f \in Contexts, NEW asked \in Int, NEW b \in BaudRequests(f, asked),
           NEW wanted \in Int, wanted = Multiplied(f.bitbang_enabled, asked)
    PROVE  /\ b.result = 0 =>
                /\ wanted \in Nat \ {0}
                /\ \E c \in Conversions(f.type, wanted, f.index) :
                     /\ WithinTolerance(c.baud, wanted)
                     /\ b.request.value = c.value /\ b.request.index = c.index
           /\ b.result = -1 /\ wanted > 0 =>
                /\ wanted \in Nat \ {0}
                /\ \E c \in Conversions(f.type, wanted, f.index) : ~WithinTolerance(c.baud, wanted)
<1>1. CASE wanted <= 0
  BY <1>1 DEF BaudRequests
<1>2. CASE wanted > 0
  <2>1. wanted \in Nat \ {0}
    BY <1>2
  <2>2. PICK c \in Conversions(f.type, wanted, f.index) :
          b \in IF ~Accepts(c, wanted) THEN {[result |-> -1, request |-> NoRequest]}
                ELSE {[result |-> 0, request |-> [code |-> "SET_BAUDRATE",
                                                  value |-> c.value, index |-> c.index]],
                      [result |-> -2, request |-> NoRequest]}
    BY <1>2 DEF BaudRequests
  <2>3. b.result = 0 => /\ Accepts(c, wanted)
                        /\ b.request.value = c.value /\ b.request.index = c.index
    BY <2>2
  <2>4. b.result = -1 => ~Accepts(c, wanted)
    BY <2>2
  <2> QED
    BY <2>1, <2>3, <2>4 DEF Accepts
<1> QED
  BY <1>1, <1>2

LEMMA OpenConverted ==
    ASSUME FlagInv, Open
    PROVE  Converted' /\ Rejected'
<1>1. PICK t \in Types : \E i \in Interfaces[t] : OpenOn(t, i)
  BY DEF Open
<1>2. PICK i \in Interfaces[t] : OpenOn(t, i)
  BY <1>1
<1>3. PICK b \in BaudRequests(Found(t, i), FirstRate) :
        /\ request' = b.request
        /\ \/ /\ b.result = 0 /\ ftdi' = [Found(t, i) EXCEPT !.open = TRUE]
              /\ Called("open", <<FirstRate>>, 0)
           \/ Called("open", <<FirstRate>>, -7)
  BY <1>2 DEF OpenOn
<1>4. last'.call = "open"
  BY <1>3 DEF Called
<1>5. SUFFICES Converted'
  BY <1>4 DEF Rejected
<1>6. SUFFICES ASSUME b.result = 0, ftdi' = [Found(t, i) EXCEPT !.open = TRUE],
                      last' = [call |-> "open", args |-> <<FirstRate>>, result |-> 0]
               PROVE  Converted'
  BY <1>3 DEF Converted, RateIsSet, Called
<1>7. i \in 1 .. 4
  BY LineAssumption
<1>8. Found(t, i) \in Contexts /\ ftdi'.type = Found(t, i).type /\ ftdi'.index = Found(t, i).index
  BY <1>6, <1>7 DEF Found, FlagInv, Contexts
<1>9. Found(t, i).bitbang_enabled = ftdi.bitbang_enabled /\ told' = told
  BY DEF Open, Found, FlagInv, Contexts
<1>10. FirstRate \in Int /\ FourfoldFits(FirstRate)
  BY DEF FirstRate, FourfoldFits
<1>11. PICK wanted \in Int : wanted = Multiplied(Found(t, i).bitbang_enabled, FirstRate)
  BY <1>10, MultipliedInt
<1>12. Wanted' = wanted
  <2>1. Asked' = FirstRate
    BY <1>6 DEF Asked
  <2>2. wanted = IF told = BITMODE_RESET THEN FirstRate ELSE 4 * FirstRate
    BY <1>9, <1>10, <1>11, Fourfold DEF Multiplied, FlagInv, Contexts
  <2> QED
    BY <1>9, <2>1, <2>2 DEF Wanted
<1>13. /\ wanted \in Nat \ {0}
       /\ \E c \in Conversions(Found(t, i).type, wanted, Found(t, i).index) :
             /\ WithinTolerance(c.baud, wanted)
             /\ b.request.value = c.value /\ b.request.index = c.index
  BY <1>6, <1>8, <1>10, <1>11, RequestsConverted
<1> QED
  BY <1>3, <1>8, <1>12, <1>13 DEF Converted

LEMMA SetBaudrateConverted ==
    ASSUME FlagInv, SetBaudrate
    PROVE  Converted' /\ Rejected'
<1>1. CASE Unavailable("set_baudrate", -3)
  BY <1>1 DEF Unavailable, Returns, Called, Converted, Rejected, RateIsSet
<1>2. ASSUME NEW asked \in Rates, NEW b \in BaudRequests(ftdi, asked), request' = b.request,
             Called("set_baudrate", IF b.result = -2 THEN <<>> ELSE <<asked>>, b.result),
             UNCHANGED <<ftdi, mode, told>>
      PROVE  Converted' /\ Rejected'
  <2>1. asked \in Int /\ ftdi \in Contexts
    BY LineAssumption DEF FlagInv
  <2>2. b.result # -2 => last' = [call |-> "set_baudrate", args |-> <<asked>>, result |-> b.result]
    BY <1>2 DEF Called
  <2>3. last'.result = b.result
    BY <1>2 DEF Called
  <2>4. SUFFICES ASSUME b.result \in {0, -1}, told = BITMODE_RESET \/ FourfoldFits(asked)
                 PROVE  Converted' /\ Rejected'
    <3>1. CASE b.result \notin {0, -1}
      BY <2>3, <3>1 DEF Converted, Rejected, RateIsSet
    <3>2. CASE b.result \in {0, -1} /\ ~(told = BITMODE_RESET \/ FourfoldFits(asked))
      <4>1. Asked' = asked
        BY <2>2, <3>2 DEF Asked
      <4> QED
        BY <1>2, <3>2, <4>1 DEF Converted, Rejected, Exact
    <3> QED
      BY <3>1, <3>2
  <2>5. Asked' = asked
    BY <2>2, <2>4 DEF Asked
  <2>6. PICK wanted \in Int : wanted = Multiplied(ftdi.bitbang_enabled, asked)
    BY <2>1, MultipliedInt
  <2>7. wanted = IF told = BITMODE_RESET THEN asked ELSE 4 * asked
    <3>1. ftdi.bitbang_enabled = 0 <=> told = BITMODE_RESET
      BY DEF FlagInv
    <3>2. ftdi.bitbang_enabled \in {0, 1}
      BY <2>1 DEF Contexts
    <3> QED
      BY <2>1, <2>4, <2>6, <3>1, <3>2, Fourfold DEF Multiplied
  <2>8. Wanted' = wanted
    BY <1>2, <2>5, <2>7 DEF Wanted
  <2>9. CASE b.result = 0
    <3>1. /\ wanted \in Nat \ {0}
          /\ \E c \in Conversions(ftdi.type, wanted, ftdi.index) :
               /\ WithinTolerance(c.baud, wanted)
               /\ b.request.value = c.value /\ b.request.index = c.index
      BY <2>1, <2>6, <2>9, RequestsConverted
    <3> QED
      BY <1>2, <2>3, <2>8, <2>9, <3>1 DEF Converted, Rejected
  <2>10. CASE b.result = -1
    <3>1. wanted > 0 =>
            /\ wanted \in Nat \ {0}
            /\ \E c \in Conversions(ftdi.type, wanted, ftdi.index) : ~WithinTolerance(c.baud, wanted)
      BY <2>1, <2>6, <2>10, RequestsConverted
    <3>2. asked > 0 => wanted > 0
      BY <2>1, <2>7
    <3> QED
      BY <1>2, <2>3, <2>5, <2>8, <2>10, <3>1, <3>2 DEF Converted, Rejected, RateIsSet
  <2> QED
    BY <2>4, <2>9, <2>10
<1> QED
  BY <1>1, <1>2 DEF SetBaudrate

LEMMA ConvertedAlways == Spec => [](Converted /\ Rejected)
<1>1. Init => Converted /\ Rejected
  BY DEF Init, Converted, Rejected, RateIsSet
<1>2. ASSUME FlagInv, Converted, Rejected, [Next]_vars
      PROVE  Converted' /\ Rejected'
  <2>1. CASE UNCHANGED vars
    BY <1>2, <2>1 DEF vars, Converted, Rejected, RateIsSet, Asked, Wanted, Exact
  <2>2. CASE last'.call \notin {"open", "set_baudrate"}
    BY <2>2 DEF Converted, Rejected, RateIsSet
  <2> QED
    BY <1>2, <2>1, <2>2, OpenConverted, SetBaudrateConverted, OthersSetNoRate
<1> QED
  BY FlagInit, FlagNext, <1>1, <1>2, PTL DEF Spec

\* A rate that ftdi_set_baudrate or an open reports as set is, as the chip reads the
\* request, within 5% of the rate that was asked for, or of four times that rate if the
\* last mode that was set is a bitbang mode, whatever was opened, closed, set and lost
\* since: for every rate in the first case, and in the second for those whose fourfold an
\* int holds.
THEOREM RatesNear == Spec => []RateNear
<1>1. FlagInv /\ Converted => RateNear
  <2>1. SUFFICES ASSUME FlagInv, Converted, RateIsSet, Exact
                 PROVE  WithinTolerance(ChipRate(Base, Divisor), Wanted)
    BY DEF RateNear
  <2>2. Wanted \in Nat \ {0}
    BY <2>1 DEF Converted
  <2>3. PICK c \in Conversions(ftdi.type, Wanted, ftdi.index) :
          /\ WithinTolerance(c.baud, Wanted)
          /\ request.value = c.value /\ request.index = c.index
    BY <2>1 DEF Converted
  <2>4. ftdi.type \in Types /\ ftdi.index \in 1 .. 4
    BY <2>1 DEF FlagInv, Contexts
  <2>5. c.baud = ChipRate(Base, Divisor)
    BY <2>2, <2>3, <2>4, EveryConversionTrue DEF Base, Divisor
  <2> QED
    BY <2>3, <2>5
<1> QED
  BY FlagInit, FlagNext, ConvertedAlways, <1>1, PTL DEF Spec

\* Of the divisors next to the one an accepted request means none is nearer to the rate,
\* counted in divisors and in rates; and the proof says so of every divisor the chip has.
THEOREM NearestChosen == Spec => []Nearest
<1>1. FlagInv /\ Converted => Nearest
  <2>1. SUFFICES ASSUME FlagInv, Converted, RateIsSet, Exact,
                        NEW d \in Neighbours(Divisor)
                 PROVE  NoNearer(Base, Wanted, d, Divisor)
    BY DEF Nearest, NoNearer
  <2>2. Wanted \in Nat \ {0}
    BY <2>1 DEF Converted
  <2>3. PICK c \in Conversions(ftdi.type, Wanted, ftdi.index) :
          /\ WithinTolerance(c.baud, Wanted)
          /\ request.value = c.value /\ request.index = c.index
    BY <2>1 DEF Converted
  <2>4. ftdi.type \in Types /\ ftdi.index \in 1 .. 4
    BY <2>1 DEF FlagInv, Contexts
  <2>5. /\ c.baud = ChipRate(Base, Divisor)
        /\ Divisor \in Nat \ {0}
        /\ Chosen(ftdi.type, Base, Wanted, Divisor)
    BY <2>2, <2>3, <2>4, ConversionTrue DEF Base, Divisor
  <2>6. Best(ftdi.type, Base, Wanted, Divisor)
    BY <2>3, <2>5 DEF Chosen
  <2>7. d \in Nat /\ Supported(ftdi.type, d)
    BY <2>1, <2>5 DEF Neighbours, Supported
  <2> QED
    BY <2>6, <2>7 DEF Best
<1> QED
  BY FlagInit, FlagNext, ConvertedAlways, <1>1, PTL DEF Spec

\* The rates a clock divides to.
LEMMA RatesOfClock ==
    ASSUME NEW type, NEW F \in {3000000, 12000000}, NEW e \in Nat, Supported(type, e)
    PROVE  /\ ChipRate(F, e) \in Nat
           /\ ChipRate(F, e) <= F /\ ChipRate(F, e) >= F \div 16384
<1>1. e \in Nat \ {0} /\ 8 <= e /\ e <= 131071
  BY DEF Supported
<1>2. F \in Nat /\ (F \div 16384) \in Nat
  OBVIOUS
<1>3. 8 * F <= F * e
  BY <1>1
<1>4. (F \div 16384) * e <= 8 * F
  <2>1. CASE F = 3000000
    BY <1>1, <2>1
  <2>2. CASE F = 12000000
    BY <1>1, <2>2
  <2> QED
    BY <2>1, <2>2
<1> QED
  BY <1>1, <1>2, <1>3, <1>4, RateNatural, RateAtLeast, RateAtMost

\* Above half the clock no divisor is near enough if the one that was tried is not, but
\* 1 and 1.5 may be for rates below theirs.
LEMMA NoneAbove ==
    ASSUME NEW type, NEW F \in {3000000, 12000000}, NEW b \in Nat \ {0}, Above(F, b),
           NEW e \in Nat, Supported(type, e), ~(e \in {8, 12} /\ b < ChipRate(F, e))
    PROVE  ~WithinTolerance(ChipRate(F, e), b)
<1>1. ChipRate(F, 8) = F /\ 3 * ChipRate(F, 12) = 2 * F /\ 2 * ChipRate(F, 16) = F
  BY DEF ChipRate
<1>2. PICK r \in Nat : r = ChipRate(F, e) /\ r <= F
  BY RatesOfClock
<1>3. PICK half \in Nat, low \in Nat :
        half = ChipRate(F, 12) /\ low = ChipRate(F, 16) /\ 3 * half = 2 * F /\ 2 * low = F
  BY <1>1 DEF ChipRate
<1>4. e = 8 \/ e = 12 \/ e >= 16
  BY DEF Supported
<1>5. e >= 16 => r <= low
  <2>1. F \in Nat /\ 16 \in Nat \ {0}
    OBVIOUS
  <2> QED
    BY <1>2, <1>3, <2>1, RateMonotone
<1>6. SUFFICES ASSUME WithinTolerance(r, b) PROVE FALSE
  BY <1>2
<1>7. \A s \in Nat : r <= s /\ s <= b => WithinTolerance(s, b)
  BY <1>6, ToleranceMonotone
<1>8. CASE b >= F
  BY <1>2, <1>7, <1>8 DEF Above
<1>9. CASE b < F /\ 3 * b >= 2 * F
  <2>1. e # 8
    BY <1>1, <1>9
  <2>2. r <= half
    BY <1>2, <1>3, <1>4, <1>5, <2>1
  <2> QED
    BY <1>3, <1>7, <1>9, <2>2 DEF Above
<1>10. CASE 3 * b < 2 * F
  <2>1. e # 8 /\ e # 12
    BY <1>1, <1>3, <1>10
  <2>2. r <= low
    BY <1>4, <1>5, <2>1
  <2> QED
    BY <1>3, <1>7, <1>10, <2>2 DEF Above
<1> QED
  BY <1>8, <1>9, <1>10

\* A rate for which the clock chosen has no divisor near enough: neither clock has, but
\* for the divisors that are not tried.
LEMMA NoOther ==
    ASSUME NEW type, NEW b \in Nat \ {0}, NEW k \in {0, 1}, NEW base \in {3000000, 12000000},
           ClockFor(type, b, k), type \notin HighSpeed => k = 0 /\ base = 3000000,
           Extreme(ClockOf(k), b),
           NEW e \in Nat, Supported(type, e), ~(e \in {8, 12} /\ b < ChipRate(base, e))
    PROVE  ~WithinTolerance(ChipRate(base, e), b)
<1>1. PICK r \in Nat : r = ChipRate(base, e) /\ r <= base /\ r >= base \div 16384
  BY RatesOfClock
<1>2. SUFFICES ASSUME WithinTolerance(r, b) PROVE FALSE
  BY <1>1
<1>3. CASE k = 0
  <2>1. ClockOf(k) = 3000000
    BY <1>3 DEF ClockOf
  <2>2. CASE 21 * b < 20 * 183
    BY <1>1, <1>2, <2>2 DEF WithinTolerance
  <2>3. CASE Above(3000000, b) /\ base = 3000000
    BY <1>1, <1>2, <2>3, NoneAbove
  <2>4. CASE Above(3000000, b) /\ base = 12000000
    <3>1. 2 * b > 3000000
      BY <2>4 DEF Above
    <3>2. b > 214748364
      BY <1>3, <2>4, <3>1 DEF ClockFor
    <3> QED
      BY <1>1, <1>2, <2>4, <3>2 DEF WithinTolerance
  <2> QED
    BY <2>1, <2>2, <2>3, <2>4 DEF Extreme
<1>4. CASE k = 1
  <2>1. ClockOf(k) = 12000000 /\ b > 732
    BY <1>4 DEF ClockOf, ClockFor
  <2>2. Above(12000000, b)
    BY <2>1 DEF Extreme
  <2>3. CASE base = 12000000
    BY <1>1, <1>2, <2>2, <2>3, NoneAbove
  <2>4. CASE base = 3000000
    <3>1. 2 * b > 12000000
      BY <2>2 DEF Above
    <3> QED
      BY <1>1, <1>2, <2>4, <3>1 DEF WithinTolerance
  <2> QED
    BY <2>3, <2>4
<1> QED
  BY <1>3, <1>4

\* A rate above zero that ftdi_set_baudrate refuses is one that no divisor of the chip,
\* with either clock, comes within 5% of; but for the divisors 1 and 1.5 and the rates just
\* below theirs, on all chips but the AM.
THEOREM RefusedRightly == Spec => []Refused
<1>1. FlagInv /\ Rejected => Refused
  <2>1. SUFFICES ASSUME FlagInv, Rejected, last.call = "set_baudrate", last.result = -1,
                        Asked > 0, Exact,
                        NEW base \in {3000000} \cup (IF ftdi.type \in HighSpeed THEN {12000000} ELSE {}),
                        NEW exact, exact = (8 * base) \div Wanted
                 PROVE  ~\E d \in exact - 8 .. exact + 8 :
                           /\ Supported(ftdi.type, d)
                           /\ WithinTolerance(ChipRate(base, d), Wanted)
                           /\ ~JustBelow(ftdi.type, base, d, Wanted)
    BY DEF Refused
  <2>2. PICK b \in Nat \ {0} : b = Wanted
    BY <2>1 DEF Rejected
  <2>3. PICK c \in Conversions(ftdi.type, b, ftdi.index) : ~WithinTolerance(c.baud, b)
    BY <2>1, <2>2 DEF Rejected
  <2>4. PICK type \in Types : type = ftdi.type /\ ftdi.index \in 1 .. 4
    BY <2>1 DEF FlagInv, Contexts
  <2>5. PICK F : F = Clock(type, c.index)
    OBVIOUS
  <2>6. PICK k \in {0, 1}, d \in Nat \ {0} :
          F = ClockOf(k) /\ ClockFor(type, b, k) /\ c.baud = ChipRate(F, d) /\ Chosen(type, F, b, d)
    BY <2>3, <2>4, <2>5, ConversionTrue
  <2>7. type \notin HighSpeed => k = 0 /\ base = 3000000
    BY <2>1, <2>4, <2>5, <2>6 DEF Clock, ClockOf
  <2>8. base \in {3000000, 12000000}
    BY <2>1
  <2>9. SUFFICES ASSUME NEW e \in exact - 8 .. exact + 8, Supported(type, e),
                        ~JustBelow(type, base, e, b)
                 PROVE  ~WithinTolerance(ChipRate(base, e), b)
    BY <2>2, <2>4
  <2>10. e \in Nat
    <3>1. exact \in Nat
      BY <2>1, <2>2, <2>8, QuotientBounds, 8 * base \in Nat
    <3> QED
      BY <2>9, <3>1 DEF Supported
  <2>11. CASE type = "AM"
    <3>1. F = 3000000 /\ base = 3000000
      BY <2>6, <2>7, <2>11 DEF ClockOf, HighSpeed
    <3>2. Unreachable(type, F, b)
      BY <2>3, <2>6, <2>11 DEF Chosen
    <3> QED
      BY <2>9, <2>10, <3>1, <3>2 DEF Unreachable
  <2>12. CASE type # "AM"
    <3>1. Extreme(ClockOf(k), b)
      BY <2>3, <2>6, <2>12 DEF Chosen
    <3>2. ~(e \in {8, 12} /\ b < ChipRate(base, e))
      BY <2>9, <2>12 DEF JustBelow
    <3> QED
      BY <2>6, <2>7, <2>8, <2>9, <2>10, <3>1, <3>2, NoOther
  <2> QED
    BY <2>11, <2>12
<1> QED
  BY FlagInit, FlagNext, ConvertedAlways, <1>1, PTL DEF Spec
=============================================================================
