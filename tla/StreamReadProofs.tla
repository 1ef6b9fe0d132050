-------------------------- MODULE StreamReadProofs --------------------------
(***************************************************************************)
(* That ftdi_readstream keeps track of its transfers and its bytes, for    *)
(* every packet size above two, any number of transfers and of packets in  *)
(* each, and that it implements the byte stream of module ByteStream.      *)
(***************************************************************************)
EXTENDS StreamRead, SequenceTheorems, FiniteSetTheorems, TLAPS

StreamProofs == INSTANCE ByteStreamProofs WITH queue <- pending

Members(q) == {q[k] : k \in 1..Len(q)}
Busy(h)    == {h} \ {0}

\* Of transfers 1 to n each is in one place: in the queue q once, in the callback
\* (h), freed (f) or dead (d).  Stated for any values, so that a step that moves a
\* transfer twice is two applications of the lemmas below.
Placed(q, h, f, d, n) ==
    /\ q \in Seq(Nat) /\ h \in Nat /\ n \in Nat
    /\ \A j, k \in 1..Len(q) : q[j] = q[k] => j = k
    /\ Members(q) \cap (Busy(h) \cup f \cup d) = {}
    /\ h \notin f \cup d /\ f \cap d = {}
    /\ Members(q) \cup Busy(h) \cup f \cup d = 1..n
    /\ Len(q) + Cardinality(Busy(h)) + Cardinality(f) + Cardinality(d) = n

\* A transfer being handled holds whole packets, and with the last one either all
\* of its status bytes or nothing.
Whole(m) == m % PacketSize = 0 \/ m % PacketSize >= StatusLength

\* What is left of it is what its packets hold; nothing between two callbacks.
Handled == /\ Whole(length)
           /\ Len(pending) = PayloadLength(PacketSize, length)
           /\ handling = 0 => length = 0

StreamInv == /\ TypeOK
             /\ Accounting
             /\ Handled
             /\ Placed(inflight, handling, freed, dead, xferIndex)

-----------------------------------------------------------------------------
(* Where the transfers are.                                                *)

\* The sets counted are finite.
LEMMA PlacedFinite ==
    ASSUME NEW q, NEW h, NEW f, NEW d, NEW n, Placed(q, h, f, d, n)
    PROVE  /\ IsFiniteSet(f) /\ IsFiniteSet(d)
           /\ Cardinality(f) \in Nat /\ Cardinality(d) \in Nat
           /\ f \subseteq 1..n /\ d \subseteq 1..n /\ h \in 0..n
           /\ \A k \in 1..Len(q) : q[k] \in 1..n
<1>1. f \subseteq 1..n /\ d \subseteq 1..n /\ n \in Int
  BY DEF Placed
<1>2. IsFiniteSet(1..n)
  BY <1>1, FS_Interval
<1>3. IsFiniteSet(f) /\ IsFiniteSet(d)
  BY <1>1, <1>2, FS_Subset
<1>4. h \in 0..n
  <2>1. CASE h = 0
    BY <2>1 DEF Placed
  <2>2. CASE h # 0
    BY <2>2 DEF Placed, Busy
  <2> QED BY <2>1, <2>2
<1>5. \A k \in 1..Len(q) : q[k] \in 1..n
  BY DEF Placed, Members
<1> QED BY <1>1, <1>3, <1>4, <1>5, FS_CardinalityType

\* One in the callback, or none.
LEMMA BusyCount ==
    ASSUME NEW h \in Nat
    PROVE  Cardinality(Busy(h)) = (IF h = 0 THEN 0 ELSE 1)
<1>1. CASE h = 0
  <2>1. Busy(h) = {}
    BY <1>1 DEF Busy
  <2> QED BY <1>1, <2>1, FS_EmptySet
<1>2. CASE h # 0
  <2>1. Busy(h) = {h}
    BY <1>2 DEF Busy
  <2> QED BY <1>2, <2>1, FS_Singleton
<1> QED BY <1>1, <1>2

\* The oldest transfer lands and is handled.
LEMMA HeadHandled ==
    ASSUME NEW q, NEW f, NEW d, NEW n, Placed(q, 0, f, d, n), q # << >>
    PROVE  /\ Placed(Tail(q), Head(q), f, d, n)
           /\ Head(q) # 0
<1> DEFINE t == Tail(q)
           h == Head(q)
           l == Len(q)
<1>1. /\ q \in Seq(Nat) /\ l \in Nat /\ l >= 1
      /\ t \in Seq(Nat) /\ Len(t) = l - 1
      /\ \A k \in 1..l - 1 : t[k] = q[k + 1]
      /\ h = q[1] /\ h \in Nat
  BY HeadTailProperties, LenProperties, EmptySeq DEF Placed
<1>2. h \in 1..n
  BY <1>1, PlacedFinite
<1> HIDE DEF t, h, l
<1>3. Members(q) = Members(t) \cup {h}
  <2>1. ASSUME NEW x \in Members(q) PROVE x \in Members(t) \cup {h}
    <3>1. PICK k \in 1..l : x = q[k]
      BY DEF Members, l
    <3>2. CASE k = 1
      BY <3>1, <3>2, <1>1
    <3>3. CASE k # 1
      <4>1. k - 1 \in 1..l - 1 /\ k = (k - 1) + 1
        BY <3>3, <1>1
      <4>2. t[k - 1] = q[k]
        BY <4>1, <1>1
      <4> QED BY <3>1, <4>1, <4>2, <1>1 DEF Members
    <3> QED BY <3>2, <3>3
  <2>2. ASSUME NEW x \in Members(t) PROVE x \in Members(q)
    <3>1. PICK k \in 1..l - 1 : x = t[k]
      BY <1>1 DEF Members
    <3>2. k + 1 \in 1..l /\ x = q[k + 1]
      BY <3>1, <1>1
    <3> QED BY <3>2 DEF Members, l
  <2>3. h \in Members(q)
    <3>1. 1 \in 1..l
      BY <1>1
    <3> QED BY <3>1, <1>1 DEF Members, l
  <2> QED BY <2>1, <2>2, <2>3
<1>4. h \notin Members(t)
  <2> SUFFICES ASSUME NEW k \in 1..l - 1, h = t[k] PROVE FALSE
    BY <1>1 DEF Members
  <2>1. k + 1 \in 1..l /\ 1 \in 1..l /\ k + 1 # 1
    BY <1>1
  <2>2. q[k + 1] = q[1]
    BY <1>1
  <2> QED BY <2>1, <2>2 DEF Placed, l
<1>5. ASSUME NEW j \in 1..Len(t), NEW k \in 1..Len(t), t[j] = t[k]
      PROVE  j = k
  <2>1. j + 1 \in 1..l /\ k + 1 \in 1..l /\ q[j + 1] = q[k + 1]
    BY <1>1, <1>5
  <2>2. j + 1 = k + 1
    BY <2>1 DEF Placed, l
  <2> QED BY <2>2
<1>6. Busy(h) = {h} /\ Busy(0) = {}
  BY <1>2 DEF Busy
<1>7. /\ Members(t) \cap (Busy(h) \cup f \cup d) = {} /\ h \notin f \cup d
      /\ Members(t) \cup Busy(h) \cup f \cup d = 1..n
  BY <1>3, <1>4, <1>6 DEF Placed
<1>8. Len(t) + Cardinality(Busy(h)) + Cardinality(f) + Cardinality(d) = n
  <2>1. Cardinality(Busy(h)) = 1 /\ Cardinality(Busy(0)) = 0
    BY <1>1, <1>2, BusyCount
  <2>2. l + 0 + Cardinality(f) + Cardinality(d) = n
    BY <2>1 DEF Placed, l
  <2> QED BY <2>1, <2>2, <1>1, PlacedFinite
<1> QED BY <1>1, <1>2, <1>5, <1>7, <1>8 DEF Placed, t, h

\* The transfer in the callback is freed.
LEMMA HandledFreed ==
    ASSUME NEW q, NEW h, NEW f, NEW d, NEW n, Placed(q, h, f, d, n), h # 0
    PROVE  Placed(q, 0, f \cup {h}, d, n)
<1>1. Busy(h) = {h} /\ Busy(0) = {}
  BY DEF Busy
<1>2. 0 \notin f \cup d
  BY PlacedFinite
<1>3. Cardinality(f \cup {h}) = Cardinality(f) + 1
  <2>1. IsFiniteSet(f) /\ h \notin f
    BY PlacedFinite DEF Placed
  <2> QED BY <2>1, FS_AddElement
<1>4. Cardinality(Busy(h)) = 1 /\ Cardinality(Busy(0)) = 0
  BY BusyCount DEF Placed
<1>5. Len(q) + Cardinality(Busy(0)) + Cardinality(f \cup {h}) + Cardinality(d) = n
  <2>1. Len(q) + 1 + Cardinality(f) + Cardinality(d) = n /\ Len(q) \in Nat
    BY <1>4, LenProperties DEF Placed
  <2> QED BY <2>1, <1>3, <1>4, PlacedFinite
<1>6. /\ Members(q) \cap (Busy(0) \cup (f \cup {h}) \cup d) = {}
      /\ 0 \notin (f \cup {h}) \cup d /\ (f \cup {h}) \cap d = {}
      /\ Members(q) \cup Busy(0) \cup (f \cup {h}) \cup d = 1..n
  BY <1>1, <1>2 DEF Placed
<1> QED BY <1>5, <1>6 DEF Placed

LEMMA TurnedRound ==
    ASSUME NEW q, NEW h, NEW f, NEW d, NEW n, Placed(q, h, f, d, n)
    PROVE  Placed(q, h, d, f, n)
<1>1. /\ Members(q) \cap (Busy(h) \cup d \cup f) = {}
      /\ h \notin d \cup f /\ d \cap f = {}
      /\ Members(q) \cup Busy(h) \cup d \cup f = 1..n
  BY DEF Placed
<1>2. Len(q) + Cardinality(Busy(h)) + Cardinality(d) + Cardinality(f) = n
  <2>1. Cardinality(Busy(h)) \in Nat /\ Len(q) \in Nat
    BY BusyCount, LenProperties DEF Placed
  <2> QED BY <2>1, PlacedFinite DEF Placed
<1> QED BY <1>1, <1>2 DEF Placed

\* It fails for good: the freed and the dead change roles.
LEMMA HandledDead ==
    ASSUME NEW q, NEW h, NEW f, NEW d, NEW n, Placed(q, h, f, d, n), h # 0
    PROVE  Placed(q, 0, f, d \cup {h}, n)
<1>1. Placed(q, h, d, f, n)
  BY TurnedRound
<1>2. Placed(q, 0, d \cup {h}, f, n)
  BY <1>1, HandledFreed
<1> QED BY <1>2, TurnedRound

\* Appending one that was not there.
LEMMA AppendNew ==
    ASSUME NEW q \in Seq(Nat), NEW x \in Nat, x \notin Members(q),
           \A j, k \in 1..Len(q) : q[j] = q[k] => j = k
    PROVE  LET a == Append(q, x)
           IN  /\ a \in Seq(Nat) /\ Len(a) = Len(q) + 1 /\ Len(q) \in Nat
               /\ Members(a) = Members(q) \cup {x}
               /\ \A j, k \in 1..Len(a) : a[j] = a[k] => j = k
<1> DEFINE a == Append(q, x)
           l == Len(q)
<1>1. /\ a \in Seq(Nat) /\ Len(a) = l + 1 /\ l \in Nat
      /\ \A k \in 1..l : a[k] = q[k]
      /\ a[l + 1] = x
  BY AppendProperties, LenProperties
<1> HIDE DEF a
<1>2. \A k \in 1..Len(a) : k \in 1..l \/ k = l + 1
  BY <1>1
<1>3. l + 1 \in 1..Len(a) /\ \A k \in 1..l : k \in 1..Len(a)
  BY <1>1
<1>4. \A k \in 1..l : q[k] # x
  BY DEF Members
<1>5. ASSUME NEW j \in 1..Len(a), NEW k \in 1..Len(a), a[j] = a[k]
      PROVE  j = k
  <2>1. CASE j \in 1..l /\ k \in 1..l
    BY <2>1, <1>1, <1>5
  <2>2. CASE j \in 1..l /\ k = l + 1
    BY <2>2, <1>1, <1>4, <1>5
  <2>3. CASE j = l + 1 /\ k \in 1..l
    BY <2>3, <1>1, <1>4, <1>5
  <2> QED BY <1>2, <2>1, <2>2, <2>3
<1>6. Members(a) = Members(q) \cup {x}
  <2>1. Members(a) \subseteq Members(q) \cup {x}
    BY <1>1, <1>2 DEF Members
  <2>2. ASSUME NEW y \in Members(q) PROVE y \in Members(a)
    <3>1. PICK k \in 1..l : y = q[k]
      BY DEF Members
    <3>2. k \in 1..Len(a) /\ y = a[k]
      BY <3>1, <1>1, <1>3
    <3> QED BY <3>2 DEF Members
  <2>3. x \in Members(a)
    BY <1>1, <1>3 DEF Members
  <2> QED BY <2>1, <2>2, <2>3
<1> QED BY <1>1, <1>5, <1>6 DEF a

\* The transfer in the callback is submitted again.
LEMMA HandledAgain ==
    ASSUME NEW q, NEW h, NEW f, NEW d, NEW n, Placed(q, h, f, d, n), h # 0
    PROVE  Placed(Append(q, h), 0, f, d, n)
<1> DEFINE a == Append(q, h)
<1>1. Busy(h) = {h} /\ Busy(0) = {} /\ Cardinality(Busy(h)) = 1 /\ Cardinality(Busy(0)) = 0
  BY BusyCount DEF Busy, Placed
<1>2. q \in Seq(Nat) /\ h \in Nat /\ h \notin Members(q)
  BY <1>1 DEF Placed
<1>3. /\ a \in Seq(Nat) /\ Len(a) = Len(q) + 1 /\ Len(q) \in Nat
      /\ Members(a) = Members(q) \cup {h}
      /\ \A j, k \in 1..Len(a) : a[j] = a[k] => j = k
  BY <1>2, AppendNew DEF Placed
<1> HIDE DEF a
<1>4. Len(a) + Cardinality(Busy(0)) + Cardinality(f) + Cardinality(d) = n
  <2>1. Len(q) + 1 + Cardinality(f) + Cardinality(d) = n
    BY <1>1 DEF Placed
  <2> QED BY <2>1, <1>1, <1>3, PlacedFinite
<1>5. 0 \notin f \cup d
  BY PlacedFinite
<1>6. /\ Members(a) \cap (Busy(0) \cup f \cup d) = {} /\ 0 \notin f \cup d
      /\ Members(a) \cup Busy(0) \cup f \cup d = 1..n
  BY <1>1, <1>3, <1>5 DEF Placed
<1> QED BY <1>3, <1>4, <1>6 DEF Placed, a

\* A new one is submitted.
LEMMA NewSubmitted ==
    ASSUME NEW q, NEW h, NEW f, NEW d, NEW n, Placed(q, h, f, d, n)
    PROVE  Placed(Append(q, n + 1), h, f, d, n + 1)
<1> DEFINE a == Append(q, n + 1)
<1>1. /\ q \in Seq(Nat) /\ n \in Nat /\ n + 1 \in Nat /\ n + 1 \notin 1..n
      /\ 1..n + 1 = 1..n \cup {n + 1} /\ n + 1 # 0
  BY DEF Placed
<1>2. n + 1 \notin Members(q) \cup Busy(h) \cup f \cup d
  BY <1>1 DEF Placed
<1>3. /\ a \in Seq(Nat) /\ Len(a) = Len(q) + 1 /\ Len(q) \in Nat
      /\ Members(a) = Members(q) \cup {n + 1}
      /\ \A j, k \in 1..Len(a) : a[j] = a[k] => j = k
  BY <1>1, <1>2, AppendNew DEF Placed
<1> HIDE DEF a
<1>4. Len(a) + Cardinality(Busy(h)) + Cardinality(f) + Cardinality(d) = n + 1
  <2>1. Cardinality(Busy(h)) \in Nat
    BY BusyCount DEF Placed
  <2>2. Len(q) + Cardinality(Busy(h)) + Cardinality(f) + Cardinality(d) = n
    BY DEF Placed
  <2>3. Cardinality(f) \in Nat /\ Cardinality(d) \in Nat
    BY PlacedFinite
  <2>4. Len(a) = Len(q) + 1 /\ Len(q) \in Nat /\ n \in Nat
    BY <1>1, <1>3
  <2> QED BY <2>1, <2>2, <2>3, <2>4
<1>5. /\ Members(a) \cap (Busy(h) \cup f \cup d) = {}
      /\ Members(a) \cup Busy(h) \cup f \cup d = 1..n + 1
  BY <1>1, <1>2, <1>3 DEF Placed
<1> QED BY <1>1, <1>3, <1>4, <1>5 DEF Placed, a

-----------------------------------------------------------------------------
(* What is in a transfer.                                                  *)

\* The payload of m received bytes is a number, and no more than m.
LEMMA PayloadBound ==
    ASSUME NEW m \in Nat
    PROVE  PayloadLength(PacketSize, m) \in Nat
<1> DEFINE q == m \div PacketSize
           r == m % PacketSize
           p == PacketSize - 2
<1>1. PacketSize \in Nat /\ PacketSize > 2 /\ p \in Nat
  BY StreamReadAssumption DEF StatusLength
<1>2. q \in Nat /\ r \in Nat
  BY <1>1, SMTT(30)
<1> HIDE DEF q, r, p
<1>3. q * p \in Nat
  BY <1>1, <1>2
<1>4. (IF r > 2 THEN r - 2 ELSE 0) \in Nat
  BY <1>2
<1>5. q * p + (IF r > 2 THEN r - 2 ELSE 0) \in Nat
  BY <1>3, <1>4
<1> QED BY <1>5 DEF PayloadLength, NumOfChunks, ChunkRemains, StatusLength, q, r, p

LEMMA NothingIn == PayloadLength(PacketSize, 0) = 0 /\ Whole(0)
<1>1. PacketSize \in Nat /\ PacketSize > 2 /\ PacketSize - 2 \in Nat
  BY StreamReadAssumption DEF StatusLength
<1>2. 0 \div PacketSize = 0 /\ 0 % PacketSize = 0
  BY <1>1, SMTT(30)
<1> QED BY <1>1, <1>2 DEF PayloadLength, NumOfChunks, ChunkRemains, StatusLength, Whole

\* Taking the first packet away leaves whole packets, and their payload is less by
\* what the packet held.
LEMMA PacketAway ==
    ASSUME NEW m \in Nat, m > 0, Whole(m),
           NEW l, l = (IF m > PacketSize THEN PacketSize ELSE m)
    PROVE  /\ l \in 0..m /\ l - StatusLength \in Nat /\ m - l \in Nat
           /\ Whole(m - l)
           /\ PayloadLength(PacketSize, m)
                = (l - StatusLength) + PayloadLength(PacketSize, m - l)
<1> DEFINE P == PacketSize
           q == m \div P
           r == m % P
<1>1. P \in Nat /\ P > 2 /\ P - 2 \in Nat
  BY StreamReadAssumption DEF StatusLength
<1>2. q \in Nat /\ r \in 0..P - 1 /\ m = P * q + r
  BY <1>1, SMTT(30)
<1>3. r = 0 \/ r >= 2
  BY DEF Whole, StatusLength
<1>4. CASE m > P
  <2>1. l = P /\ m - l \in Nat /\ l \in 0..m /\ l - 2 \in Nat
    BY <1>1, <1>4
  <2>2. (m - P) \div P = q - 1 /\ (m - P) % P = r
    <3> HIDE DEF P
    <3>1. m - P = P * (q - 1) + r
      <4> HIDE DEF q, r
      <4> QED BY <1>1, <1>2
    <3>2. q - 1 \in Int /\ (m - P) \div P = q - 1
      BY <1>1, <1>4, SMTT(30)
    <3>3. (m - P) % P = r
      <4> DEFINE x == m - P
      <4>1. x = P * (x \div P) + (x % P)
        <5>1. x \in Nat
          BY <1>1, <1>4
        <5> HIDE DEF x
        <5> QED BY <1>1, <5>1, SMTT(30)
      <4>2. x % P = x - P * (q - 1)
        <5>1. x % P \in Int /\ P * (q - 1) \in Int /\ x \in Int
          BY <1>1, <1>2, SMTT(30)
        <5> HIDE DEF x, q
        <5> QED BY <4>1, <3>2, <5>1 DEF x
      <4> HIDE DEF q, r
      <4> QED BY <4>2, <3>1, <1>1, <1>2
    <3> QED BY <3>2, <3>3
  <2>3. q * (P - 2) = (P - 2) + (q - 1) * (P - 2)
    <3> HIDE DEF P, q, r
    <3> QED BY <1>1, <1>2
  <2> QED BY <1>1, <1>2, <1>3, <2>1, <2>2, <2>3
          DEF PayloadLength, NumOfChunks, ChunkRemains, StatusLength, Whole
<1>5. CASE m = P
  <2>1. l = P /\ m - l = 0
    BY <1>1, <1>5
  <2>2. m \div P = 1 /\ m % P = 0
    BY <1>1, <1>5, SMTT(30)
  <2>3. PayloadLength(PacketSize, m) = P - 2
    BY <1>1, <2>2 DEF PayloadLength, NumOfChunks, ChunkRemains, StatusLength
  <2> QED BY <1>1, <1>5, <2>1, <2>3, NothingIn DEF StatusLength
<1>6. CASE m < P
  <2>1. l = m /\ m - l = 0
    BY <1>1, <1>6
  <2>2. m \div P = 0 /\ m % P = m
    BY <1>1, <1>6, SMTT(30)
  <2>3. m >= 2
    BY <2>2, <1>3
  <2>4. PayloadLength(PacketSize, m) = m - 2
    BY <1>1, <2>2, <2>3 DEF PayloadLength, NumOfChunks, ChunkRemains, StatusLength
  <2> QED BY <2>1, <2>3, <2>4, NothingIn DEF StatusLength
<1> QED BY <1>1, <1>4, <1>5, <1>6

-----------------------------------------------------------------------------
(* Every step keeps the invariant.                                         *)

LEMMA Numbers ==
    ASSUME TypeOK
    PROVE  /\ xferIndex \in Nat /\ length \in Nat /\ totalBytes \in Nat
           /\ sent \in Nat /\ lost \in Nat
           /\ pending \in Seq(Nat) /\ Len(pending) \in Nat
           /\ delivered \in Seq(Nat) /\ Len(delivered) \in Nat
<1>1. NumTransfers \in Nat /\ bufferSize \in Nat
  BY StreamReadAssumption DEF bufferSize
<1> QED BY <1>1, LenProperties DEF TypeOK

\* Where the transfers are gives the types of the pool.
LEMMA PoolTypes ==
    ASSUME NEW q, NEW h, NEW f, NEW d, NEW n \in 0..NumTransfers, Placed(q, h, f, d, n)
    PROVE  /\ q \in Seq(1..NumTransfers) /\ h \in 0..NumTransfers
           /\ f \subseteq 1..NumTransfers /\ d \subseteq 1..NumTransfers
<1>1. n \in Nat /\ NumTransfers \in Nat /\ 1..n \subseteq 1..NumTransfers
      /\ 0..n \subseteq 0..NumTransfers
  BY StreamReadAssumption
<1>2. \A k \in 1..Len(q) : q[k] \in 1..NumTransfers
  BY <1>1, PlacedFinite
<1>3. q \in Seq(1..NumTransfers)
  <2>1. PICK l \in Nat : q \in [1..l -> Nat]
    BY SeqDef DEF Placed
  <2>2. Len(q) = l
    BY <2>1, LenProperties DEF Placed
  <2>3. q \in [1..l -> 1..NumTransfers]
    BY <1>2, <2>1, <2>2
  <2> QED BY <2>3, SeqDef
<1> QED BY <1>1, <1>3, PlacedFinite

LEMMA StreamInit == Init => StreamInv
<1> SUFFICES ASSUME Init PROVE StreamInv
  OBVIOUS
<1>1. /\ xferIndex = 0 /\ inflight = << >> /\ freed = {} /\ dead = {} /\ handling = 0
      /\ length = 0 /\ pending = << >> /\ delivered = << >> /\ totalBytes = 0 /\ sent = 0
      /\ lost = 0
  BY DEF Init
<1>2. << >> \in Seq(Nat) /\ Len(<< >>) = 0 /\ NumTransfers \in Nat /\ bufferSize \in Nat
  BY EmptySeq, StreamReadAssumption DEF bufferSize
<1>3. Placed(inflight, handling, freed, dead, xferIndex)
  <2>1. Members(inflight) = {} /\ Busy(handling) = {} /\ 1..xferIndex = {}
    BY <1>1, <1>2 DEF Members, Busy
  <2>2. Cardinality({}) = 0
    BY FS_EmptySet
  <2> QED BY <1>1, <1>2, <2>1, <2>2 DEF Placed
<1>4. TypeOK
  <2>1. << >> \in Seq(1..NumTransfers) /\ 0 \in 0..NumTransfers /\ 0 \in 0..bufferSize
    BY <1>2, EmptySeq
  <2>2. /\ phase = "start" /\ res = 0 /\ activity = TRUE /\ result = 0 /\ retval = 0
        /\ refused = FALSE
    BY DEF Init
  <2> QED BY <1>1, <1>2, <2>1, <2>2 DEF TypeOK
<1>5. Accounting /\ Handled
  BY <1>1, <1>2, NothingIn DEF Accounting, Handled
<1> QED BY <1>3, <1>4, <1>5 DEF StreamInv

\* What a step that leaves the pool, the callback and the bytes alone has to keep.
LEMMA Elsewhere ==
    ASSUME StreamInv, UNCHANGED <<xferIndex, pool, cb, totalBytes, sent, delivered, lost>>,
           phase' \in {"start", "setup", "syncff", "events", "returned"},
           activity' \in BOOLEAN, refused' \in BOOLEAN,
           result' \in {0, Silence, LibusbError}, retval' \in {0, Silence, LibusbError}
    PROVE  StreamInv'
<1>1. TypeOK'
  BY DEF StreamInv, TypeOK, pool, cb
<1>2. Accounting' /\ Handled'
  BY DEF StreamInv, Accounting, Handled, pool, cb
<1>3. Placed(inflight', handling', freed', dead', xferIndex')
  BY DEF StreamInv, pool, cb
<1> QED BY <1>1, <1>2, <1>3 DEF StreamInv

LEMMA SetupKeeps ==
    ASSUME StreamInv, Start \/ SubmitFails \/ AllSubmitted \/ SyncFF
    PROVE  StreamInv'
<1>1. /\ UNCHANGED <<xferIndex, pool, cb, totalBytes, sent, delivered, lost>>
      /\ UNCHANGED <<activity, refused, result>>
      /\ phase' \in {"setup", "syncff", "events", "returned"}
      /\ retval' \in {retval, 1, LibusbError, result}
  BY DEF Start, SubmitFails, AllSubmitted, SyncFF, Return, account
<1>2. /\ activity \in BOOLEAN /\ refused \in BOOLEAN /\ result \in {0, Silence, LibusbError}
      /\ retval \in {0, Silence, LibusbError}
  BY DEF StreamInv, TypeOK
<1> QED BY <1>1, <1>2, Elsewhere DEF Silence

LEMMA SubmitKeeps ==
    ASSUME StreamInv, Submit
    PROVE  StreamInv'
<1>1. /\ xferIndex' = xferIndex + 1 /\ inflight' = Append(inflight, xferIndex + 1)
      /\ UNCHANGED <<phase, freed, dead, cb, activity, result, retval, account>>
      /\ xferIndex' \in 0..NumTransfers
  <2>1. xferIndex \in 0..NumTransfers /\ xferIndex < NumTransfers /\ NumTransfers \in Nat
    BY StreamReadAssumption DEF StreamInv, TypeOK, Submit, MoreTransfers
  <2> QED BY <2>1 DEF Submit
<1>2. Placed(inflight', handling', freed', dead', xferIndex')
  <2>1. Placed(Append(inflight, xferIndex + 1), handling, freed, dead, xferIndex + 1)
    BY NewSubmitted DEF StreamInv
  <2> QED BY <1>1, <2>1 DEF cb
<1>3. /\ inflight' \in Seq(1..NumTransfers) /\ handling' \in 0..NumTransfers
      /\ freed' \subseteq 1..NumTransfers /\ dead' \subseteq 1..NumTransfers
  BY <1>1, <1>2, PoolTypes
<1>4. TypeOK'
  BY <1>1, <1>3 DEF StreamInv, TypeOK, cb, account
<1>5. Accounting' /\ Handled'
  BY <1>1 DEF StreamInv, Accounting, Handled, cb, account
<1> QED BY <1>2, <1>4, <1>5 DEF StreamInv

\* The oldest transfer lands with its data.
LEMMA LandFacts ==
    ASSUME StreamInv, NEW m \in 0..bufferSize, Land(m)
    PROVE  /\ Placed(inflight', Head(inflight), freed, dead, xferIndex) /\ Head(inflight) # 0
           /\ Whole(m) /\ PayloadLength(PacketSize, m) \in Nat
           /\ sent' = sent + PayloadLength(PacketSize, m) /\ sent' \in Nat
           /\ activity' = TRUE /\ handling = 0 /\ length = 0
           /\ pending = << >> /\ Len(pending) = 0
<1>1. m \in Nat /\ PayloadLength(PacketSize, m) \in Nat /\ sent \in Nat
  <2>1. bufferSize \in Nat
    BY StreamReadAssumption DEF bufferSize
  <2> QED BY <2>1, PayloadBound, Numbers DEF StreamInv
<1>2. handling = 0 /\ length = 0 /\ Len(pending) = 0
  BY NothingIn DEF StreamInv, Handled, Land
<1>3. pending = << >>
  BY <1>2, EmptySeq DEF StreamInv, TypeOK
<1>4. Placed(inflight', Head(inflight), freed, dead, xferIndex) /\ Head(inflight) # 0
  BY <1>2, HeadHandled DEF StreamInv, Land
<1> QED BY <1>1, <1>2, <1>3, <1>4 DEF Land, Whole

LEMMA CompletedKeeps ==
    ASSUME StreamInv, NEW m \in 0..bufferSize, Completed(m)
    PROVE  StreamInv'
<1> DEFINE p == PayloadLength(PacketSize, m)
<1>1. /\ Placed(inflight', handling', freed', dead', xferIndex')
      /\ Whole(m) /\ p \in Nat /\ sent' = sent + p /\ sent' \in Nat /\ activity' = TRUE
      /\ Len(pending) = 0 /\ handling' # 0 /\ length' = m /\ res' = 0
      /\ pending' = [k \in 1..p |-> sent + k]
      /\ UNCHANGED <<phase, xferIndex, freed, dead, result, retval, totalBytes, delivered,
                     lost, refused>>
  BY LandFacts DEF Completed
<1>2. pending' \in Seq(Nat) /\ Len(pending') = p
  <2> HIDE DEF p
  <2> QED BY <1>1, StreamProofs!CountUp, Numbers DEF StreamInv
<1>3. /\ inflight' \in Seq(1..NumTransfers) /\ handling' \in 0..NumTransfers
      /\ freed' \subseteq 1..NumTransfers /\ dead' \subseteq 1..NumTransfers
  BY <1>1, PoolTypes DEF StreamInv, TypeOK
<1>4. TypeOK'
  BY <1>1, <1>2, <1>3 DEF StreamInv, TypeOK
<1>5. Accounting'
  <2> HIDE DEF p
  <2> QED BY <1>1, <1>2, Numbers DEF StreamInv, Accounting
<1>6. Handled'
  BY <1>1, <1>2 DEF Handled, Whole
<1> QED BY <1>1, <1>4, <1>5, <1>6 DEF StreamInv

LEMMA FailedKeeps ==
    ASSUME StreamInv, NEW m \in 0..bufferSize, Failed(m)
    PROVE  StreamInv'
<1> DEFINE p == PayloadLength(PacketSize, m)
<1>1. /\ p \in Nat /\ sent' = sent + p /\ sent' \in Nat /\ activity' = TRUE /\ handling = 0
      /\ lost' = lost + p /\ result' = LibusbError
      /\ UNCHANGED <<phase, xferIndex, freed, cb, retval, totalBytes, delivered, refused>>
      /\ Placed(inflight', Head(inflight), freed, dead, xferIndex) /\ Head(inflight) # 0
      /\ dead' = dead \cup {Head(inflight)}
  BY LandFacts DEF Failed
<1>2. Placed(inflight', handling', freed', dead', xferIndex')
  BY <1>1, HandledDead DEF cb
<1>3. /\ inflight' \in Seq(1..NumTransfers) /\ handling' \in 0..NumTransfers
      /\ freed' \subseteq 1..NumTransfers /\ dead' \subseteq 1..NumTransfers
  BY <1>1, <1>2, PoolTypes DEF StreamInv, TypeOK
<1>4. TypeOK'
  <2>1. lost' \in Nat
    BY <1>1, Numbers DEF StreamInv
  <2> QED BY <1>1, <1>3, <2>1 DEF StreamInv, TypeOK, cb
<1>5. Accounting'
  <2> HIDE DEF p
  <2> QED BY <1>1, Numbers DEF StreamInv, Accounting, cb
<1>6. Handled'
  BY <1>1 DEF StreamInv, Handled, cb
<1> QED BY <1>2, <1>4, <1>5, <1>6 DEF StreamInv

\* The packet at the front of the transfer.
LEMMA PacketFacts ==
    ASSUME StreamInv, length > 0
    PROVE  /\ PacketLen \in 0..length /\ PayloadLen \in 0..Len(pending) /\ Whole(length - PacketLen)
           /\ Len(pending) - PayloadLen = PayloadLength(PacketSize, length - PacketLen)
           /\ HandedOut \in Seq(Nat) /\ Len(HandedOut) = PayloadLen
           /\ Rest \in Seq(Nat) /\ Len(Rest) = Len(pending) - PayloadLen
<1>1. length \in Nat /\ pending \in Seq(Nat) /\ Len(pending) \in Nat /\ Whole(length)
      /\ Len(pending) = PayloadLength(PacketSize, length)
  BY Numbers DEF StreamInv, Handled
<1>2. /\ PacketLen \in 0..length /\ PacketLen - StatusLength \in Nat /\ length - PacketLen \in Nat
      /\ Whole(length - PacketLen)
      /\ PayloadLength(PacketSize, length)
           = (PacketLen - StatusLength) + PayloadLength(PacketSize, length - PacketLen)
  BY <1>1, PacketAway DEF PacketLen
<1> DEFINE n == PayloadLen
           g == PayloadLength(PacketSize, length - PacketLen)
<1>3. n \in Nat /\ g \in Nat /\ Len(pending) = n + g
  BY <1>1, <1>2, PayloadBound DEF PayloadLen
<1> HIDE DEF n, g
<1>4. n \in 0..Len(pending) /\ n <= Len(pending) /\ Len(pending) - n = g
  BY <1>3
<1>5. SubSeq(pending, 1, n) \in Seq(Nat) /\ Len(SubSeq(pending, 1, n)) = n
  BY <1>1, <1>3, <1>4, StreamProofs!Front
<1>6. SubSeq(pending, n + 1, Len(pending)) \in Seq(Nat)
      /\ Len(SubSeq(pending, n + 1, Len(pending))) = g
  BY <1>1, <1>3, StreamProofs!Rear
<1> QED BY <1>2, <1>4, <1>5, <1>6 DEF HandedOut, Rest, n, g

LEMMA PacketKeeps ==
    ASSUME StreamInv, NEW answer \in {0, NonZero}, Packet(answer)
    PROVE  StreamInv'
<1>1. /\ totalBytes' = totalBytes + PayloadLen /\ delivered' = delivered \o HandedOut
      /\ pending' = Rest /\ length' = length - PacketLen /\ res' = answer
      /\ refused' = (refused \/ answer # 0) /\ length > 0 /\ handling # 0
      /\ UNCHANGED <<phase, xferIndex, pool, handling, activity, result, retval, sent, lost>>
  BY DEF Packet
<1>2. /\ PacketLen \in 0..length /\ PayloadLen \in 0..Len(pending) /\ Whole(length - PacketLen)
      /\ Len(pending) - PayloadLen = PayloadLength(PacketSize, length - PacketLen)
      /\ HandedOut \in Seq(Nat) /\ Len(HandedOut) = PayloadLen
      /\ Rest \in Seq(Nat) /\ Len(Rest) = Len(pending) - PayloadLen
  BY <1>1, PacketFacts
<1>3. delivered' \in Seq(Nat) /\ Len(delivered') = Len(delivered) + PayloadLen
  BY <1>1, <1>2, StreamProofs!ConcatLength, Numbers DEF StreamInv
<1>4. TypeOK'
  <2>1. length' \in 0..bufferSize
    <3>1. length \in 0..bufferSize /\ bufferSize \in Nat
      BY StreamReadAssumption DEF StreamInv, TypeOK, bufferSize
    <3> QED BY <3>1, <1>1, <1>2
  <2>2. totalBytes' \in Nat
    BY <1>1, <1>2, Numbers DEF StreamInv
  <2>3. refused' \in BOOLEAN /\ res' \in {0, NonZero}
    BY <1>1 DEF StreamInv, TypeOK
  <2> QED BY <1>1, <1>2, <1>3, <2>1, <2>2, <2>3 DEF StreamInv, TypeOK, pool
<1>5. Accounting'
  <2>1. /\ totalBytes = Len(delivered) /\ totalBytes + Len(pending) + lost = sent
        /\ sent' = sent /\ lost' = lost
    BY <1>1 DEF StreamInv, Accounting
  <2>2. totalBytes \in Nat /\ Len(pending) \in Nat /\ lost \in Nat /\ PayloadLen \in Nat
    BY <1>2, Numbers DEF StreamInv
  <2>3. totalBytes' = totalBytes + PayloadLen /\ Len(pending') = Len(pending) - PayloadLen
    BY <1>1, <1>2
  <2> HIDE DEF PayloadLen
  <2> QED BY <1>3, <2>1, <2>2, <2>3 DEF Accounting
<1>6. Handled'
  <2>1. Whole(length)' <=> Whole(length - PacketLen)
    BY <1>1 DEF Whole
  <2> QED BY <1>1, <1>2, <2>1 DEF Handled
<1>7. Placed(inflight', handling', freed', dead', xferIndex')
  BY <1>1 DEF StreamInv, pool
<1> QED BY <1>4, <1>5, <1>6, <1>7 DEF StreamInv

LEMMA FinishKeeps ==
    ASSUME StreamInv, Finish
    PROVE  StreamInv'
<1>1. /\ handling # 0 /\ length = 0 /\ handling' = 0
      /\ UNCHANGED <<phase, xferIndex, length, pending, res, activity, retval, account>>
      /\ \/ /\ inflight' = inflight /\ freed' = freed \cup {handling} /\ dead' = dead
            /\ result' = result
         \/ /\ inflight' = Append(inflight, handling) /\ freed' = freed /\ dead' = dead
            /\ result' = 0
         \/ /\ inflight' = inflight /\ freed' = freed /\ dead' = dead \cup {handling}
            /\ result' = LibusbError
  BY DEF Finish, Resubmits
<1>2. Placed(inflight', handling', freed', dead', xferIndex')
  <2>1. Placed(inflight, handling, freed, dead, xferIndex)
    BY DEF StreamInv
  <2>2. /\ Placed(inflight, 0, freed \cup {handling}, dead, xferIndex)
        /\ Placed(Append(inflight, handling), 0, freed, dead, xferIndex)
        /\ Placed(inflight, 0, freed, dead \cup {handling}, xferIndex)
    BY <1>1, <2>1, HandledFreed, HandledAgain, HandledDead
  <2> QED BY <1>1, <2>2
<1>3. /\ inflight' \in Seq(1..NumTransfers) /\ handling' \in 0..NumTransfers
      /\ freed' \subseteq 1..NumTransfers /\ dead' \subseteq 1..NumTransfers
  BY <1>1, <1>2, PoolTypes DEF StreamInv, TypeOK
<1>4. TypeOK'
  BY <1>1, <1>3 DEF StreamInv, TypeOK, account
<1>5. Accounting' /\ Handled'
  BY <1>1 DEF StreamInv, Accounting, Handled, Whole, account
<1> QED BY <1>2, <1>4, <1>5 DEF StreamInv

LEMMA EventsReturnKeeps ==
    ASSUME StreamInv, NEW err \in {0, LibusbError}, EventsReturn(err)
    PROVE  StreamInv'
<1>1. /\ UNCHANGED <<xferIndex, pool, cb, totalBytes, sent, delivered, lost>>
      /\ activity' = FALSE /\ refused' \in {refused, TRUE}
      /\ result' = Verdict(err)
      /\ phase' \in {phase, "returned"} /\ retval' \in {retval, result'}
  BY DEF EventsReturn, Return
<1>2. /\ phase \in {"start", "setup", "syncff", "events", "returned"} /\ refused \in BOOLEAN
      /\ result \in {0, Silence, LibusbError} /\ retval \in {0, Silence, LibusbError}
  BY DEF StreamInv, TypeOK
<1>3. result' \in {0, Silence, LibusbError}
  BY <1>1, <1>2 DEF Verdict
<1>4. phase' \in {"start", "setup", "syncff", "events", "returned"}
  BY <1>1, <1>2
<1> QED BY <1>1, <1>2, <1>3, <1>4, Elsewhere

LEMMA StreamKeeps == StreamInv /\ [Next]_vars => StreamInv'
<1> SUFFICES ASSUME StreamInv, [Next]_vars PROVE StreamInv'
  OBVIOUS
<1>1. CASE UNCHANGED vars
  BY <1>1 DEF vars, pool, cb, account, StreamInv, TypeOK, Accounting, Handled, Whole
<1>2. CASE Start \/ Submit \/ SubmitFails \/ AllSubmitted \/ SyncFF
  BY <1>2, SetupKeeps, SubmitKeeps
<1>3. CASE Callback
  BY <1>3, CompletedKeeps, FailedKeeps, PacketKeeps, FinishKeeps DEF Callback
<1>4. CASE Loop
  BY <1>4, EventsReturnKeeps DEF Loop
<1> QED BY <1>1, <1>2, <1>3, <1>4 DEF Next

LEMMA StreamAlways == Spec => []StreamInv
BY StreamInit, StreamKeeps, PTL DEF Spec

-----------------------------------------------------------------------------
\* FTDIStreamState, the transfers and the callback's locals keep their types,
\* whatever order transfers land, fail and are refused in: in particular no more
\* transfers are submitted than asked for.
THEOREM PoolTypeCorrect == Spec => []TypeOK
<1>1. StreamInv => TypeOK
  BY DEF StreamInv
<1> QED BY <1>1, StreamAlways, PTL

\* The progress report counts exactly what the client was given, and every byte the
\* chip sent was given to it, waits in the transfer being handled, or was in one
\* that failed.
THEOREM StreamAccounts == Spec => []Accounting
<1>1. StreamInv => Accounting
  BY DEF StreamInv
<1> QED BY <1>1, StreamAlways, PTL

\* No transfer is submitted twice, used after it was freed, or lost track of: each is
\* with libusb, in the callback, freed or dead.
THEOREM TransfersPlaced == Spec => []OnePlaceEach
<1>1. StreamInv => OnePlaceEach
  BY DEF StreamInv, Placed, OnePlaceEach, Members, Busy
<1> QED BY <1>1, StreamAlways, PTL

-----------------------------------------------------------------------------
(* The byte stream.                                                        *)

Simulates == Stream!Next \/ UNCHANGED Stream!vars

LEMMA StreamInitially == Init => Stream!Init
BY DEF Init, Stream!Init

LEMMA CompletedSimulates ==
    ASSUME StreamInv, StreamInv', NEW m \in 0..bufferSize, Completed(m)
    PROVE  Simulates
<1> DEFINE p == PayloadLength(PacketSize, m)
<1>1. /\ p \in Nat /\ sent' = sent + p /\ sent' \in Nat /\ sent \in Nat /\ pending = << >>
      /\ pending' = [k \in 1..p |-> sent + k] /\ delivered' = delivered
  BY LandFacts, Numbers DEF StreamInv, Completed
<1>2. sent' >= sent /\ sent' - sent = p
  <2> HIDE DEF p
  <2> QED BY <1>1
<1>3. pending' \in Seq(Nat)
  BY DEF StreamInv, TypeOK
<1>4. Stream!Run(sent, sent' - sent) = pending'
  BY <1>1, <1>2 DEF Stream!Run
<1>5. Stream!Grown = pending' /\ Stream!Arrive
  BY <1>1, <1>2, <1>3, <1>4, StreamProofs!AllCells DEF Stream!Grown, Stream!Arrive
<1>6. /\ 1 \in 1..Len(Stream!Grown) + 1 /\ Len(Stream!Grown) \in (1 - 1)..Len(Stream!Grown)
      /\ pending' = SubSeq(Stream!Grown, 1, Len(Stream!Grown))
  BY <1>3, <1>5, StreamProofs!AllCells
<1> QED BY <1>1, <1>5, <1>6 DEF Simulates, Stream!Next, Stream!Keep

\* The bytes of a transfer that fails are forgotten.
LEMMA FailedSimulates ==
    ASSUME StreamInv, NEW m \in 0..bufferSize, Failed(m)
    PROVE  Simulates
<1> DEFINE p == PayloadLength(PacketSize, m)
           r == Stream!Run(sent, sent' - sent)
<1>1. /\ p \in Nat /\ sent' = sent + p /\ sent' \in Nat /\ sent \in Nat /\ pending = << >>
      /\ pending' = << >> /\ delivered' = delivered
  BY LandFacts, Numbers DEF StreamInv, Failed, cb
<1>2. sent' >= sent /\ sent' - sent = p
  <2> HIDE DEF p
  <2> QED BY <1>1
<1>3. r \in Seq(Nat)
  <2> HIDE DEF p
  <2> QED BY <1>1, <1>2, StreamProofs!CountUp DEF Stream!Run
<1>4. Stream!Grown \in Seq(Nat) /\ Stream!Arrive
  BY <1>1, <1>2, <1>3, StreamProofs!AllCells DEF Stream!Grown, Stream!Arrive
<1>5. /\ 1 \in 1..Len(Stream!Grown) + 1 /\ 0 \in (1 - 1)..Len(Stream!Grown)
      /\ pending' = SubSeq(Stream!Grown, 1, 0)
  BY <1>1, <1>4, StreamProofs!AllCells
<1> QED BY <1>1, <1>4, <1>5 DEF Simulates, Stream!Next, Stream!Keep

LEMMA PacketSimulates ==
    ASSUME StreamInv, NEW answer \in {0, NonZero}, Packet(answer)
    PROVE  Simulates
<1>1. /\ sent' = sent /\ sent \in Nat /\ pending \in Seq(Nat)
      /\ delivered' = delivered \o SubSeq(pending, 1, PayloadLen)
      /\ pending' = SubSeq(pending, PayloadLen + 1, Len(pending))
      /\ PayloadLen \in 0..Len(pending)
  BY PacketFacts, Numbers DEF StreamInv, Packet, HandedOut, Rest
<1>2. sent' \in Nat /\ sent' >= sent /\ sent' - sent = 0
  BY <1>1
<1>3. Stream!Run(sent, sent' - sent) = << >>
  BY <1>2 DEF Stream!Run
<1>4. Stream!Grown = pending /\ Stream!Arrive
  BY <1>1, <1>2, <1>3, StreamProofs!AllCells DEF Stream!Grown, Stream!Arrive
<1> QED BY <1>1, <1>4 DEF Simulates, Stream!Next, Stream!Deliver

LEMMA StreamSteps == StreamInv /\ StreamInv' /\ [Next]_vars => [Stream!Next]_(Stream!vars)
<1> SUFFICES ASSUME StreamInv, StreamInv', [Next]_vars PROVE Simulates
  BY DEF Simulates
<1>1. CASE UNCHANGED vars
  BY <1>1 DEF Simulates, Stream!vars, vars, cb, account
<1>2. CASE Start \/ Submit \/ SubmitFails \/ AllSubmitted \/ SyncFF \/ Finish \/ Loop
  BY <1>2 DEF Simulates, Stream!vars, cb, account, Start, Submit, SubmitFails, AllSubmitted,
     SyncFF, Finish, Loop, EventsReturn
<1>3. CASE Callback
  BY <1>2, <1>3, CompletedSimulates, FailedSimulates, PacketSimulates DEF Callback
<1> QED BY <1>1, <1>2, <1>3 DEF Next

\* However many transfers are in flight, and whichever fail, ftdi_readstream hands
\* out the packets as the byte stream does.
THEOREM StreamReadImplementsStream == Spec => StreamSpec
<1>1. Init => Stream!Init
  BY StreamInitially
<1>2. StreamInv /\ StreamInv' /\ [Next]_vars => [Stream!Next]_(Stream!vars)
  BY StreamSteps
<1> QED BY <1>1, <1>2, StreamAlways, PTL DEF Spec, StreamSpec, Stream!Spec


\* The client's callback is given the chip's bytes in order and none of them twice,
\* and the packets that wait come after all it has been given.
THEOREM StreamReadInOrder == Spec => []Stream!InOrder
<1>1. Stream!Init => StreamProofs!Init
  BY DEF Stream!Init, StreamProofs!Init
<1>2. [Stream!Next]_(Stream!vars) => [StreamProofs!Next]_(StreamProofs!vars)
  BY DEF Stream!Next, Stream!vars, Stream!Deliver, Stream!Keep, Stream!Grown, Stream!Arrive,
     Stream!Run, StreamProofs!Next, StreamProofs!vars, StreamProofs!Deliver,
     StreamProofs!Keep, StreamProofs!Grown, StreamProofs!Arrive, StreamProofs!Run
<1>3. StreamProofs!InOrder => Stream!InOrder
  BY DEF Stream!InOrder, Stream!Increasing, StreamProofs!InOrder, StreamProofs!Increasing
<1> QED BY <1>1, <1>2, <1>3, StreamReadImplementsStream, StreamProofs!StreamInOrder, PTL
        DEF StreamSpec, Stream!Spec, StreamProofs!Spec
=============================================================================
