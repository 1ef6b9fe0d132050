-------------------------- MODULE WritePathProofs --------------------------
(***************************************************************************)
(* That writes reach the chip whole and in order and are truthfully        *)
(* reported, for any number of writes, any sizes and any chunk sizes.      *)
(*                                                                         *)
(* Every action changes the record of one write and puts a transfer at the *)
(* end of the queue, takes the one at its head, does both, or neither.     *)
(* QueueRight and WireRight are stated for any records, queue and wire, so *)
(* that the two halves of a step can be taken one after the other.         *)
(***************************************************************************)
EXTENDS WritePath, SequenceTheorems, TLAPS

Record == [call : Calls, size : {0} \cup Sizes, offset : Nat,
           completed : BOOLEAN, status : Statuses, retval : Int]

Transfer == [write : Writes, from : Nat, length : Nat]

Busy(c) == \/ c.call = "sync"
           \/ c.call \in Async /\ ~c.completed
           \/ c.call = "freed"

Places(q, w) == {k \in 1..Len(q) : q[k].write = w}
One(q, w)    == \E k \in 1..Len(q) : Places(q, w) = {k}

Fits(t, c) == t.from = c.offset /\ t.from + t.length <= c.size

\* The queue holds one transfer of each busy write, at its place, and no other.
QueueRight(q, r) ==
    /\ q \in Seq(Transfer)
    /\ \A k \in 1..Len(q) : Fits(q[k], r[q[k].write])
    /\ \A w \in Writes : IF Busy(r[w]) THEN One(q, w) ELSE Places(q, w) = {}

Of(s, w) == {s[i][2] : i \in {j \in 1..Len(s) : s[j][1] = w}}

WireRight(s, r) ==
    /\ s \in Seq(Writes \X Nat)
    /\ \A w \in Writes : Of(s, w) = 1..r[w].offset
    /\ \A i, j \in 1..Len(s) : i < j /\ s[i][1] = s[j][1] => s[i][2] < s[j][2]

RecordRight(c) == /\ c \in Record
                  /\ c.call = "new" => c.offset = 0 /\ ~c.completed
                  /\ c.call = "returned" /\ c.retval >= 0 => c.retval = c.offset

WriteInv == /\ writebuffer_chunksize \in ChunkSizes
            /\ tc \in [Writes -> Record] /\ \A w \in Writes : RecordRight(tc[w])
            /\ QueueRight(queue, tc)
            /\ WireRight(wire, tc)

LEMMA Numbers ==
    ASSUME NEW c \in Record
    PROVE  c.offset \in Nat /\ c.size \in Nat
<1>1. c.offset \in Nat /\ c.size \in {0} \cup Sizes
  BY DEF Record
<1>2. {0} \cup Sizes \subseteq Nat
  BY WriteAssumption
<1> QED BY <1>1, <1>2

-----------------------------------------------------------------------------
(* The queue.                                                              *)

LEMMA Appended ==
    ASSUME NEW q \in Seq(Transfer), NEW x \in Transfer
    PROVE  /\ Append(q, x) \in Seq(Transfer) /\ Len(q) \in Nat
           /\ Len(Append(q, x)) = Len(q) + 1
           /\ \A k \in 1..Len(q) : Append(q, x)[k] = q[k] /\ q[k] \in Transfer
           /\ Append(q, x)[Len(q) + 1] = x
BY AppendProperties, LenProperties, ElementOfSeq

LEMMA Removed ==
    ASSUME NEW q \in Seq(Transfer), q # << >>
    PROVE  /\ Tail(q) \in Seq(Transfer) /\ Len(q) \in Nat /\ Len(q) >= 1
           /\ Len(Tail(q)) = Len(q) - 1
           /\ \A k \in 1..Len(q) - 1 : Tail(q)[k] = q[k + 1]
           /\ \A k \in 1..Len(q) : q[k] \in Transfer
           /\ Head(q) = q[1]
BY HeadTailProperties, LenProperties, ElementOfSeq, EmptySeq

LEMMA Elements ==
    ASSUME NEW q \in Seq(Transfer), NEW k \in 1..Len(q)
    PROVE  q[k] \in Transfer /\ q[k].write \in Writes
<1>1. q[k] \in Transfer
  BY ElementOfSeq
<1> QED BY <1>1 DEF Transfer

\* A write that had no transfer gets one.
LEMMA Added ==
    ASSUME NEW q, NEW r, NEW r2, QueueRight(q, r),
           NEW w \in Writes, ~Busy(r[w]), Busy(r2[w]),
           \A v \in Writes \ {w} : r2[v] = r[v],
           NEW x \in Transfer, x.write = w, Fits(x, r2[w])
    PROVE  QueueRight(Append(q, x), r2)
<1> DEFINE a == Append(q, x)
           n == Len(q)
<1>0. q \in Seq(Transfer) /\ Places(q, w) = {}
  BY DEF QueueRight
<1>1. /\ a \in Seq(Transfer) /\ n \in Nat /\ Len(a) = n + 1 /\ a[n + 1] = x
      /\ \A k \in 1..n : a[k] = q[k] /\ q[k] \in Transfer
  BY <1>0, Appended
<1> HIDE DEF a
<1>2. \A k \in 1..n : q[k].write # w /\ q[k].write \in Writes
  BY <1>0, <1>1 DEF Places, Transfer
<1>3. \A k \in 1..Len(a) : Fits(a[k], r2[a[k].write])
  <2> TAKE k \in 1..Len(a)
  <2>1. CASE k = n + 1
    BY <2>1, <1>1
  <2>2. CASE k \in 1..n
    BY <2>2, <1>1, <1>2 DEF QueueRight
  <2> QED BY <1>1, <2>1, <2>2
<1>4. ASSUME NEW v \in Writes
      PROVE  IF Busy(r2[v]) THEN One(a, v) ELSE Places(a, v) = {}
  <2>1. CASE v = w
    <3>1. n + 1 \in 1..Len(a) /\ a[n + 1].write = w
      BY <1>1
    <3>2. \A k \in 1..Len(a) : k # n + 1 => k \in 1..n
      BY <1>1
    <3>3. Places(a, w) = {n + 1}
      BY <1>1, <1>2, <3>1, <3>2 DEF Places
    <3> QED BY <2>1, <3>1, <3>3 DEF One
  <2>2. CASE v # w
    <3>1. Places(a, v) = Places(q, v)
      <4>1. \A k : k \in 1..Len(a) /\ k # n + 1 <=> k \in 1..n
        BY <1>1
      <4> QED BY <1>1, <2>2, <4>1 DEF Places
    <3>2. 1..n \subseteq 1..Len(a)
      BY <1>1
    <3>3. r2[v] = r[v]
      BY <2>2
    <3> QED BY <3>1, <3>2, <3>3 DEF QueueRight, One
  <2> QED BY <2>1, <2>2
<1> QED BY <1>1, <1>3, <1>4 DEF QueueRight, a

\* The write whose transfer was the oldest is no longer busy.
LEMMA Taken ==
    ASSUME NEW q, NEW r, NEW r2, QueueRight(q, r), q # << >>,
           NEW w \in Writes, w = Head(q).write, ~Busy(r2[w]),
           \A v \in Writes \ {w} : r2[v] = r[v]
    PROVE  QueueRight(Tail(q), r2)
<1> DEFINE a == Tail(q)
           n == Len(q)
<1>0. q \in Seq(Transfer)
  BY DEF QueueRight
<1>1. /\ a \in Seq(Transfer) /\ n \in Nat /\ n >= 1 /\ Len(a) = n - 1
      /\ \A k \in 1..n - 1 : a[k] = q[k + 1]
      /\ \A k \in 1..n : q[k] \in Transfer
      /\ Head(q) = q[1]
  BY <1>0, Removed
<1> HIDE DEF a
<1>2. \A k \in 1..n : q[k].write = w => k = 1
  <2>1. 1 \in Places(q, w)
    BY <1>1 DEF Places
  <2>2. One(q, w)
    BY <2>1 DEF QueueRight
  <2>3. Places(q, w) = {1}
    BY <2>1, <2>2 DEF One
  <2> QED BY <2>3 DEF Places
<1>3. \A k \in 1..n - 1 : k + 1 \in 1..n /\ k + 1 # 1
  BY <1>1
<1>4. \A k \in 1..n - 1 : a[k].write # w /\ a[k].write \in Writes
  BY <1>1, <1>2, <1>3 DEF Transfer
<1>5. \A k \in 1..Len(a) : Fits(a[k], r2[a[k].write])
  BY <1>1, <1>3, <1>4 DEF QueueRight
<1>6. ASSUME NEW v \in Writes
      PROVE  IF Busy(r2[v]) THEN One(a, v) ELSE Places(a, v) = {}
  <2>1. CASE v = w
    BY <2>1, <1>1, <1>4 DEF Places
  <2>2. CASE v # w
    <3>1. \A k \in 1..n - 1 : k \in Places(a, v) <=> k + 1 \in Places(q, v)
      BY <1>1, <1>3 DEF Places
    <3>2. r2[v] = r[v]
      BY <2>2
    <3>3. CASE Busy(r[v])
      <4>1. PICK k \in 1..n : Places(q, v) = {k}
        BY <3>3 DEF QueueRight, One
      <4>2. k # 1
        BY <4>1, <1>1, <2>2 DEF Places
      <4>3. k - 1 \in 1..n - 1 /\ (k - 1) + 1 = k
        BY <4>2, <1>1
      <4>4. Places(a, v) \subseteq 1..n - 1
        BY <1>1 DEF Places
      <4>5. \A i \in 1..n - 1 : i + 1 = k => i = k - 1
        BY <1>1
      <4>6. Places(a, v) = {k - 1}
        BY <3>1, <4>1, <4>3, <4>4, <4>5
      <4> QED BY <4>3, <4>6, <3>2, <3>3, <1>1 DEF One
    <3>4. CASE ~Busy(r[v])
      <4>1. Places(q, v) = {}
        BY <3>4 DEF QueueRight
      <4>2. Places(a, v) \subseteq 1..n - 1
        BY <1>1 DEF Places
      <4> QED BY <3>1, <3>2, <3>4, <4>1, <4>2
    <3> QED BY <3>3, <3>4
  <2> QED BY <2>1, <2>2
<1> QED BY <1>1, <1>5, <1>6 DEF QueueRight, a

\* A write with no transfer, before and after.
LEMMA StaysIdle ==
    ASSUME NEW q, NEW r, NEW r2, QueueRight(q, r),
           NEW w \in Writes, ~Busy(r[w]), ~Busy(r2[w]),
           \A v \in Writes \ {w} : r2[v] = r[v]
    PROVE  QueueRight(q, r2)
<1>1. q \in Seq(Transfer) /\ Places(q, w) = {}
  BY DEF QueueRight
<1>2. \A k \in 1..Len(q) : q[k].write # w /\ q[k].write \in Writes
  BY <1>1, Elements DEF Places
<1>3. \A k \in 1..Len(q) : Fits(q[k], r2[q[k].write])
  BY <1>2 DEF QueueRight
<1>4. ASSUME NEW v \in Writes
      PROVE  IF Busy(r2[v]) THEN One(q, v) ELSE Places(q, v) = {}
  <2>1. CASE v = w
    BY <1>1, <2>1
  <2>2. CASE v # w
    <3>1. r2[v] = r[v]
      BY <2>2
    <3> QED BY <3>1 DEF QueueRight
  <2> QED BY <2>1, <2>2
<1> QED BY <1>1, <1>3, <1>4 DEF QueueRight

\* A write whose transfer is left alone.
LEMMA StaysBusy ==
    ASSUME NEW q, NEW r, NEW r2, QueueRight(q, r),
           NEW w \in Writes, Busy(r[w]), Busy(r2[w]),
           r2[w].offset = r[w].offset, r2[w].size = r[w].size,
           \A v \in Writes \ {w} : r2[v] = r[v]
    PROVE  QueueRight(q, r2)
<1>1. q \in Seq(Transfer)
  BY DEF QueueRight
<1>2. \A k \in 1..Len(q) : q[k].write \in Writes
  BY <1>1, Elements
<1>3. \A k \in 1..Len(q) : Fits(q[k], r2[q[k].write])
  BY <1>2 DEF QueueRight, Fits
<1>4. \A v \in Writes : IF Busy(r2[v]) THEN One(q, v) ELSE Places(q, v) = {}
  BY DEF QueueRight
<1> QED BY <1>1, <1>3, <1>4 DEF QueueRight

-----------------------------------------------------------------------------
(* The wire.                                                               *)

\* n more bytes of write w, at the place it has got to.
LEMMA Sent ==
    ASSUME NEW s, NEW r, NEW r2, WireRight(s, r), NEW w \in Writes, NEW n \in Nat,
           r[w].offset \in Nat, r2[w].offset = r[w].offset + n,
           \A v \in Writes \ {w} : r2[v].offset = r[v].offset
    PROVE  WireRight(s \o [k \in 1..n |-> <<w, r[w].offset + k>>], r2)
<1> DEFINE o == r[w].offset
           e(k) == <<w, o + k>>
           t == [k \in 1..n |-> e(k)]
           u == s \o t
           m == Len(s)
<1>1. s \in Seq(Writes \X Nat)
  BY DEF WireRight
<1>2. /\ t \in Seq(Writes \X Nat) /\ Len(t) = n /\ \A k \in 1..n : t[k] = <<w, o + k>>
  <2>1. \A k \in 1..n : e(k) \in Writes \X Nat
    OBVIOUS
  <2>2. t \in Seq(Writes \X Nat) /\ Len(t) = n
    <3> HIDE DEF e
    <3> QED BY <2>1, IsASeq, LenProperties, SMT
  <2> QED BY <2>2
<1> HIDE DEF t
<1>3. /\ u \in Seq(Writes \X Nat) /\ m \in Nat /\ Len(u) = m + n
      /\ \A k \in 1..m : u[k] = s[k]
      /\ \A k \in m + 1..m + n : u[k] = t[k - m]
  <2>1. m \in Nat /\ u \in Seq(Writes \X Nat) /\ Len(u) = m + n
    BY <1>1, <1>2, ConcatProperties, LenProperties
  <2>2. \A k \in 1..m + n : u[k] = IF k <= m THEN s[k] ELSE t[k - m]
    BY <1>1, <1>2, ConcatProperties
  <2>3. \A k \in 1..m : k \in 1..m + n /\ k <= m
    BY <2>1
  <2>4. \A k \in m + 1..m + n : k \in 1..m + n /\ ~(k <= m)
    BY <2>1
  <2> QED BY <2>1, <2>2, <2>3, <2>4
<1> HIDE DEF u
<1>4. \A k \in 1..n : m + k \in 1..Len(u) /\ u[m + k] = <<w, o + k>>
  <2> TAKE k \in 1..n
  <2>1. m + k \in m + 1..m + n /\ m + k \in 1..Len(u) /\ (m + k) - m = k
    BY <1>3
  <2>2. u[m + k] = t[(m + k) - m]
    BY <2>1, <1>3
  <2> QED BY <2>1, <2>2, <1>2
<1>5. \A i \in 1..Len(u) : i \in 1..m \/ \E k \in 1..n : i = m + k
  <2> TAKE i \in 1..Len(u)
  <2>1. CASE i > m
    <3>1. i - m \in 1..n /\ i = m + (i - m)
      BY <2>1, <1>3
    <3> QED BY <3>1
  <2> QED BY <2>1, <1>3
<1>6. \A i \in 1..m : i \in 1..Len(u)
  BY <1>3
<1>7. ASSUME NEW v \in Writes
      PROVE  Of(u, v) = 1..r2[v].offset
  <2>1. Of(s, v) = 1..r[v].offset
    BY DEF WireRight
  <2>2. CASE v # w
    <3>1. Of(u, v) = Of(s, v)
      <4>1. ASSUME NEW i \in 1..Len(u), u[i][1] = v
            PROVE  i \in 1..m
        <5>1. CASE \E k \in 1..n : i = m + k
          <6>1. PICK k \in 1..n : i = m + k
            BY <5>1
          <6>2. u[m + k] = <<w, o + k>>
            BY <1>4
          <6> QED BY <6>1, <6>2, <4>1, <2>2
        <5> QED BY <5>1, <1>5
      <4>2. Of(u, v) \subseteq Of(s, v)
        BY <4>1, <1>3 DEF Of
      <4>3. Of(s, v) \subseteq Of(u, v)
        BY <1>3, <1>6 DEF Of
      <4> QED BY <4>2, <4>3
    <3>2. r2[v].offset = r[v].offset
      BY <2>2
    <3> QED BY <2>1, <3>1, <3>2
  <2>3. CASE v = w
    <3>1. Of(u, w) = Of(s, w) \cup {o + k : k \in 1..n}
      <4> DEFINE new == {o + k : k \in 1..n}
      <4>1. ASSUME NEW x \in Of(u, w)
            PROVE  x \in Of(s, w) \cup new
        <5>1. PICK i \in 1..Len(u) : u[i][1] = w /\ x = u[i][2]
          BY <4>1 DEF Of
        <5>2. CASE i \in 1..m
          BY <5>1, <5>2, <1>3 DEF Of
        <5>3. CASE \E k \in 1..n : i = m + k
          BY <5>1, <5>3, <1>4
        <5> QED BY <1>5, <5>2, <5>3
      <4>2. Of(s, w) \subseteq Of(u, w)
        BY <1>3, <1>6 DEF Of
      <4>3. new \subseteq Of(u, w)
        <5>1. ASSUME NEW k \in 1..n
              PROVE  o + k \in Of(u, w)
          <6>1. m + k \in 1..Len(u) /\ u[m + k][1] = w /\ u[m + k][2] = o + k
            BY <1>4
          <6> QED BY <6>1 DEF Of
        <5> QED BY <5>1
      <4>4. Of(u, w) \subseteq Of(s, w) \cup new
        BY <4>1
      <4> HIDE DEF new
      <4>5. Of(u, w) = Of(s, w) \cup new
        BY <4>2, <4>3, <4>4
      <4> QED BY <4>5 DEF new
    <3>2. (1..o) \cup {o + k : k \in 1..n} = 1..o + n
      <4> DEFINE new == {o + k : k \in 1..n}
      <4>1. o \in Nat
        OBVIOUS
      <4> HIDE DEF o
      <4>2. \A k \in 1..n : o + k \in 1..o + n
        BY <4>1
      <4>3. \A i \in 1..o : i \in 1..o + n
        BY <4>1
      <4>4. ASSUME NEW i \in 1..o + n, i \notin 1..o
            PROVE  i \in new
        <5>1. i - o \in 1..n /\ i = o + (i - o)
          BY <4>1, <4>4
        <5> QED BY <5>1
      <4>5. new \subseteq 1..o + n
        BY <4>2
      <4> HIDE DEF new
      <4>6. (1..o) \cup new = 1..o + n
        BY <4>3, <4>4, <4>5
      <4> QED BY <4>6 DEF new
    <3> QED BY <2>1, <2>3, <3>1, <3>2
  <2> QED BY <2>2, <2>3
<1>8. ASSUME NEW i \in 1..Len(u), NEW j \in 1..Len(u), i < j, u[i][1] = u[j][1]
      PROVE  u[i][2] < u[j][2]
  <2>1. CASE j \in 1..m
    <3>1. i \in 1..m
      BY <2>1, <1>8, <1>3
    <3> QED BY <2>1, <3>1, <1>3, <1>8 DEF WireRight
  <2>2. CASE \E k \in 1..n : j = m + k
    <3>1. PICK k \in 1..n : j = m + k
      BY <2>2
    <3>2. u[j] = <<w, o + k>>
      BY <3>1, <1>4
    <3>3. CASE i \in 1..m
      <4>1. s[i] = u[i]
        BY <3>3, <1>3
      <4>2. u[j][1] = w
        BY <3>2
      <4>3. u[i][1] = w
        BY <4>2, <1>8
      <4>4. u[i][2] \in Of(s, w)
        BY <3>3, <4>1, <4>3 DEF Of
      <4>5. u[i][2] \in 1..o
        BY <4>4 DEF WireRight
      <4> QED BY <3>2, <4>5
    <3>4. CASE \E l \in 1..n : i = m + l
      <4>1. PICK l \in 1..n : i = m + l
        BY <3>4
      <4>0. u[i] = <<w, o + l>>
        BY <4>1, <1>4
      <4>2. l < k
        <5>1. m \in Nat /\ m + l < m + k
          BY <4>1, <3>1, <1>3, <1>8
        <5> HIDE DEF m
        <5> QED BY <5>1
      <4>3. u[i][2] = o + l /\ u[j][2] = o + k
        BY <4>0, <3>2
      <4> QED BY <4>2, <4>3
    <3> QED BY <3>3, <3>4, <1>5
  <2> QED BY <2>1, <2>2, <1>5
<1>9. WireRight(u, r2)
  BY <1>3, <1>7, <1>8 DEF WireRight
<1> QED BY <1>9 DEF u, t

\* Nothing is sent.
LEMMA NothingSent ==
    ASSUME NEW s, NEW r, NEW r2, WireRight(s, r), \A v \in Writes : r2[v].offset = r[v].offset
    PROVE  WireRight(s, r2)
BY DEF WireRight

-----------------------------------------------------------------------------
(* The actions.                                                            *)

\* The next transfer is inside the buffer, whatever the chunk size is by now.
LEMMA NextFits ==
    ASSUME WriteInv, NEW w \in Writes, NEW size \in Nat, NEW offset \in Nat, offset <= size
    PROVE  LET x == NextTransfer(w, size, offset)
           IN  x \in Transfer /\ x.write = w /\ x.from = offset /\ x.from + x.length <= size
<1>1. writebuffer_chunksize \in Nat
  BY WriteAssumption DEF WriteInv
<1>2. ChunkAt(size, offset) \in Nat /\ offset + ChunkAt(size, offset) <= size
  BY <1>1 DEF ChunkAt
<1> QED BY <1>2 DEF NextTransfer, Transfer

\* What is known of the transfer that ends, and what its end does to the wire.
LEMMA Arrival ==
    ASSUME WriteInv, NEW t, NEW n \in 0..t.length, NEW s, Landed(t, n, s)
    PROVE  /\ t.write \in Writes /\ n \in Nat
           /\ tc[t.write].offset + n <= tc[t.write].size
           /\ \A r2 : (/\ r2[t.write].offset = tc[t.write].offset + n
                       /\ \A v \in Writes \ {t.write} : r2[v] = tc[v])
                         => WireRight(wire', r2)
<1>1. queue \in Seq(Transfer) /\ queue # << >> /\ t = Head(queue)
  BY DEF Landed, WriteInv, QueueRight
<1>2. t \in Transfer /\ t = queue[1] /\ 1 \in 1..Len(queue)
  BY <1>1, Removed
<1>3. t.write \in Writes /\ t.length \in Nat /\ n \in Nat /\ n <= t.length
  BY <1>2 DEF Transfer
<1>4. Fits(t, tc[t.write])
  BY <1>2 DEF WriteInv, QueueRight
<1>5. tc[t.write].offset \in Nat /\ tc[t.write].size \in Nat
  <2>1. tc[t.write] \in Record
    BY <1>3 DEF WriteInv
  <2> QED BY <2>1, Numbers
<1>6. wire' = wire \o [k \in 1..n |-> <<t.write, tc[t.write].offset + k>>]
  BY <1>4 DEF Landed, Fits
<1>7. ASSUME NEW r2, r2[t.write].offset = tc[t.write].offset + n,
             \A v \in Writes \ {t.write} : r2[v] = tc[v]
      PROVE  WireRight(wire', r2)
  <2>1. WireRight(wire, tc)
    BY DEF WriteInv
  <2>2. \A v \in Writes \ {t.write} : r2[v].offset = tc[v].offset
    BY <1>7
  <2>3. WireRight(wire \o [k \in 1..n |-> <<t.write, tc[t.write].offset + k>>], r2)
    BY <2>1, <2>2, <1>3, <1>5, <1>7, Sent
  <2> QED BY <2>3, <1>6
<1> QED BY <1>3, <1>4, <1>5, <1>7 DEF Fits

\* ftdi_write_data's round, from a queue that holds no transfer of w.
LEMMA GoOnRight ==
    ASSUME WriteInv, NEW w \in Writes, NEW size \in {0} \cup Sizes, NEW offset \in Nat,
           offset <= size, NEW rest, GoOn(w, size, offset, rest),
           NEW r, QueueRight(rest, r), ~Busy(r[w]), \A v \in Writes \ {w} : r[v] = tc[v]
    PROVE  /\ tc' \in [Writes -> Record] /\ \A v \in Writes : RecordRight(tc'[v])
           /\ tc'[w].offset = offset /\ \A v \in Writes \ {w} : tc'[v] = tc[v]
           /\ QueueRight(queue', tc')
<1>0. tc \in [Writes -> Record] /\ tc[w] \in Record /\ size \in Nat
  BY WriteAssumption DEF WriteInv
<1>1. CASE offset < size
  <2> DEFINE c == [tc[w] EXCEPT !.call = "sync", !.size = size, !.offset = offset]
             x == NextTransfer(w, size, offset)
  <2>1. tc' = [tc EXCEPT ![w] = c] /\ queue' = Append(rest, x)
    BY <1>0, <1>1 DEF GoOn
  <2>2. c \in Record /\ c.call = "sync" /\ c.size = size /\ c.offset = offset
    BY <1>0 DEF Record, Calls
  <2> HIDE DEF c
  <2>3. tc' \in [Writes -> Record] /\ tc'[w] = c /\ \A v \in Writes \ {w} : tc'[v] = tc[v]
    BY <1>0, <2>1, <2>2
  <2>4. x \in Transfer /\ x.write = w /\ Fits(x, c)
    BY <1>0, <2>2, NextFits DEF Fits
  <2>5. Busy(c)
    BY <2>2 DEF Busy
  <2> HIDE DEF x
  <2>6. QueueRight(queue', tc')
    <3>1. Busy(tc'[w]) /\ Fits(x, tc'[w]) /\ \A v \in Writes \ {w} : tc'[v] = r[v]
      BY <2>3, <2>4, <2>5
    <3> QED BY <2>1, <2>4, <3>1, Added
  <2>7. RecordRight(c)
    BY <2>2 DEF RecordRight
  <2> QED BY <2>2, <2>3, <2>6, <2>7 DEF WriteInv
<1>2. CASE ~(offset < size)
  <2> DEFINE c == [tc[w] EXCEPT !.call = "returned", !.size = size,
                                !.offset = offset, !.retval = offset]
  <2>1. tc' = [tc EXCEPT ![w] = c] /\ queue' = rest
    BY <1>0, <1>2 DEF GoOn
  <2>2. c \in Record /\ c.call = "returned" /\ c.offset = offset /\ c.retval = offset
    <3>1. offset \in Int /\ "returned" \in Calls
      BY DEF Calls
    <3> QED BY <1>0, <3>1 DEF Record
  <2> HIDE DEF c
  <2>3. tc' \in [Writes -> Record] /\ tc'[w] = c /\ \A v \in Writes \ {w} : tc'[v] = tc[v]
    BY <1>0, <2>1, <2>2
  <2>4. ~Busy(c)
    BY <2>2 DEF Busy, Async
  <2>5. QueueRight(queue', tc')
    BY <2>1, <2>3, <2>4, StaysIdle
  <2>6. RecordRight(c)
    BY <2>2 DEF RecordRight
  <2> QED BY <2>2, <2>3, <2>5, <2>6 DEF WriteInv
<1> QED BY <1>1, <1>2

LEMMA WriteDataKeeps ==
    ASSUME WriteInv, NEW w \in Writes, NEW n \in Sizes, WriteData(w, n)
    PROVE  WriteInv'
<1>1. tc[w].call = "new" /\ tc[w].offset = 0 /\ ~Busy(tc[w]) /\ GoOn(w, n, 0, queue)
  BY DEF WriteData, WriteInv, RecordRight, Busy, Async
<1>2. n \in Nat /\ QueueRight(queue, tc)
  BY WriteAssumption DEF WriteInv
<1>3. /\ tc' \in [Writes -> Record] /\ \A v \in Writes : RecordRight(tc'[v])
      /\ tc'[w].offset = 0 /\ \A v \in Writes \ {w} : tc'[v] = tc[v]
      /\ QueueRight(queue', tc')
  BY <1>1, <1>2, GoOnRight
<1>4. WireRight(wire, tc')
  <2>1. \A v \in Writes : tc'[v].offset = tc[v].offset
    BY <1>1, <1>3
  <2> QED BY <2>1, NothingSent DEF WriteInv
<1> QED BY <1>3, <1>4 DEF WriteInv, WriteData

LEMMA WriteSubmitKeeps ==
    ASSUME WriteInv, NEW w \in Writes, NEW n \in Sizes, WriteSubmit(w, n)
    PROVE  WriteInv'
<1> DEFINE c == [tc[w] EXCEPT !.call = "async", !.size = n]
           x == NextTransfer(w, n, 0)
<1>1. tc[w].call = "new" /\ tc[w].offset = 0 /\ ~tc[w].completed /\ ~Busy(tc[w])
  BY DEF WriteSubmit, WriteInv, RecordRight, Busy, Async
<1>2. tc \in [Writes -> Record] /\ n \in Nat
  BY WriteAssumption DEF WriteInv
<1>3. tc' = [tc EXCEPT ![w] = c] /\ queue' = Append(queue, x)
  BY <1>2 DEF WriteSubmit
<1>4. c \in Record /\ c.call = "async" /\ c.size = n /\ c.offset = 0 /\ ~c.completed
  BY <1>1, <1>2 DEF Record, Calls
<1> HIDE DEF c
<1>5. tc' \in [Writes -> Record] /\ tc'[w] = c /\ \A v \in Writes \ {w} : tc'[v] = tc[v]
  BY <1>2, <1>3, <1>4
<1>6. x \in Transfer /\ x.write = w /\ Fits(x, c)
  BY <1>2, <1>4, NextFits DEF Fits
<1> HIDE DEF x
<1>7. Busy(c) /\ RecordRight(c)
  BY <1>4 DEF Busy, Async, RecordRight
<1>8. QueueRight(queue', tc')
  <2>1. Busy(tc'[w]) /\ Fits(x, tc'[w])
    BY <1>5, <1>6, <1>7
  <2>2. QueueRight(queue, tc)
    BY DEF WriteInv
  <2> QED BY <1>1, <1>3, <1>5, <1>6, <2>1, <2>2, Added
<1>9. WireRight(wire, tc')
  <2>1. \A v \in Writes : tc'[v].offset = tc[v].offset
    BY <1>1, <1>4, <1>5
  <2> QED BY <2>1, NothingSent DEF WriteInv
<1> QED BY <1>5, <1>7, <1>8, <1>9 DEF WriteInv, WriteSubmit

\* A transfer ends and its write with it, or the write goes no further.
LEMMA EndKeeps ==
    ASSUME WriteInv, NEW t, NEW n \in 0..t.length, NEW s, Landed(t, n, s),
           queue' = Tail(queue), NEW c \in Record, tc' = [tc EXCEPT ![t.write] = c],
           ~Busy(c), c.offset = tc[t.write].offset + n, RecordRight(c)
    PROVE  WriteInv'
<1>1. t.write \in Writes /\ tc \in [Writes -> Record]
  BY Arrival DEF WriteInv
<1>2. /\ tc' \in [Writes -> Record] /\ tc'[t.write] = c
      /\ \A v \in Writes \ {t.write} : tc'[v] = tc[v]
  BY <1>1
<1>3. QueueRight(queue', tc')
  <2>1. QueueRight(queue, tc) /\ queue # << >> /\ t.write = Head(queue).write
    BY DEF WriteInv, Landed
  <2>2. ~Busy(tc'[t.write])
    BY <1>2
  <2>3. QueueRight(Tail(queue), tc')
    BY <1>1, <1>2, <2>1, <2>2, Taken
  <2> QED BY <2>3
<1>4. WireRight(wire', tc')
  <2>1. tc'[t.write].offset = tc[t.write].offset + n
    BY <1>2
  <2>2. \A v \in Writes \ {t.write} : tc'[v] = tc[v]
    BY <1>2
  <2>3. \A r2 : (/\ r2[t.write].offset = tc[t.write].offset + n
                 /\ \A v \in Writes \ {t.write} : r2[v] = tc[v])
                   => WireRight(wire', r2)
    BY Arrival
  <2> QED BY <2>1, <2>2, <2>3
<1> QED BY <1>2, <1>3, <1>4 DEF WriteInv, Landed

LEMMA SyncLandsKeeps ==
    ASSUME WriteInv, NEW t, NEW n \in 0..t.length, NEW s \in Statuses, SyncLands(t, n, s)
    PROVE  WriteInv'
<1> DEFINE w == t.write
           offset == tc[w].offset + n
<1>1. /\ w \in Writes /\ n \in Nat /\ offset <= tc[w].size /\ Landed(t, n, s)
      /\ tc \in [Writes -> Record] /\ tc[w] \in Record
  BY Arrival DEF WriteInv, SyncLands
<1>2. offset \in Nat /\ offset \in Int
  BY <1>1 DEF Record
<1>3. CASE s = "COMPLETED"
  <2> DEFINE r == [tc EXCEPT ![w].call = "returned"]
  <2>1. GoOn(w, tc[w].size, offset, Tail(queue))
    BY <1>3 DEF SyncLands
  <2>2. ~Busy(r[w]) /\ \A v \in Writes \ {w} : r[v] = tc[v]
    BY <1>1 DEF Busy, Async, Record
  <2>3. QueueRight(Tail(queue), r)
    <3>1. QueueRight(queue, tc) /\ queue # << >> /\ w = Head(queue).write
      BY <1>1 DEF WriteInv, Landed
    <3> HIDE DEF r
    <3> QED BY <1>1, <2>2, <3>1, Taken
  <2> HIDE DEF r
  <2>4. tc[w].size \in {0} \cup Sizes
    BY <1>1 DEF Record
  <2>5. /\ tc' \in [Writes -> Record] /\ \A v \in Writes : RecordRight(tc'[v])
        /\ tc'[w].offset = offset /\ \A v \in Writes \ {w} : tc'[v] = tc[v]
        /\ QueueRight(queue', tc')
    <3> HIDE DEF offset
    <3> QED BY <1>1, <1>2, <2>1, <2>2, <2>3, <2>4, GoOnRight
  <2>6. WireRight(wire', tc')
    BY <1>1, <2>5, Arrival
  <2> QED BY <1>1, <2>5, <2>6 DEF WriteInv, Landed
<1>4. CASE s # "COMPLETED"
  <2> DEFINE c == [tc[w] EXCEPT !.call = "returned", !.offset = offset, !.retval = -1]
  <2>1. tc' = [tc EXCEPT ![w] = c] /\ queue' = Tail(queue)
    BY <1>1, <1>4 DEF SyncLands
  <2>2. c \in Record /\ c.call = "returned" /\ c.offset = offset /\ c.retval = -1
    <3>1. -1 \in Int /\ "returned" \in Calls
      BY DEF Calls
    <3> HIDE DEF offset
    <3> QED BY <1>1, <1>2, <3>1 DEF Record
  <2> HIDE DEF c
  <2>3. ~Busy(c) /\ RecordRight(c)
    BY <2>2 DEF Busy, Async, RecordRight
  <2> QED BY <1>1, <2>1, <2>2, <2>3, EndKeeps
<1> QED BY <1>3, <1>4

\* What the callback does to the record of its write.
LEMMA Advanced ==
    ASSUME WriteInv, NEW t, NEW n \in 0..t.length, NEW s \in Statuses,
           NEW completed \in BOOLEAN, CbAdvance(t, n, s, completed)
    PROVE  \E c \in Record :
              /\ tc' = [tc EXCEPT ![t.write] = c] /\ RecordRight(c)
              /\ c.call \in Async /\ c.completed = completed
              /\ c.offset = tc[t.write].offset + n /\ c.size = tc[t.write].size
<1> DEFINE w == t.write
           c == [tc[w] EXCEPT !.offset = @ + n, !.status = s, !.completed = completed]
<1>1. /\ w \in Writes /\ n \in Nat /\ tc \in [Writes -> Record] /\ tc[w] \in Record
      /\ tc[w].call \in Async
  BY Arrival DEF WriteInv, CbAdvance
<1>2. tc' = [tc EXCEPT ![w] = c]
  BY <1>1 DEF CbAdvance
<1>3. /\ c \in Record /\ c.call = tc[w].call /\ c.completed = completed
      /\ c.offset = tc[w].offset + n /\ c.size = tc[w].size
  <2>1. tc[w].offset + n \in Nat
    BY <1>1 DEF Record
  <2> QED BY <1>1, <2>1 DEF Record
<1> HIDE DEF c
<1>4. RecordRight(c)
  BY <1>1, <1>3 DEF RecordRight, Async
<1> QED BY <1>1, <1>2, <1>3, <1>4

LEMMA CbCompletesKeeps ==
    ASSUME WriteInv, NEW t, NEW n \in 0..t.length, NEW s \in Statuses,
           CbCompletes(t, n, s) \/ CbGivesUp(t, n, s)
    PROVE  WriteInv'
<1>1. CbAdvance(t, n, s, TRUE) /\ queue' = Tail(queue) /\ Landed(t, n, s)
  BY DEF CbCompletes, CbGivesUp, CbAdvance
<1>2. PICK c \in Record :
          /\ tc' = [tc EXCEPT ![t.write] = c] /\ RecordRight(c)
          /\ c.call \in Async /\ c.completed = TRUE
          /\ c.offset = tc[t.write].offset + n /\ c.size = tc[t.write].size
  BY <1>1, TRUE \in BOOLEAN, Advanced
<1>3. ~Busy(c)
  BY <1>2 DEF Busy, Async
<1> QED BY <1>1, <1>2, <1>3, EndKeeps

\* The callback's transfer is taken from the queue before the next is put there;
\* between the two the write counts as completed.
LEMMA CbResubmitsKeeps ==
    ASSUME WriteInv, NEW t, NEW n \in 0..t.length, NEW s \in Statuses, CbResubmits(t, n, s)
    PROVE  WriteInv'
<1> DEFINE w == t.write
           offset == tc[w].offset + n
           x == NextTransfer(w, tc[w].size, offset)
           r == [tc EXCEPT ![w].call = "returned"]
<1>1. /\ w \in Writes /\ n \in Nat /\ offset <= tc[w].size /\ Landed(t, n, s)
      /\ tc \in [Writes -> Record] /\ tc[w] \in Record
  BY Arrival DEF WriteInv, CbResubmits, CbAdvance
<1>2. offset \in Nat /\ tc[w].size \in Nat
  BY <1>1, Numbers
<1>3. PICK c \in Record :
          /\ tc' = [tc EXCEPT ![w] = c] /\ RecordRight(c)
          /\ c.call \in Async /\ c.completed = FALSE
          /\ c.offset = offset /\ c.size = tc[w].size
  BY Advanced DEF CbResubmits
<1>4. ~Busy(r[w]) /\ \A v \in Writes \ {w} : r[v] = tc[v]
  BY <1>1 DEF Busy, Async, Record
<1>5. QueueRight(Tail(queue), r)
  <2>1. QueueRight(queue, tc) /\ queue # << >> /\ w = Head(queue).write
    BY <1>1 DEF WriteInv, Landed
  <2> HIDE DEF r
  <2> QED BY <1>1, <1>4, <2>1, Taken
<1> HIDE DEF r
<1>6. x \in Transfer /\ x.write = w /\ Fits(x, c)
  <2> HIDE DEF offset
  <2> QED BY <1>1, <1>2, <1>3, NextFits DEF Fits
<1>7. queue' = Append(Tail(queue), x)
  BY DEF CbResubmits
<1> HIDE DEF x
<1>8. /\ tc' \in [Writes -> Record] /\ tc'[w] = c
      /\ \A v \in Writes \ {w} : tc'[v] = tc[v] /\ tc'[v] = r[v]
  BY <1>1, <1>3, <1>4
<1>9. QueueRight(queue', tc')
  <2>1. Busy(tc'[w]) /\ Fits(x, tc'[w])
    BY <1>3, <1>6, <1>8 DEF Busy
  <2> QED BY <1>1, <1>4, <1>5, <1>6, <1>7, <1>8, <2>1, Added
<1>10. WireRight(wire', tc')
  <2>1. tc'[w].offset = tc[w].offset + n /\ \A v \in Writes \ {w} : tc'[v] = tc[v]
    BY <1>3, <1>8
  <2> QED BY <1>1, <2>1, Arrival
<1> QED BY <1>1, <1>3, <1>8, <1>9, <1>10 DEF WriteInv, Landed

\* ftdi_transfer_data_done: where the write has got to is not touched, and it has
\* a transfer in flight afterwards if it had one before.
LEMMA DoneKeeps ==
    ASSUME WriteInv, NEW w \in Writes, Done(w) \/ EventsFail(w) \/ DoneCancelled(w) \/ Abandon(w)
    PROVE  WriteInv'
<1>1. PICK call \in Calls, value \in Int :
          /\ End(w, call, value)
          /\ call # "new"
          /\ call = "returned" => value = tc[w].offset \/ value = -1
          /\ Busy(tc[w]) <=> call # "returned"
          /\ call = "cancelling" => ~tc[w].completed
          /\ call \in {"returned", "cancelling", "freed"}
  <2>0. tc[w] \in Record
    BY DEF WriteInv
  <2>1. CASE Done(w)
    <3>1. End(w, "returned", Result(w)) /\ ~Busy(tc[w])
      BY <2>1 DEF Done, Complete, Busy, Async
    <3>2. Result(w) \in Int /\ (Result(w) = tc[w].offset \/ Result(w) = -1)
      BY <2>0 DEF Result, Record
    <3> QED BY <3>1, <3>2 DEF Calls
  <2>2. CASE EventsFail(w)
    BY <2>2 DEF EventsFail, Complete, Busy, Async, Calls
  <2>3. CASE DoneCancelled(w)
    BY <2>3 DEF DoneCancelled, Complete, Busy, Async, Calls
  <2>4. CASE Abandon(w)
    BY <2>4 DEF Abandon, Complete, Busy, Async, Calls
  <2> QED BY <2>1, <2>2, <2>3, <2>4
<1> DEFINE c == [tc[w] EXCEPT !.call = call, !.retval = value]
<1>2. tc \in [Writes -> Record] /\ tc[w] \in Record /\ QueueRight(queue, tc)
  BY DEF WriteInv
<1>3. tc' = [tc EXCEPT ![w] = c] /\ UNCHANGED <<writebuffer_chunksize, queue, wire>>
  BY <1>1, <1>2 DEF End
<1>4. /\ c \in Record /\ c.call = call /\ c.retval = value /\ c.offset = tc[w].offset
      /\ c.size = tc[w].size /\ c.completed = tc[w].completed
  BY <1>2 DEF Record
<1> HIDE DEF c
<1>5. /\ tc' \in [Writes -> Record] /\ tc'[w] = c
      /\ \A v \in Writes \ {w} : tc'[v] = tc[v]
  BY <1>2, <1>3, <1>4
<1>6. RecordRight(c)
  BY <1>1, <1>4 DEF RecordRight
<1>7. Busy(c) <=> call # "returned"
  BY <1>1, <1>4 DEF Busy, Async
<1>8. QueueRight(queue, tc')
  <2>1. CASE call = "returned"
    <3>1. ~Busy(tc[w]) /\ ~Busy(tc'[w])
      BY <1>1, <1>5, <1>7, <2>1
    <3> QED BY <1>2, <1>5, <3>1, StaysIdle
  <2>2. CASE call # "returned"
    <3>1. Busy(tc[w]) /\ Busy(tc'[w]) /\ tc'[w].offset = tc[w].offset /\ tc'[w].size = tc[w].size
      BY <1>1, <1>4, <1>5, <1>7, <2>2
    <3> QED BY <1>2, <1>5, <3>1, StaysBusy
  <2> QED BY <2>1, <2>2
<1>9. WireRight(wire, tc')
  <2>1. \A v \in Writes : tc'[v].offset = tc[v].offset
    BY <1>4, <1>5
  <2> QED BY <2>1, NothingSent DEF WriteInv
<1> QED BY <1>3, <1>5, <1>6, <1>8, <1>9 DEF WriteInv

-----------------------------------------------------------------------------
LEMMA WriteInit == Init => WriteInv
<1> SUFFICES ASSUME Init PROVE WriteInv
  OBVIOUS
<1> DEFINE c == [call |-> "new", size |-> 0, offset |-> 0, completed |-> FALSE,
                 status |-> "failed", retval |-> 0]
<1>1. c \in Record /\ RecordRight(c) /\ ~Busy(c) /\ c.offset = 0
  BY DEF Record, RecordRight, Busy, Calls, Statuses, Async
<1> HIDE DEF c
<1>2. tc \in [Writes -> Record] /\ \A w \in Writes : tc[w] = c
  BY <1>1 DEF Init, c
<1>3. /\ << >> \in Seq(Transfer) /\ << >> \in Seq(Writes \X Nat)
      /\ Len(<< >>) = 0
  BY EmptySeq, LenProperties
<1>4. \A k : k \notin 1..Len(<< >>)
  BY <1>3
<1>5. QueueRight(queue, tc)
  BY <1>1, <1>2, <1>3, <1>4 DEF Init, QueueRight, Places
<1>6. WireRight(wire, tc)
  <2>1. 1..0 = {}
    OBVIOUS
  <2>2. \A w \in Writes : Of(<< >>, w) = {}
    BY <1>4 DEF Of
  <2> QED BY <1>1, <1>2, <1>3, <1>4, <2>1, <2>2 DEF Init, WireRight
<1> QED BY <1>1, <1>2, <1>5, <1>6 DEF Init, WriteInv

LEMMA WriteStep == WriteInv /\ [Next]_vars => WriteInv'
<1> SUFFICES ASSUME WriteInv, [Next]_vars PROVE WriteInv'
  OBVIOUS
<1>1. ASSUME NEW w \in Writes, NEW n \in Sizes, WriteData(w, n) \/ WriteSubmit(w, n)
      PROVE  WriteInv'
  BY <1>1, WriteDataKeeps, WriteSubmitKeeps
<1>2. CASE Landing
  <2>1. PICK n \in 0..Head(queue).length, s \in Statuses : Lands(Head(queue), n, s)
    BY <1>2 DEF Landing
  <2> QED BY <2>1, SyncLandsKeeps, CbCompletesKeeps, CbResubmitsKeeps DEF Lands
<1>3. ASSUME NEW w \in Writes, Done(w) \/ EventsFail(w) \/ DoneCancelled(w) \/ Abandon(w)
      PROVE  WriteInv'
  BY <1>3, DoneKeeps
<1>4. ASSUME NEW c \in ChunkSizes, SetChunkSize(c)
      PROVE  WriteInv'
  BY <1>4 DEF SetChunkSize, WriteInv
<1>5. CASE UNCHANGED vars
  BY <1>5 DEF vars, WriteInv
<1> QED BY <1>1, <1>2, <1>3, <1>4, <1>5 DEF Next

LEMMA Invariance == Spec => []WriteInv
BY WriteInit, WriteStep, PTL DEF Spec

-----------------------------------------------------------------------------
\* The records of the writes, the transfers and the bytes sent keep their types.
THEOREM WriteTypes == Spec => []TypeOK
<1>1. WriteInv => TypeOK
  BY DEF WriteInv, TypeOK, QueueRight, WireRight, Record, Transfer
<1> QED BY <1>1, Invariance, PTL

\* Every write arrives as a prefix of its buffer, in order and without repetition, and
\* its offset says how long that prefix is: for any number of synchronous and
\* asynchronous writes at a time, failures in the middle of a chunk, and any chunk
\* sizes set in between.
THEOREM BytesInOrder == Spec => []PrefixOnWire
<1>1. WriteInv => PrefixOnWire
  BY DEF WriteInv, PrefixOnWire, WireRight, Of, OnWire
<1> QED BY <1>1, Invariance, PTL

\* No transfer reaches past the client's buffer or starts elsewhere than where its
\* write has got to.
THEOREM TransfersInside == Spec => []InsideBuffer
<1>1. WriteInv => InsideBuffer
  BY DEF WriteInv, InsideBuffer, QueueRight, Fits
<1> QED BY <1>1, Invariance, PTL

\* A write in progress has one transfer with libusb and a completed one none, so that
\* ftdi_transfer_data_done never frees one that is in flight when it finds completed set.
THEOREM TransfersUnique == Spec => []OneTransferEach
<1>1. WriteInv => OneTransferEach
  BY DEF WriteInv, OneTransferEach, QueueRight, Busy, One, Places, Transfers
<1> QED BY <1>1, Invariance, PTL

\* A count that a write returns is the count of bytes the chip got of it.
THEOREM ResultsTruthful == Spec => []ReturnExact
<1>1. WriteInv => ReturnExact
  <2> SUFFICES ASSUME WriteInv, NEW w \in Writes, tc[w].call = "returned", tc[w].retval >= 0
               PROVE  OnWire(w) = 1..tc[w].retval
    BY DEF ReturnExact
  <2>1. tc[w].retval = tc[w].offset
    BY DEF WriteInv, RecordRight
  <2>2. OnWire(w) = Of(wire, w)
    BY DEF OnWire, Of
  <2> QED BY <2>1, <2>2 DEF WriteInv, WireRight
<1> QED BY <1>1, Invariance, PTL
=============================================================================
