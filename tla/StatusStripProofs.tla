------------------------- MODULE StatusStripProofs -------------------------
(***************************************************************************)
(* The strip loop is correct for every packet size above two and every     *)
(* transfer length.  The invariant says how far the compaction has come:   *)
(* the packets before i are packed, every cell from where packet i will be *)
(* packed to on still holds what was received in it.                       *)
(***************************************************************************)
EXTENDS StatusStrip, TLAPS

\* In buffer b with r received bytes, the packets before n are packed.
PackedUpTo(b, p, r, n) == \A q \in Nat, j \in 0..p-3 :
    q < n /\ PayloadCell(p, q, j) < r => b[PackedCell(p, q, j)] = PayloadCell(p, q, j)

\* Cells from n on are as received.
UntouchedFrom(b, r, n) == \A k \in n .. r-1 : b[k] = k

InvStart == pc = "start" => /\ readbuffer_offset = 0
                            /\ actual_length = received
                            /\ UntouchedFrom(readbuffer, received, 0)

InvChunks == pc = "chunks" =>
    /\ received > packet_size
    /\ readbuffer_offset = 2
    /\ actual_length = received - 2
    /\ i \in 1..num_of_chunks
    /\ PackedUpTo(readbuffer, packet_size, received, i)
    /\ UntouchedFrom(readbuffer, received, PackedCell(packet_size, i, 0))

InvDone == pc = "done" /\ received > 2 =>
    /\ readbuffer_offset = 2
    /\ actual_length = PayloadLength(packet_size, received)
    /\ PackedUpTo(readbuffer, packet_size, received, num_of_chunks + 1)

StripInv == TypeOK /\ InvStart /\ InvChunks /\ InvDone

-----------------------------------------------------------------------------
\* Division as the C code uses it, on non-negative operands.
LEMMA ChunkArithmetic ==
  ASSUME NEW n \in Nat, NEW p \in Nat, p > 0
  PROVE  /\ n = p * (n \div p) + (n % p)
         /\ n \div p \in Nat
         /\ n % p \in 0..(p - 1)
OBVIOUS

\* A packet ends before the next one starts.
LEMMA NextPacket ==
  ASSUME NEW a \in Nat, NEW b \in Nat, NEW p \in Nat, a < b
  PROVE  p * a + p <= p * b
<1>1. p * (b - (a + 1)) >= 0
  OBVIOUS
<1>2. p * (b - (a + 1)) = p * b - p * a - p
  OBVIOUS
<1> QED BY <1>1, <1>2

\* All the multiplication the proof needs: where packets start, before and
\* after packing.  Later steps use these facts and not the products.
LEMMA PayloadCells ==
  ASSUME NEW p \in Nat, NEW q \in Nat, NEW j \in Nat, p > 2
  PROVE  /\ PayloadCell(p, q, j) \in Nat
         /\ PayloadCell(p, q, j) = PayloadCell(p, q, 0) + j
         /\ PayloadCell(p, 0, j) = 2 + j
         /\ PayloadCell(p, q, 0) = p * q + 2
BY DEF PayloadCell, StatusLength

LEMMA PackedCells ==
  ASSUME NEW p \in Nat, NEW q \in Nat, NEW j \in Nat, p > 2
  PROVE  /\ PackedCell(p, q, j) \in Nat
         /\ PackedCell(p, q, j) = PackedCell(p, q, 0) + j
         /\ PackedCell(p, 0, j) = 2 + j
         /\ PackedCell(p, q, j) <= PayloadCell(p, q, j)
         /\ PackedCell(p, q + 1, 0) = PackedCell(p, q, 0) + (p - 2)
<1>1. (p - 2) * q = p * q - 2 * q /\ (p - 2) * q \in Nat
  OBVIOUS
<1>2. (p - 2) * (q + 1) = (p - 2) * q + (p - 2)
  OBVIOUS
<1> QED BY <1>1, <1>2 DEF PackedCell, PayloadCell, StatusLength

LEMMA PacketOrder ==
  ASSUME NEW p \in Nat, NEW q \in Nat, NEW n \in Nat, p > 2, q < n
  PROVE  /\ PackedCell(p, q, 0) + (p - 2) <= PackedCell(p, n, 0)
         /\ PayloadCell(p, q, 0) + p <= PayloadCell(p, n, 0)
<1>1. p - 2 \in Nat
  OBVIOUS
<1>2. (p - 2) * q + (p - 2) <= (p - 2) * n
  BY <1>1, NextPacket
<1>3. p * q + p <= p * n
  BY NextPacket
<1>4. /\ p * q \in Nat /\ p * n \in Nat
      /\ (p - 2) * q \in Nat /\ (p - 2) * n \in Nat
  BY <1>1
<1> QED BY <1>2, <1>3, <1>4 DEF PackedCell, PayloadCell, StatusLength

\* c is b after n cells were moved from src to dst.
Moved(c, b, r, dst, src, n) == \A k \in 0..r-1 :
    /\ dst <= k /\ k < dst + n => c[k] = b[src + (k - dst)]
    /\ k < dst \/ k >= dst + n => c[k] = b[k]

\* A move whose source lies inside the transfer keeps the buffer's type and
\* changes the destination's cells only.
LEMMA MemmoveEffect ==
  ASSUME NEW r \in Nat, NEW b \in [0..r-1 -> 0..r-1],
         NEW dst \in Nat, NEW src \in Nat, NEW n \in Nat, NEW c,
         dst <= src, src + n <= r,
         c = Memmove(b, dst, src, n)
  PROVE  /\ c \in [0..r-1 -> 0..r-1]
         /\ Moved(c, b, r, dst, src, n)
<1>1. DOMAIN b = 0..r-1
  OBVIOUS
<1>2. \A k \in 0..r-1 : k \in dst .. dst+n-1 <=> dst <= k /\ k < dst + n
  OBVIOUS
<1>3. \A k \in 0..r-1 : k \in dst .. dst+n-1 => src + (k - dst) \in 0..r-1
  OBVIOUS
<1> QED BY <1>1, <1>2, <1>3 DEF Memmove, Moved

\* The same facts about places, as one packet's move uses them.
LEMMA Places ==
  ASSUME NEW p \in Nat, NEW n \in Nat, p > 2
  PROVE  /\ PackedCell(p, n, 0) \in Nat
         /\ PayloadCell(p, n, 0) \in Nat
         /\ PackedCell(p, n, 0) <= PayloadCell(p, n, 0)
         /\ \A q \in Nat, j \in 0..p-3 :
               q < n => /\ PackedCell(p, q, j) \in Nat
                        /\ PackedCell(p, q, j) < PackedCell(p, n, 0)
<1>1. /\ PackedCell(p, n, 0) \in Nat
      /\ PayloadCell(p, n, 0) \in Nat
      /\ PackedCell(p, n, 0) <= PayloadCell(p, n, 0)
  BY PackedCells, PayloadCells
<1>2. ASSUME NEW q \in Nat, NEW j \in 0..p-3, q < n
      PROVE  PackedCell(p, q, j) \in Nat /\ PackedCell(p, q, j) < PackedCell(p, n, 0)
  <2>0. j \in Nat /\ 0 \in Nat
    OBVIOUS
  <2>1. /\ PackedCell(p, q, j) = PackedCell(p, q, 0) + j
        /\ PackedCell(p, q, j) \in Nat
        /\ PackedCell(p, q, 0) \in Nat
    BY <2>0, PackedCells
  <2>2. PackedCell(p, q, 0) + (p - 2) <= PackedCell(p, n, 0)
    BY <1>2, PacketOrder
  <2> QED BY <1>1, <2>1, <2>2
<1> QED BY <1>1, <1>2

\* Packet n, of which len data bytes arrived, has joined the packed ones; what
\* lies behind its new place is as received.
PacketPacked(c, p, r, n, len) ==
    /\ c \in [0..r-1 -> 0..r-1]
    /\ PackedUpTo(c, p, r, n)
    /\ \A j \in 0..len-1 : c[PackedCell(p, n, j)] = PayloadCell(p, n, j)
    /\ UntouchedFrom(c, r, PackedCell(p, n, 0) + len)

\* One memmove of the loop does that, when its source lies inside the transfer.
LEMMA PackOnePacket ==
  ASSUME NEW p \in Nat, NEW r \in Nat, NEW b \in [0..r-1 -> 0..r-1],
         NEW n \in Nat, NEW len \in 1..p-2, NEW dst \in Nat, NEW src \in Nat, NEW c,
         p > 2,
         dst = PackedCell(p, n, 0),
         src = PayloadCell(p, n, 0),
         src + len <= r,
         PackedUpTo(b, p, r, n),
         UntouchedFrom(b, r, dst),
         c = Memmove(b, dst, src, len)
  PROVE  PacketPacked(c, p, r, n, len)
<1>1. /\ dst <= src
      /\ \A q \in Nat, j \in 0..p-3 :
            q < n => PackedCell(p, q, j) \in Nat /\ PackedCell(p, q, j) < dst
      /\ \A j \in 0..len-1 :
            PackedCell(p, n, j) = dst + j /\ PayloadCell(p, n, j) = src + j
  <2>1. dst <= src
    BY Places
  <2>2. ASSUME NEW q \in Nat, NEW j \in 0..p-3, q < n
        PROVE  PackedCell(p, q, j) \in Nat /\ PackedCell(p, q, j) < dst
    BY <2>2, Places
  <2>3. ASSUME NEW j \in 0..len-1
        PROVE  PackedCell(p, n, j) = dst + j /\ PayloadCell(p, n, j) = src + j
    <3>1. j \in Nat
      OBVIOUS
    <3>2. PackedCell(p, n, j) = PackedCell(p, n, 0) + j
      BY <3>1, PackedCells
    <3>3. PayloadCell(p, n, j) = PayloadCell(p, n, 0) + j
      BY <3>1, PayloadCells
    <3> QED BY <3>2, <3>3
  <2> QED BY <2>1, <2>2, <2>3
<1>2. len \in Nat /\ dst <= src
  BY <1>1
<1>3. c \in [0..r-1 -> 0..r-1]
  BY <1>2, MemmoveEffect
<1>4. Moved(c, b, r, dst, src, len)
  BY <1>2, MemmoveEffect
<1>5. PackedUpTo(c, p, r, n)
  <2> SUFFICES ASSUME NEW q \in Nat, NEW j \in 0..p-3, q < n, PayloadCell(p, q, j) < r
               PROVE  c[PackedCell(p, q, j)] = PayloadCell(p, q, j)
    BY DEF PackedUpTo
  <2>1. b[PackedCell(p, q, j)] = PayloadCell(p, q, j)
    BY DEF PackedUpTo
  <2>2. PackedCell(p, q, j) \in 0..r-1 /\ PackedCell(p, q, j) < dst
    BY <1>1, <1>2
  <2> QED BY <1>1, <1>4, <2>1, <2>2 DEF Moved
<1>6. ASSUME NEW j \in 0..len-1 PROVE c[dst + j] = src + j
  <2>0. j \in Nat /\ j < len
    BY <1>2
  <2>1. dst + j \in 0..r-1 /\ dst <= dst + j /\ dst + j < dst + len
    BY ONLY dst \in Nat, src \in Nat, r \in Nat, <1>2, <2>0, src + len <= r
  <2>3. src + ((dst + j) - dst) = src + j /\ src + j \in dst..r-1
    BY ONLY dst \in Nat, src \in Nat, r \in Nat, <1>2, <2>0, src + len <= r
  <2>2. c[dst + j] = b[src + j]
    BY <1>4, <2>1, <2>3 DEF Moved
  <2> QED BY <2>3, <2>2 DEF UntouchedFrom
<1>7. UntouchedFrom(c, r, dst + len)
  <2> SUFFICES ASSUME NEW k \in dst + len .. r-1 PROVE c[k] = k
    BY DEF UntouchedFrom
  <2>1. k \in 0..r-1 /\ k \in dst..r-1 /\ k >= dst + len
    BY <1>2
  <2>2. c[k] = b[k]
    BY <1>4, <2>1 DEF Moved
  <2>3. b[k] = k
    BY <2>1 DEF UntouchedFrom
  <2> QED BY <2>2, <2>3
<1> QED BY <1>1, <1>3, <1>5, <1>6, <1>7 DEF PacketPacked

\* The facts about the locals num_of_chunks and chunk_remains every step uses.
LEMMA ChunkFacts ==
  ASSUME TypeOK
  PROVE  /\ packet_size \in Nat /\ packet_size > 2
         /\ received \in Nat
         /\ num_of_chunks \in Nat
         /\ chunk_remains \in 0..(packet_size - 1)
         /\ received = packet_size * num_of_chunks + chunk_remains
<1>1. packet_size \in Nat /\ packet_size > 2 /\ received \in Nat
  BY StripAssumption DEF TypeOK, StatusLength
<1> QED BY <1>1, ChunkArithmetic DEF num_of_chunks, chunk_remains, NumOfChunks, ChunkRemains

-----------------------------------------------------------------------------
LEMMA StripInit == Init => StripInv
<1> SUFFICES ASSUME Init PROVE StripInv
  OBVIOUS
<1>1. received \in Nat
  BY StripAssumption DEF Init
<1>2. TypeOK
  BY <1>1 DEF Init, TypeOK
<1> QED BY <1>1, <1>2 DEF Init, StripInv, InvStart, InvChunks, InvDone, UntouchedFrom

\* How many packets a transfer of at most one packet has, and its data length.
LEMMA OnePacketLength ==
  ASSUME TypeOK, received > 2, received <= packet_size
  PROVE  /\ PayloadLength(packet_size, received) = received - 2
         /\ \A q \in Nat, j \in Nat :
               PayloadCell(packet_size, q, j) < received => q = 0
<1> DEFINE p == packet_size
           r == received
<1>1. /\ p \in Nat /\ p > 2 /\ r \in Nat
      /\ num_of_chunks \in Nat /\ chunk_remains \in 0..(p-1)
      /\ r = p * num_of_chunks + chunk_remains
  BY ChunkFacts
<1>2. ASSUME NEW q \in Nat, NEW j \in Nat, PayloadCell(p, q, j) < r
      PROVE  q = 0
  <2>1. PayloadCell(p, q, j) = p * q + 2 + j
    BY <1>1 DEF PayloadCell, StatusLength
  <2>2. ~(0 < q)
    <3> SUFFICES ASSUME 0 < q PROVE FALSE
      OBVIOUS
    <3>1. p * 0 + p <= p * q
      BY <1>1, NextPacket
    <3>2. p * q \in Nat
      BY <1>1
    <3> QED BY <1>1, <1>2, <2>1, <3>1, <3>2
  <2> QED BY <2>2
<1>3. CASE r = p
  <2>1. num_of_chunks = 1 /\ chunk_remains = 0
    BY <1>1, <1>3 DEF num_of_chunks, chunk_remains, NumOfChunks, ChunkRemains
  <2> QED BY <1>1, <1>2, <1>3, <2>1
      DEF PayloadLength, num_of_chunks, chunk_remains, StatusLength
<1>4. CASE r < p
  <2>1. num_of_chunks = 0 /\ chunk_remains = r
    BY <1>1, <1>4 DEF num_of_chunks, chunk_remains, NumOfChunks, ChunkRemains
  <2> QED BY <1>1, <1>2, <1>4, <2>1
      DEF PayloadLength, num_of_chunks, chunk_remains, StatusLength
<1> QED BY <1>1, <1>3, <1>4

LEMMA StatusOnlyStep == StripInv /\ StatusOnly => StripInv'
BY DEF StripInv, TypeOK, InvStart, InvChunks, InvDone, StatusOnly, HasData, StatusLength

LEMMA SkipStatusStep == StripInv /\ SkipStatus => StripInv'
<1> SUFFICES ASSUME StripInv, SkipStatus PROVE StripInv'
  OBVIOUS
<1> DEFINE p == packet_size
           r == received
<1>1. /\ p \in Nat /\ p > 2 /\ r \in Nat
      /\ num_of_chunks \in Nat /\ chunk_remains \in 0..(p-1)
      /\ r = p * num_of_chunks + chunk_remains
  BY ChunkFacts DEF StripInv
<1>2. /\ r > 2
      /\ readbuffer_offset' = 2
      /\ actual_length' = r - 2
      /\ i' = 1
      /\ UNCHANGED <<packet_size, received, readbuffer>>
      /\ pc' = IF r > p THEN "chunks" ELSE "done"
  BY <1>1 DEF StripInv, TypeOK, InvStart, SkipStatus, HasData, StatusLength
<1>3. \A k \in 0..r-1 : readbuffer[k] = k
  BY DEF StripInv, InvStart, SkipStatus, UntouchedFrom
<1>4. TypeOK'
  BY <1>1, <1>2 DEF StripInv, TypeOK, StatusLength
<1>5. num_of_chunks' = num_of_chunks
  BY <1>2 DEF num_of_chunks
<1>6. CASE r > p
  <2>1. num_of_chunks >= 1
    <3>1. num_of_chunks = 0 => p * num_of_chunks = 0
      BY <1>1
    <3> QED BY <1>1, <1>6, <3>1
  <2>2. PackedUpTo(readbuffer, p, r, 1)
    <3> SUFFICES ASSUME NEW j \in 0..p-3, PayloadCell(p, 0, j) < r
                 PROVE  readbuffer[PackedCell(p, 0, j)] = PayloadCell(p, 0, j)
      BY DEF PackedUpTo
    <3>1. PackedCell(p, 0, j) = 2 + j /\ PayloadCell(p, 0, j) = 2 + j
      BY <1>1, PackedCells, PayloadCells
    <3> QED BY <1>1, <1>3, <3>1
  <2>3. UntouchedFrom(readbuffer, r, PackedCell(p, 1, 0))
    <3>1. PackedCell(p, 1, 0) \in Nat
      BY <1>1, PackedCells
    <3> QED BY <1>1, <1>3, <3>1 DEF UntouchedFrom
  <2>4. InvChunks'
    BY <1>1, <1>2, <1>5, <1>6, <2>1, <2>2, <2>3 DEF InvChunks
  <2> QED BY <1>2, <1>4, <1>6, <2>4 DEF StripInv, InvStart, InvDone
<1>7. CASE ~(r > p)
  <2>1. /\ PayloadLength(p, r) = r - 2
        /\ \A q \in Nat, j \in Nat : PayloadCell(p, q, j) < r => q = 0
    BY <1>1, <1>2, <1>7, OnePacketLength DEF StripInv
  <2>2. PackedUpTo(readbuffer, p, r, num_of_chunks + 1)
    <3> SUFFICES ASSUME NEW q \in Nat, NEW j \in 0..p-3, PayloadCell(p, q, j) < r
                 PROVE  readbuffer[PackedCell(p, q, j)] = PayloadCell(p, q, j)
      BY DEF PackedUpTo
    <3>1. j \in Nat /\ q = 0
      BY <2>1
    <3>2. PackedCell(p, q, j) = 2 + j /\ PayloadCell(p, q, j) = 2 + j
      BY <1>1, <3>1, PackedCells, PayloadCells
    <3> QED BY <1>1, <1>3, <3>1, <3>2
  <2>3. InvDone'
    BY <1>2, <1>5, <2>1, <2>2 DEF InvDone
  <2> QED BY <1>2, <1>4, <1>7, <2>3 DEF StripInv, InvStart, InvChunks
<1> QED BY <1>6, <1>7

LEMMA MoveChunkStep == StripInv /\ MoveChunk => StripInv'
<1> SUFFICES ASSUME StripInv, MoveChunk PROVE StripInv'
  OBVIOUS
<1> DEFINE p == packet_size
           r == received
           num == num_of_chunks
           dst == PackedCell(p, i, 0)
           src == PayloadCell(p, i, 0)
<1>1. /\ p \in Nat /\ p > 2 /\ r \in Nat /\ num \in Nat
      /\ chunk_remains \in 0..(p-1)
      /\ r = p * num + chunk_remains
  BY ChunkFacts DEF StripInv
<1>2. /\ r > p /\ readbuffer_offset = 2 /\ actual_length = r - 2
      /\ i \in 1..num /\ i < num /\ i \in Nat
      /\ PackedUpTo(readbuffer, p, r, i) /\ UntouchedFrom(readbuffer, r, dst)
      /\ readbuffer \in [0..r-1 -> 0..r-1]
  BY DEF StripInv, TypeOK, InvChunks, MoveChunk, MoreChunks
<1>3. /\ readbuffer' = Memmove(readbuffer, dst, src, p - 2)
      /\ i' = i + 1
      /\ pc = "chunks"
      /\ UNCHANGED <<packet_size, received, readbuffer_offset, actual_length, pc>>
  BY <1>1, <1>2 DEF MoveChunk, Destination, Source, PackedCell, PayloadCell, StatusLength
<1>4. src + (p - 2) <= r
  <2>1. src + p <= PayloadCell(p, num, 0)
    BY <1>1, <1>2, PacketOrder
  <2>2. PayloadCell(p, num, 0) = p * num + 2
    BY <1>1, PayloadCells
  <2>3. p * num \in Nat /\ src \in Nat
    BY <1>1, <1>2, PayloadCells
  <2> QED BY <1>1, <2>1, <2>2, <2>3
<1>5. dst \in Nat /\ src \in Nat /\ p - 2 \in 1..p-2
  BY <1>1, <1>2, PackedCells, PayloadCells
<1>6. /\ readbuffer' \in [0..r-1 -> 0..r-1]
      /\ PackedUpTo(readbuffer', p, r, i)
      /\ \A j \in 0..p-3 : readbuffer'[PackedCell(p, i, j)] = PayloadCell(p, i, j)
      /\ UntouchedFrom(readbuffer', r, dst + (p - 2))
  <2>1. PacketPacked(readbuffer', p, r, i, p - 2)
    BY <1>1, <1>2, <1>3, <1>4, <1>5, PackOnePacket
  <2> QED BY <1>1, <2>1 DEF PacketPacked
<1>7. PackedUpTo(readbuffer', p, r, i + 1)
  <2> SUFFICES ASSUME NEW q \in Nat, NEW j \in 0..p-3, q < i + 1, PayloadCell(p, q, j) < r
               PROVE  readbuffer'[PackedCell(p, q, j)] = PayloadCell(p, q, j)
    BY DEF PackedUpTo
  <2>1. CASE q = i
    BY <1>1, <1>6, <2>1
  <2>2. CASE q < i
    BY <1>6, <2>2 DEF PackedUpTo
  <2> QED BY <1>2, <2>1, <2>2
<1>8. PackedCell(p, i + 1, 0) = dst + (p - 2)
  BY <1>1, <1>2, PackedCells
<1>9. TypeOK'
  BY <1>2, <1>3, <1>6 DEF StripInv, TypeOK
<1>10. InvChunks'
  <2>1. num_of_chunks' = num
    BY <1>3 DEF num_of_chunks
  <2> QED BY <1>1, <1>2, <1>3, <1>6, <1>7, <1>8, <2>1 DEF InvChunks
<1> QED BY <1>3, <1>9, <1>10 DEF StripInv, InvStart, InvDone

LEMMA MoveTailStep == StripInv /\ MoveTail => StripInv'
<1> SUFFICES ASSUME StripInv, MoveTail PROVE StripInv'
  OBVIOUS
<1> DEFINE p == packet_size
           r == received
           num == num_of_chunks
           rem == chunk_remains
           dst == PackedCell(p, num, 0)
           src == PayloadCell(p, num, 0)
<1>1. /\ p \in Nat /\ p > 2 /\ r \in Nat /\ num \in Nat
      /\ rem \in 0..(p-1)
      /\ r = p * num + rem
  BY ChunkFacts DEF StripInv
<1>2. /\ r > p /\ readbuffer_offset = 2 /\ actual_length = r - 2
      /\ i = num
      /\ PackedUpTo(readbuffer, p, r, num) /\ UntouchedFrom(readbuffer, r, dst)
      /\ readbuffer \in [0..r-1 -> 0..r-1]
      /\ rem > 2
  BY <1>1 DEF StripInv, TypeOK, InvChunks, MoveTail, MoreChunks, TailLength, StatusLength
<1>3. /\ readbuffer' = Memmove(readbuffer, dst, src, rem - 2)
      /\ actual_length' = r - 2 - 2 * num
      /\ pc' = "done"
      /\ UNCHANGED <<packet_size, received, readbuffer_offset, i>>
  BY <1>1, <1>2 DEF MoveTail, TailLength, Destination, Source, PackedCell, PayloadCell,
                    StatusLength
<1>4. src + (rem - 2) <= r
  <2>1. src = p * num + 2 /\ p * num \in Nat
    BY <1>1, PayloadCells
  <2> QED BY <1>1, <2>1
<1>5. dst \in Nat /\ src \in Nat /\ rem - 2 \in 1..p-2
  BY <1>1, <1>2, PackedCells, PayloadCells
<1>6. PacketPacked(readbuffer', p, r, num, rem - 2)
  BY <1>1, <1>2, <1>3, <1>4, <1>5, PackOnePacket
<1>7. PackedUpTo(readbuffer', p, r, num + 1)
  <2> SUFFICES ASSUME NEW q \in Nat, NEW j \in 0..p-3, q < num + 1, PayloadCell(p, q, j) < r
               PROVE  readbuffer'[PackedCell(p, q, j)] = PayloadCell(p, q, j)
    BY DEF PackedUpTo
  <2>1. CASE q = num
    <3>1. PayloadCell(p, num, j) = p * num + 2 + j /\ p * num \in Nat
      BY <1>1 DEF PayloadCell, StatusLength
    <3>2. j \in 0..(rem-2)-1
      BY <1>1, <2>1, <3>1
    <3> QED BY <1>6, <2>1, <3>2 DEF PacketPacked
  <2>2. CASE q < num
    BY <1>6, <2>2 DEF PacketPacked, PackedUpTo
  <2> QED BY <1>1, <2>1, <2>2
<1>8. actual_length' = PayloadLength(p, r)
  <2>1. PayloadLength(p, r) = num * (p - 2) + (rem - 2)
    BY <1>2 DEF PayloadLength, num_of_chunks, chunk_remains, StatusLength
  <2>2. num * (p - 2) = p * num - 2 * num
    BY <1>1
  <2> QED BY <1>1, <1>3, <2>1, <2>2
<1>9. actual_length' \in Nat
  <2>1. (p - 2) * num \in Nat /\ (p - 2) * num = p * num - 2 * num /\ p * num \in Nat
    BY <1>1
  <2>2. actual_length' = (p - 2) * num + (rem - 2)
    BY <1>1, <1>3, <2>1
  <2>3. rem - 2 \in Nat
    BY <1>1, <1>2
  <2> QED BY <2>1, <2>2, <2>3
<1>10. TypeOK'
  BY <1>3, <1>6, <1>9 DEF StripInv, TypeOK, PacketPacked
<1>11. InvDone'
  <2>1. num_of_chunks' = num
    BY <1>3 DEF num_of_chunks
  <2> QED BY <1>2, <1>3, <1>7, <1>8, <2>1 DEF InvDone
<1> QED BY <1>3, <1>10, <1>11 DEF StripInv, InvStart, InvChunks

LEMMA DropTailStep == StripInv /\ DropTail => StripInv'
<1> SUFFICES ASSUME StripInv, DropTail PROVE StripInv'
  OBVIOUS
<1> DEFINE p == packet_size
           r == received
           num == num_of_chunks
           rem == chunk_remains
<1>1. /\ p \in Nat /\ p > 2 /\ r \in Nat /\ num \in Nat
      /\ rem \in 0..(p-1)
      /\ r = p * num + rem
  BY ChunkFacts DEF StripInv
<1>2. /\ r > p /\ readbuffer_offset = 2 /\ actual_length = r - 2
      /\ i = num
      /\ PackedUpTo(readbuffer, p, r, num)
      /\ rem <= 2
  BY <1>1 DEF StripInv, TypeOK, InvChunks, DropTail, MoreChunks, TailLength, StatusLength
<1>3. /\ actual_length' = r - 2 - (2 * (num - 1) + rem)
      /\ pc' = "done"
      /\ UNCHANGED <<packet_size, received, readbuffer, readbuffer_offset, i>>
  BY <1>2 DEF DropTail, TailStatus, StatusLength
<1>4. PackedUpTo(readbuffer, p, r, num + 1)
  <2> SUFFICES ASSUME NEW q \in Nat, NEW j \in 0..p-3, q < num + 1, PayloadCell(p, q, j) < r
               PROVE  readbuffer[PackedCell(p, q, j)] = PayloadCell(p, q, j)
    BY DEF PackedUpTo
  <2>1. q # num
    <3>1. PayloadCell(p, num, j) = p * num + 2 + j /\ p * num \in Nat
      BY <1>1 DEF PayloadCell, StatusLength
    <3> QED BY <1>1, <1>2, <3>1
  <2>2. q < num
    BY <1>1, <2>1
  <2> QED BY <1>2, <2>2 DEF PackedUpTo
<1>5. actual_length' = PayloadLength(p, r) /\ actual_length' \in Nat
  <2>1. PayloadLength(p, r) = num * (p - 2)
    <3>1. num * (p - 2) \in Nat
      BY <1>1
    <3> QED BY <1>1, <1>2, <3>1 DEF PayloadLength, num_of_chunks, chunk_remains, StatusLength
  <2>2. num * (p - 2) = p * num - 2 * num /\ num * (p - 2) \in Nat
    BY <1>1
  <2> QED BY <1>1, <1>3, <2>1, <2>2
<1>6. TypeOK'
  BY <1>3, <1>5 DEF StripInv, TypeOK
<1>7. InvDone'
  <2>1. num_of_chunks' = num
    BY <1>3 DEF num_of_chunks
  <2> QED BY <1>2, <1>3, <1>4, <1>5, <2>1 DEF InvDone
<1> QED BY <1>3, <1>6, <1>7 DEF StripInv, InvStart, InvChunks

\* The strengthening is an invariant of the loop.
THEOREM StripInvariant == Spec => []StripInv
<1>1. StripInv /\ [Next]_vars => StripInv'
  <2> SUFFICES ASSUME StripInv, [Next]_vars PROVE StripInv'
    OBVIOUS
  <2>1. CASE UNCHANGED vars
    BY <2>1 DEF vars, StripInv, TypeOK, InvStart, InvChunks, InvDone, PackedUpTo,
                UntouchedFrom, num_of_chunks
  <2> QED BY <2>1, StatusOnlyStep, SkipStatusStep, MoveChunkStep, MoveTailStep, DropTailStep
      DEF Next
<1> QED BY <1>1, StripInit, PTL DEF Spec

\* The loop keeps its variables in range: the length it computes by
\* subtraction never becomes negative and every moved byte stays in the buffer.
THEOREM StripTypeCorrect == Spec => []TypeOK
BY StripInvariant, PTL DEF StripInv

\* For every packet size and transfer length, the caller finds exactly the
\* data bytes, in order, at readbuffer_offset.
THEOREM StripCorrect == Spec => []Stripped
<1>1. StripInv => Stripped
  <2> SUFFICES ASSUME StripInv, pc = "done", received > 2,
                      NEW q \in 0..num_of_chunks, NEW j \in 0..packet_size - 2 - 1,
                      PayloadCell(packet_size, q, j) < received
               PROVE  readbuffer[PackedCell(packet_size, q, j)]
                        = PayloadCell(packet_size, q, j)
    BY DEF Stripped, StatusLength
  <2>1. num_of_chunks \in Nat /\ packet_size \in Nat
    BY ChunkFacts DEF StripInv
  <2>2. q \in Nat /\ q < num_of_chunks + 1 /\ j \in 0..packet_size - 3
    BY <2>1
  <2>3. PackedUpTo(readbuffer, packet_size, received, num_of_chunks + 1)
    BY DEF StripInv, InvDone
  <2> QED BY <2>2, <2>3 DEF PackedUpTo
<1> QED BY <1>1, StripInvariant, PTL

\* and the length it is told is their number.
THEOREM StripLengthExact == Spec => []LengthExact
<1>1. StripInv => LengthExact
  BY DEF StripInv, InvDone, LengthExact, StatusLength
<1> QED BY <1>1, StripInvariant, PTL

\* No memmove of the loop reads a byte this transfer did not bring.
THEOREM StripMovesInside == Spec => []MovesInside
<1>1. StripInv => MovesInside
  <2> SUFFICES ASSUME StripInv, pc = "chunks" PROVE MovesInside
    BY DEF MovesInside
  <2> DEFINE p == packet_size
             num == num_of_chunks
  <2>1. /\ p \in Nat /\ p > 2 /\ received \in Nat /\ num \in Nat
        /\ chunk_remains \in 0..(p-1)
        /\ received = p * num + chunk_remains
    BY ChunkFacts DEF StripInv
  <2>2. i \in 1..num /\ Source = p * i + 2 /\ p * i \in Nat /\ p * num \in Nat
    BY <2>1 DEF StripInv, InvChunks, Source
  <2>3. ASSUME i < num PROVE p * i + p <= p * num
    BY <2>1, <2>2, <2>3, NextPacket
  <2>4. MoreChunks => Source + p - 2 <= received
    BY <2>1, <2>2, <2>3 DEF MoreChunks
  <2>5. ~MoreChunks /\ TailLength > 0 => Source + TailLength <= received
    BY <2>1, <2>2 DEF MoreChunks, TailLength, StatusLength
  <2> QED BY <2>4, <2>5 DEF MovesInside, StatusLength
<1> QED BY <1>1, StripInvariant, PTL
=============================================================================
