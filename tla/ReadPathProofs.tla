--------------------------- MODULE ReadPathProofs ---------------------------
(***************************************************************************)
(* The read path keeps its promises for every packet size above two, every *)
(* chunk size and every sequence of reads; and it implements the byte      *)
(* stream of module ByteStream, so the client receives the chip's bytes in *)
(* order.                                                                  *)
(***************************************************************************)
EXTENDS ReadPath, SequenceTheorems, TLAPS

StreamProofs == INSTANCE ByteStreamProofs WITH queue <- Held

\* Leftover lies inside what the last transfer brought.
LeftoverInside == readbuffer_offset + readbuffer_remaining <= Len(readbuffer)

\* What the state of a read says about its control block and its buffer.
RequestShape ==
    /\ mode \in {"idle", "freed"} => data = << >>
    /\ mode \in {"idle", "freed", "sync"} => transfer = "null" /\ ~completed
    /\ mode \in {"async", "cancelling"} => (completed <=> transfer # "inflight")
    /\ mode = "sync" \/ transfer = "inflight" => Len(data) < size

ReadInv == /\ TypeOK
           /\ LeftoverInside
           /\ Conservation
           /\ BufferAligned
           /\ NeverReached
           /\ RequestShape

-----------------------------------------------------------------------------
(* Lengths.                                                                *)

\* A transfer brings data exactly when it is longer than the status bytes.
LEMMA PayloadFacts ==
  ASSUME NEW m \in Nat
  PROVE  /\ Payload(m) \in Nat
         /\ m <= StatusLength => Payload(m) = 0
         /\ m > StatusLength => Payload(m) > 0
<1> DEFINE q == m \div PacketSize
           r == m % PacketSize
           d == PacketSize - 2
           p == q * d
           t == IF r > 2 THEN r - 2 ELSE 0
<1>1. PacketSize \in Nat /\ PacketSize > 2 /\ d \in Nat /\ d > 0
  BY ReadAssumption DEF StatusLength
<1>2. q \in Nat /\ r \in Nat /\ r < PacketSize /\ m = q * PacketSize + r
  BY <1>1, SMTT(30)
<1>3. m < PacketSize => q = 0 /\ r = m
  BY <1>1, SMTT(30)
<1>4. m >= PacketSize => q > 0
  BY <1>1, <1>2, SMTT(30)
<1>5. p \in Nat /\ (q = 0 => p = 0) /\ (q > 0 => p > 0)
  <2> HIDE DEF q, d
  <2> QED BY <1>1, <1>2, SMTT(30)
<1>6. Payload(m) = p + t
  BY DEF Payload, PayloadLength, NumOfChunks, ChunkRemains, StatusLength
<1>7. t \in Nat /\ (r <= 2 => t = 0) /\ (r > 2 => t > 0)
  <2> HIDE DEF r
  <2> QED BY <1>2
<1> HIDE DEF q, r, d, p, t
<1> QED BY <1>1, <1>2, <1>3, <1>4, <1>5, <1>6, <1>7 DEF StatusLength

\* What arrives, with and without its status bytes.
LEMMA NewBytesFacts ==
  ASSUME NEW m \in Nat, TypeOK
  PROVE  /\ NewBytes(m) \in Seq(Nat)
         /\ Len(NewBytes(m)) = Payload(m)
         /\ Received(m) \in Seq(Nat)
         /\ Len(Received(m)) = StatusLength + Payload(m)
<1>1. Payload(m) \in Nat /\ sent \in Nat
  BY PayloadFacts DEF TypeOK
<1>2. NewBytes(m) \in Seq(Nat) /\ Len(NewBytes(m)) = Payload(m)
  BY <1>1, StreamProofs!CountUp DEF NewBytes
<1> DEFINE z == <<0, 0>>
<1>3. z \in Seq(Nat) /\ Len(z) = 2
  OBVIOUS
<1>4. Received(m) = z \o NewBytes(m)
  BY DEF Received
<1> HIDE DEF z
<1>5. Received(m) \in Seq(Nat) /\ Len(Received(m)) = Len(z) + Len(NewBytes(m))
  BY <1>2, <1>3, <1>4, StreamProofs!ConcatLength
<1> QED BY <1>1, <1>2, <1>3, <1>5 DEF StatusLength

\* What is left over, and any front of it.
LEMMA LeftoverFacts ==
  ASSUME NEW n \in Nat, TypeOK, LeftoverInside, n <= readbuffer_remaining
  PROVE  /\ BufferBytes(readbuffer_offset, n) \in Seq(Nat)
         /\ Len(BufferBytes(readbuffer_offset, n)) = n
<1>1. /\ readbuffer \in Seq(Nat) /\ Len(readbuffer) \in Nat
      /\ readbuffer_offset \in Nat /\ readbuffer_remaining \in Nat
  BY LenProperties DEF TypeOK
<1>2. readbuffer_offset + n <= Len(readbuffer)
  BY <1>1 DEF LeftoverInside
<1> QED BY <1>1, <1>2, StreamProofs!Stretch DEF BufferBytes

LEMMA LeftoverLength ==
  ASSUME TypeOK, LeftoverInside
  PROVE  Leftover \in Seq(Nat) /\ Len(Leftover) = readbuffer_remaining
<1>1. readbuffer_remaining \in Nat /\ readbuffer_remaining <= readbuffer_remaining
  BY DEF TypeOK
<1> QED BY <1>1, LeftoverFacts DEF Leftover

\* What arrives, after what the read has gathered.
LEMMA GatheredFacts ==
  ASSUME NEW m \in Nat, TypeOK
  PROVE  /\ data \o NewBytes(m) \in Seq(Nat)
         /\ Len(data \o NewBytes(m)) = Len(data) + Payload(m)
<1>1. NewBytes(m) \in Seq(Nat) /\ Len(NewBytes(m)) = Payload(m)
  BY NewBytesFacts
<1>2. data \in Seq(Nat)
  BY DEF TypeOK
<1> QED BY <1>1, <1>2, StreamProofs!ConcatLength

\* What is handed to the client comes after what it already has.
LEMMA DeliveredFacts ==
  ASSUME NEW b \in Seq(Nat), TypeOK
  PROVE  /\ delivered \o b \in Seq(Nat)
         /\ Len(delivered \o b) = Len(delivered) + Len(b)
<1>1. delivered \in Seq(Nat)
  BY DEF TypeOK
<1> QED BY <1>1, StreamProofs!ConcatLength

\* The invariant in numbers.
LEMMA Numbers ==
  ASSUME ReadInv
  PROVE  /\ readbuffer_offset \in Nat /\ readbuffer_remaining \in Nat
         /\ size \in Nat /\ sent \in Nat /\ discarded \in Nat
         /\ Len(readbuffer) \in Nat /\ Len(data) \in Nat /\ Len(delivered) \in Nat
         /\ readbuffer_offset + readbuffer_remaining <= Len(readbuffer)
         /\ Len(delivered) + Len(data) + readbuffer_remaining + discarded = sent
         /\ Len(<< >>) = 0 /\ << >> \in Seq(Nat)
BY LenProperties, EmptySeq DEF ReadInv, TypeOK, LeftoverInside, Conservation

\* A transfer is only ever under way on an empty buffer, in an unfinished read.
LEMMA UnderWay ==
  ASSUME ReadInv, mode = "sync" \/ transfer = "inflight"
  PROVE  /\ readbuffer_offset = 0 /\ readbuffer_remaining = 0
         /\ Len(data) < size
         /\ transfer = "inflight" => mode \in {"async", "cancelling"}
BY DEF ReadInv, TypeOK, BufferAligned, NeverReached, RequestShape

\* What is wanted of a transfer that brings more.
LEMMA WantedFacts ==
  ASSUME NEW m \in Nat, ReadInv, TooMuch(m), mode = "sync" \/ transfer = "inflight"
  PROVE  /\ Payload(m) \in Nat /\ Wanted \in 0..Payload(m) /\ Wanted \in Nat
         /\ Len(data) + Wanted = size
         /\ data \o SubSeq(NewBytes(m), 1, Wanted) \in Seq(Nat)
         /\ Len(data \o SubSeq(NewBytes(m), 1, Wanted)) = Len(data) + Wanted
<1>1. /\ Payload(m) \in Nat /\ Wanted \in 0..Payload(m) /\ Wanted \in Nat
      /\ Len(data) + Wanted = size
  <2>1. Payload(m) \in Nat
    BY PayloadFacts
  <2>2. size \in Nat /\ Len(data) \in Nat /\ Len(data) < size
    BY Numbers, UnderWay
  <2> QED BY <2>1, <2>2 DEF TooMuch, Wanted
<1> DEFINE w == Wanted
           x == NewBytes(m)
           y == SubSeq(x, 1, w)
<1>2. x \in Seq(Nat) /\ Len(x) = Payload(m) /\ data \in Seq(Nat)
  BY NewBytesFacts DEF ReadInv, TypeOK
<1>3. w \in Nat /\ 0 + w = w /\ 0 + 1 = 1 /\ 0 + w <= Len(x)
  BY <1>1, <1>2
<1>4. y \in Seq(Nat) /\ Len(y) = w
  <2> DEFINE z == SubSeq(x, 0 + 1, 0 + w)
  <2>1. z \in Seq(Nat) /\ Len(z) = w
    <3> HIDE DEF x, w
    <3> QED BY <1>2, <1>3, StreamProofs!Stretch
  <2> QED BY <1>3, <2>1
<1>5. data \o y \in Seq(Nat) /\ Len(data \o y) = Len(data) + w
  <2> HIDE DEF y
  <2> QED BY <1>2, <1>4, StreamProofs!ConcatLength
<1> QED BY <1>1, <1>5

-----------------------------------------------------------------------------
(* The invariant, action by action: the types, the step in numbers, and    *)
(* what follows from it.                                                   *)

LEMMA ReadFromBufferKeeps ==
  ASSUME NEW n \in Nat, ReadInv, ReadFromBuffer(n)
  PROVE  ReadInv'
<1>1. delivered' \in Seq(Nat) /\ Len(delivered') = Len(delivered) + n
  BY LeftoverFacts, DeliveredFacts DEF ReadInv, ReadFromBuffer, Return
<1>2. /\ readbuffer_offset' = readbuffer_offset + n
      /\ readbuffer_remaining' = readbuffer_remaining - n
      /\ n <= readbuffer_remaining
      /\ readbuffer' = readbuffer /\ sent' = sent /\ discarded' = discarded
      /\ data = << >> /\ data' = << >> /\ size' = 0
  BY DEF ReadInv, RequestShape, ReadFromBuffer, TakeFromBuffer, Return
<1>3. TypeOK'
  BY <1>1, <1>2, Numbers DEF ReadInv, TypeOK, ReadFromBuffer, Return, control
<1>4. LeftoverInside' /\ Conservation'
  BY <1>1, <1>2, Numbers DEF LeftoverInside, Conservation
<1>5. BufferAligned' /\ NeverReached' /\ RequestShape'
  BY DEF ReadInv, BufferAligned, NeverReached, RequestShape, ReadFromBuffer, Return, control
<1> QED BY <1>3, <1>4, <1>5 DEF ReadInv

LEMMA ReadStartKeeps ==
  ASSUME NEW n \in Nat, ReadInv, ReadStart(n)
  PROVE  ReadInv'
<1>1. data' \in Seq(Nat) /\ Len(data') = readbuffer_remaining
  BY LeftoverLength DEF ReadInv, ReadStart
<1>2. /\ readbuffer_offset' = 0 /\ readbuffer_remaining' = 0
      /\ readbuffer_remaining < n /\ size' = n
      /\ readbuffer' = readbuffer /\ sent' = sent /\ discarded' = discarded
      /\ delivered' = delivered /\ data = << >>
  BY Numbers DEF ReadInv, RequestShape, ReadStart, StartTransfer, EmptyBuffer
<1>3. TypeOK'
  BY <1>1, <1>2 DEF ReadInv, TypeOK, ReadStart, control
<1>4. LeftoverInside' /\ Conservation'
  BY <1>1, <1>2, Numbers DEF LeftoverInside, Conservation
<1>5. BufferAligned' /\ NeverReached' /\ RequestShape'
  BY <1>1, <1>2, Numbers DEF ReadInv, BufferAligned, NeverReached, RequestShape, ReadStart,
     control
<1> QED BY <1>3, <1>4, <1>5 DEF ReadInv

LEMMA ReadShortKeeps ==
  ASSUME NEW m \in Nat, ReadInv, ReadShort(m)
  PROVE  ReadInv'
<1> DEFINE p == Payload(m)
<1>1. p = 0
  BY PayloadFacts DEF ReadShort, StatusOnly
<1>2. delivered' \in Seq(Nat) /\ Len(delivered') = Len(delivered) + Len(data)
  BY DeliveredFacts DEF ReadInv, TypeOK, ReadShort, Return
<1>3. /\ readbuffer' = readbuffer /\ readbuffer_offset' = readbuffer_offset
      /\ readbuffer_remaining' = readbuffer_remaining
      /\ sent' = sent + p /\ discarded' = discarded /\ data' = << >> /\ size' = 0
  BY DEF ReadShort, Return, Arrive, buffer
<1> HIDE DEF p
<1>4. TypeOK'
  BY <1>1, <1>2, <1>3, Numbers DEF ReadInv, TypeOK, ReadShort, Return, control
<1>5. LeftoverInside' /\ Conservation'
  BY <1>1, <1>2, <1>3, Numbers DEF LeftoverInside, Conservation
<1>6. BufferAligned' /\ NeverReached' /\ RequestShape'
  BY DEF ReadInv, BufferAligned, NeverReached, RequestShape, ReadShort, Return, control
<1> QED BY <1>4, <1>5, <1>6 DEF ReadInv

LEMMA ReadMoreKeeps ==
  ASSUME NEW m \in Nat, ReadInv, ReadMore(m)
  PROVE  ReadInv'
<1> DEFINE p == Payload(m)
<1>1. /\ p \in Nat /\ p > 0
      /\ Len(data) + p < size
  <2>1. p \in Nat /\ (m > StatusLength => p > 0)
    BY PayloadFacts
  <2> HIDE DEF p
  <2>2. m > StatusLength /\ p < size - Len(data)
    BY DEF ReadMore, LoopsAgain, TooLittle, Wanted, StatusOnly, StatusLength, p
  <2> QED BY <2>1, <2>2, Numbers
<1>2. mode' = "sync"
  BY <1>1 DEF ReadMore
<1>3. data' \in Seq(Nat) /\ Len(data') = Len(data) + p
  BY GatheredFacts DEF ReadInv, ReadMore, Gathered
<1>4. readbuffer' \in Seq(Nat) /\ Len(readbuffer') = 2 + p
  BY NewBytesFacts DEF ReadInv, ReadMore, StatusLength
<1>5. /\ readbuffer_offset' = 0 /\ readbuffer_remaining' = 0
      /\ readbuffer_remaining = 0
      /\ sent' = sent + p /\ discarded' = discarded /\ size' = size
      /\ delivered' = delivered
  BY UnderWay DEF ReadMore, StartTransfer, EmptyBuffer, Arrive
<1> HIDE DEF p
<1>6. TypeOK'
  BY <1>1, <1>2, <1>3, <1>4, <1>5, Numbers DEF ReadInv, TypeOK, ReadMore, control
<1>7. LeftoverInside' /\ Conservation'
  BY <1>1, <1>3, <1>4, <1>5, Numbers DEF LeftoverInside, Conservation
<1>8. BufferAligned' /\ NeverReached' /\ RequestShape'
  BY <1>1, <1>2, <1>3, <1>5, Numbers
     DEF ReadInv, BufferAligned, NeverReached, RequestShape, ReadMore, control
<1> QED BY <1>6, <1>7, <1>8 DEF ReadInv

LEMMA ReadExactKeeps ==
  ASSUME NEW m \in Nat, ReadInv, ReadExact(m)
  PROVE  ReadInv'
<1> DEFINE p == Payload(m)
<1>1. p \in Nat
  BY PayloadFacts
<1>2. /\ delivered' \in Seq(Nat)
      /\ Len(delivered') = Len(delivered) + (Len(data) + p)
  BY GatheredFacts, DeliveredFacts DEF ReadInv, ReadExact, Return, Gathered
<1>3. readbuffer' \in Seq(Nat) /\ Len(readbuffer') = 2 + p
  BY NewBytesFacts DEF ReadInv, ReadExact, StatusLength
<1>4. /\ readbuffer_offset' = 2 /\ readbuffer_remaining' = 0 /\ readbuffer_remaining = 0
      /\ sent' = sent + p /\ discarded' = discarded /\ size' = 0
      /\ data' = << >>
  BY UnderWay DEF ReadExact, Return, Arrive, StatusLength
<1> HIDE DEF p
<1>5. TypeOK'
  BY <1>1, <1>2, <1>3, <1>4, Numbers DEF ReadInv, TypeOK, ReadExact, Return, control
<1>6. LeftoverInside' /\ Conservation'
  BY <1>1, <1>2, <1>3, <1>4, Numbers DEF LeftoverInside, Conservation
<1>7. BufferAligned' /\ NeverReached' /\ RequestShape'
  BY DEF ReadInv, BufferAligned, NeverReached, RequestShape, ReadExact, Return, control
<1> QED BY <1>5, <1>6, <1>7 DEF ReadInv

LEMMA ReadPartKeeps ==
  ASSUME NEW m \in Nat, ReadInv, ReadPart(m)
  PROVE  ReadInv'
<1> DEFINE p == Payload(m)
<1>1. p \in Nat /\ Wanted \in 0..p /\ Wanted \in Nat
  BY WantedFacts DEF ReadPart
<1>2. /\ delivered' \in Seq(Nat)
      /\ Len(delivered') = Len(delivered) + (Len(data) + Wanted)
  BY WantedFacts, DeliveredFacts DEF ReadInv, ReadPart, Return
<1>3. readbuffer' \in Seq(Nat) /\ Len(readbuffer') = 2 + p
  BY NewBytesFacts DEF ReadInv, ReadPart, KeepRest, StatusLength
<1>4. /\ readbuffer_offset' = 2 + Wanted /\ readbuffer_remaining' = p - Wanted
      /\ readbuffer_remaining = 0
      /\ sent' = sent + p /\ discarded' = discarded /\ size' = 0
      /\ data' = << >>
  BY UnderWay DEF ReadPart, KeepRest, Return, Arrive, StatusLength
<1> HIDE DEF p
<1>5. TypeOK'
  BY <1>1, <1>2, <1>3, <1>4, Numbers DEF ReadInv, TypeOK, ReadPart, Return, control
<1>6. LeftoverInside' /\ Conservation'
  BY <1>1, <1>2, <1>3, <1>4, Numbers DEF LeftoverInside, Conservation
<1>7. BufferAligned' /\ NeverReached' /\ RequestShape'
  BY DEF ReadInv, BufferAligned, NeverReached, RequestShape, ReadPart, Return, control
<1> QED BY <1>5, <1>6, <1>7 DEF ReadInv

LEMMA ReadFailsKeeps ==
  ASSUME NEW m \in Nat, ReadInv, ReadFails(m)
  PROVE  ReadInv'
<1> DEFINE p == Payload(m)
<1>1. p \in Nat
  BY PayloadFacts
<1>2. readbuffer' \in Seq(Nat) /\ Len(readbuffer') = 2 + p
  BY NewBytesFacts DEF ReadInv, ReadFails, StatusLength
<1>3. /\ readbuffer_offset' = 0 /\ readbuffer_remaining' = 0 /\ readbuffer_remaining = 0
      /\ sent' = sent + p /\ size' = 0
      /\ discarded' = discarded + (Len(data) + p)
      /\ data' = << >> /\ delivered' = delivered
  BY UnderWay DEF ReadFails, Drop, Arrive
<1> HIDE DEF p
<1>4. TypeOK'
  BY <1>1, <1>2, <1>3, Numbers DEF ReadInv, TypeOK, ReadFails, Drop, control
<1>5. LeftoverInside'
  BY <1>1, <1>2, <1>3 DEF LeftoverInside
<1>6. Conservation'
  BY <1>1, <1>3, Numbers DEF Conservation
<1>7. BufferAligned' /\ NeverReached' /\ RequestShape'
  BY DEF ReadInv, BufferAligned, NeverReached, RequestShape, ReadFails, Drop, control
<1> QED BY <1>4, <1>5, <1>6, <1>7 DEF ReadInv

LEMMA SubmitFromBufferKeeps ==
  ASSUME NEW n \in Nat, ReadInv, SubmitFromBuffer(n)
  PROVE  ReadInv'
<1>1. data' \in Seq(Nat) /\ Len(data') = n
  BY LeftoverFacts DEF ReadInv, SubmitFromBuffer
<1>2. /\ readbuffer_offset' = readbuffer_offset + n
      /\ readbuffer_remaining' = readbuffer_remaining - n
      /\ n <= readbuffer_remaining
      /\ readbuffer' = readbuffer /\ sent' = sent /\ discarded' = discarded
      /\ data = << >> /\ size' = n /\ delivered' = delivered
  BY DEF ReadInv, RequestShape, SubmitFromBuffer, TakeFromBuffer
<1>3. TypeOK'
  BY <1>1, <1>2, Numbers DEF ReadInv, TypeOK, SubmitFromBuffer
<1>4. LeftoverInside' /\ Conservation'
  BY <1>1, <1>2, Numbers DEF LeftoverInside, Conservation
<1>5. BufferAligned' /\ NeverReached' /\ RequestShape'
  BY DEF ReadInv, BufferAligned, NeverReached, RequestShape, SubmitFromBuffer
<1> QED BY <1>3, <1>4, <1>5 DEF ReadInv

LEMMA SubmitKeeps ==
  ASSUME NEW n \in Nat, ReadInv, Submit(n)
  PROVE  ReadInv'
<1>1. data' \in Seq(Nat) /\ Len(data') = readbuffer_remaining
  BY LeftoverLength DEF ReadInv, Submit
<1>2. /\ readbuffer_offset' = 0 /\ readbuffer_remaining' = 0
      /\ readbuffer_remaining < n /\ size' = n
      /\ readbuffer' = readbuffer /\ sent' = sent /\ discarded' = discarded
      /\ delivered' = delivered /\ data = << >>
  BY Numbers DEF ReadInv, RequestShape, Submit, StartTransfer, EmptyBuffer
<1>3. TypeOK'
  BY <1>1, <1>2 DEF ReadInv, TypeOK, Submit
<1>4. LeftoverInside' /\ Conservation'
  BY <1>1, <1>2, Numbers DEF LeftoverInside, Conservation
<1>5. BufferAligned' /\ NeverReached' /\ RequestShape'
  BY <1>1, <1>2, Numbers DEF ReadInv, BufferAligned, NeverReached, RequestShape, Submit
<1> QED BY <1>3, <1>4, <1>5 DEF ReadInv

LEMMA SubmitFailsKeeps ==
  ASSUME NEW n \in Nat, ReadInv, SubmitFails(n)
  PROVE  ReadInv'
<1>1. /\ readbuffer_offset' = 0 /\ readbuffer_remaining' = 0 /\ size' = 0
      /\ readbuffer' = readbuffer /\ sent' = sent
      /\ discarded' = discarded + readbuffer_remaining
      /\ delivered' = delivered /\ data = << >> /\ data' = << >>
  BY DEF ReadInv, RequestShape, SubmitFails, Drop, EmptyBuffer
<1>2. TypeOK'
  BY <1>1, Numbers DEF ReadInv, TypeOK, SubmitFails, Drop, control
<1>3. LeftoverInside' /\ Conservation'
  BY <1>1, Numbers DEF LeftoverInside, Conservation
<1>4. BufferAligned' /\ NeverReached' /\ RequestShape'
  BY <1>1 DEF ReadInv, BufferAligned, NeverReached, RequestShape, SubmitFails, Drop, control
<1> QED BY <1>2, <1>3, <1>4 DEF ReadInv

\* What every landing transfer leaves alone.
LEMMA LandedFacts ==
  ASSUME NEW m \in Nat, NEW s \in Statuses, ReadInv, Landed(m, s)
  PROVE  /\ Payload(m) \in Nat
         /\ readbuffer_remaining = 0 /\ Len(data) < size
         /\ readbuffer' \in Seq(Nat) /\ Len(readbuffer') = 2 + Payload(m)
         /\ sent' = sent + Payload(m) /\ discarded' = discarded /\ delivered' = delivered
         /\ size' = size /\ status' \in Statuses
         /\ readbuffer_chunksize' = readbuffer_chunksize
         /\ mode' = mode /\ mode \in {"async", "cancelling"}
<1>1. Payload(m) \in Nat
  BY PayloadFacts
<1>2. readbuffer' \in Seq(Nat) /\ Len(readbuffer') = 2 + Payload(m)
  BY NewBytesFacts DEF ReadInv, Landed, StatusLength
<1>3. /\ readbuffer_remaining = 0 /\ Len(data) < size
      /\ mode \in {"async", "cancelling"}
  BY UnderWay DEF Landed
<1> QED BY <1>1, <1>2, <1>3 DEF Landed, Arrive

LEMMA CbMoreKeeps ==
  ASSUME NEW m \in Nat, NEW s \in Statuses, ReadInv, CbMore(m, s)
  PROVE  ReadInv'
<1> DEFINE p == Payload(m)
<1>1. /\ p \in Nat /\ readbuffer_remaining = 0
      /\ readbuffer' \in Seq(Nat) /\ Len(readbuffer') = 2 + p
      /\ sent' = sent + p /\ discarded' = discarded /\ delivered' = delivered
      /\ size' = size /\ status' \in Statuses
      /\ readbuffer_chunksize' = readbuffer_chunksize
      /\ mode' = mode /\ mode \in {"async", "cancelling"}
  BY LandedFacts DEF CbMore
<1>2. data' \in Seq(Nat) /\ Len(data') = Len(data) + p
  BY GatheredFacts DEF ReadInv, CbMore
<1>3. Len(data) + p < size
  <2>1. StatusOnly(m) => p = 0
    BY PayloadFacts DEF StatusOnly
  <2>2. Len(data) < size
    BY LandedFacts DEF CbMore
  <2>3. p = 0 \/ p < size - Len(data)
    BY <2>1 DEF CbMore, TooLittle, Wanted
  <2>4. p \in Nat /\ Len(data) \in Nat /\ size \in Nat
    BY <1>1, Numbers
  <2> HIDE DEF p
  <2> QED BY <2>2, <2>3, <2>4
<1>4. /\ readbuffer_offset' = 0 /\ readbuffer_remaining' = 0
      /\ \/ transfer' = "inflight" /\ completed' = FALSE
         \/ transfer' = "landed" /\ completed' = TRUE
  BY <1>1 DEF ReadInv, RequestShape, CbMore, Landed, EmptyBuffer
<1> HIDE DEF p
<1>5. TypeOK'
  <2>1. transfer' \in {"null", "inflight", "landed"} /\ completed' \in BOOLEAN
    BY <1>4
  <2> QED BY <1>1, <1>2, <1>4, <2>1, Numbers DEF ReadInv, TypeOK
<1>6. LeftoverInside'
  BY <1>1, <1>4 DEF LeftoverInside
<1>7. Conservation'
  BY <1>1, <1>2, <1>4, Numbers DEF Conservation
<1>8. BufferAligned' /\ NeverReached' /\ RequestShape'
  BY <1>1, <1>2, <1>3, <1>4, Numbers DEF BufferAligned, NeverReached, RequestShape
<1> QED BY <1>5, <1>6, <1>7, <1>8 DEF ReadInv

LEMMA CbExactKeeps ==
  ASSUME NEW m \in Nat, NEW s \in Statuses, ReadInv, CbExact(m, s)
  PROVE  ReadInv'
<1> DEFINE p == Payload(m)
<1>1. /\ p \in Nat /\ readbuffer_remaining = 0
      /\ readbuffer' \in Seq(Nat) /\ Len(readbuffer') = 2 + p
      /\ sent' = sent + p /\ discarded' = discarded /\ delivered' = delivered
      /\ size' = size /\ status' \in Statuses
      /\ readbuffer_chunksize' = readbuffer_chunksize
      /\ mode' = mode /\ mode \in {"async", "cancelling"}
  BY LandedFacts DEF CbExact
<1>2. data' \in Seq(Nat) /\ Len(data') = Len(data) + p
  BY GatheredFacts DEF ReadInv, CbExact
<1>3. /\ readbuffer_offset' = 0 /\ readbuffer_remaining' = 0
      /\ transfer' = "landed" /\ completed' = TRUE
  BY DEF CbExact, EmptyBuffer
<1> HIDE DEF p
<1>4. TypeOK'
  BY <1>1, <1>2, <1>3, Numbers DEF ReadInv, TypeOK
<1>5. LeftoverInside'
  BY <1>1, <1>3 DEF LeftoverInside
<1>6. Conservation'
  BY <1>1, <1>2, <1>3, Numbers DEF Conservation
<1>7. BufferAligned' /\ NeverReached' /\ RequestShape'
  BY <1>1, <1>3 DEF BufferAligned, NeverReached, RequestShape
<1> QED BY <1>4, <1>5, <1>6, <1>7 DEF ReadInv

LEMMA CbPartKeeps ==
  ASSUME NEW m \in Nat, NEW s \in Statuses, ReadInv, CbPart(m, s)
  PROVE  ReadInv'
<1> DEFINE p == Payload(m)
<1>1. /\ p \in Nat /\ readbuffer_remaining = 0
      /\ readbuffer' \in Seq(Nat) /\ Len(readbuffer') = 2 + p
      /\ sent' = sent + p /\ discarded' = discarded /\ delivered' = delivered
      /\ size' = size /\ status' \in Statuses
      /\ readbuffer_chunksize' = readbuffer_chunksize
      /\ mode' = mode /\ mode \in {"async", "cancelling"}
  BY LandedFacts DEF CbPart
<1>2. Wanted \in 0..p /\ Wanted \in Nat
  BY WantedFacts DEF CbPart, Landed
<1>3. data' \in Seq(Nat) /\ Len(data') = Len(data) + Wanted
  BY WantedFacts DEF CbPart, Landed
<1>4. /\ readbuffer_offset' = 2 + Wanted /\ readbuffer_remaining' = p - Wanted
      /\ transfer' = "landed" /\ completed' = TRUE
  BY DEF CbPart, KeepRest, StatusLength
<1> HIDE DEF p
<1>5. TypeOK'
  BY <1>1, <1>2, <1>3, <1>4, Numbers DEF ReadInv, TypeOK
<1>6. LeftoverInside'
  BY <1>1, <1>2, <1>4 DEF LeftoverInside
<1>7. Conservation'
  BY <1>1, <1>2, <1>3, <1>4, Numbers DEF Conservation
<1>8. BufferAligned' /\ NeverReached' /\ RequestShape'
  BY <1>1, <1>4 DEF BufferAligned, NeverReached, RequestShape
<1> QED BY <1>5, <1>6, <1>7, <1>8 DEF ReadInv

LEMMA DoneKeeps ==
  ASSUME ReadInv, Done
  PROVE  ReadInv'
<1>1. /\ readbuffer' = readbuffer /\ readbuffer_offset' = readbuffer_offset
      /\ readbuffer_remaining' = readbuffer_remaining
      /\ sent' = sent /\ size' = 0 /\ data' = << >> /\ mode' = "idle"
      /\ readbuffer_chunksize' = readbuffer_chunksize
      /\ completed' = FALSE /\ transfer' = "null" /\ status' = "none"
  BY DEF Done, Return, Drop, FreeControl, buffer
<1>2. \/ delivered' = delivered \o data /\ discarded' = discarded
      \/ delivered' = delivered /\ discarded' = discarded + Len(data)
  BY DEF Done, Return, Drop
<1>3. data \in Seq(Nat) /\ delivered \in Seq(Nat)
  BY DEF ReadInv, TypeOK
<1>4. /\ delivered' \in Seq(Nat)
      /\ \/ Len(delivered') = Len(delivered) + Len(data) /\ discarded' = discarded
         \/ Len(delivered') = Len(delivered) /\ discarded' = discarded + Len(data)
  BY <1>2, <1>3, StreamProofs!ConcatLength
<1>5. TypeOK'
  <2>1. discarded' \in Nat
    BY <1>4, Numbers
  <2> QED BY <1>1, <1>4, <2>1, Numbers DEF ReadInv, TypeOK
<1>6. LeftoverInside' /\ Conservation'
  <2>1. LeftoverInside'
    BY <1>1, Numbers DEF LeftoverInside
  <2> DEFINE d == Len(delivered)
             g == Len(data)
             r == readbuffer_remaining
  <2>2. /\ d \in Nat /\ g \in Nat /\ r \in Nat /\ discarded \in Nat
        /\ d + g + r + discarded = sent
        /\ Len(data') = 0 /\ readbuffer_remaining' = r
    BY <1>1, Numbers
  <2>3. Len(delivered') + discarded' = d + g + discarded
    <3>1. CASE Len(delivered') = d + g /\ discarded' = discarded
      <4> HIDE DEF d, g
      <4> QED BY <3>1, <2>2
    <3>2. CASE Len(delivered') = d /\ discarded' = discarded + g
      <4> HIDE DEF d, g
      <4> QED BY <3>2, <2>2
    <3> QED BY <1>4, <3>1, <3>2
  <2>4. Len(delivered') \in Nat /\ discarded' \in Nat
    BY <1>4, <2>2
  <2>5. Conservation'
    <3> HIDE DEF d, g, r
    <3> QED BY <1>1, <2>2, <2>3, <2>4 DEF Conservation
  <2> QED BY <2>1, <2>5
<1>7. BufferAligned' /\ NeverReached' /\ RequestShape'
  BY <1>1 DEF BufferAligned, NeverReached, RequestShape
<1> QED BY <1>5, <1>6, <1>7 DEF ReadInv

LEMMA EventsFailKeeps ==
  ASSUME ReadInv, EventsFail
  PROVE  ReadInv'
BY DEF ReadInv, TypeOK, LeftoverInside, Conservation, BufferAligned, NeverReached, RequestShape,
   EventsFail, buffer, control

\* Both ends of a cancelled read.
LEMMA CancelledKeeps ==
  ASSUME ReadInv, DoneCancelled \/ Abandon
  PROVE  ReadInv'
<1>1. /\ readbuffer' = readbuffer /\ readbuffer_offset' = readbuffer_offset
      /\ readbuffer_remaining' = readbuffer_remaining
      /\ sent' = sent /\ size' = 0 /\ data' = << >> /\ mode' \in {"idle", "freed"}
      /\ delivered' = delivered /\ discarded' = discarded + Len(data)
      /\ readbuffer_chunksize' = readbuffer_chunksize
  BY DEF DoneCancelled, Abandon, Drop, buffer
<1>2. completed' = FALSE /\ transfer' = "null" /\ status' = "none"
  BY DEF DoneCancelled, Abandon, FreeControl
<1>3. TypeOK'
  <2>1. discarded' \in Nat
    BY <1>1, Numbers
  <2>2. mode' \in {"idle", "sync", "async", "cancelling", "freed", "neverReached"}
    BY <1>1
  <2> QED BY <1>1, <1>2, <2>1, <2>2, Numbers DEF ReadInv, TypeOK
<1>4. LeftoverInside' /\ Conservation'
  BY <1>1, Numbers DEF LeftoverInside, Conservation
<1>5. BufferAligned' /\ NeverReached' /\ RequestShape'
  BY <1>1, <1>2 DEF BufferAligned, NeverReached, RequestShape
<1> QED BY <1>3, <1>4, <1>5 DEF ReadInv

LEMMA PurgeRxKeeps ==
  ASSUME ReadInv, PurgeRx
  PROVE  ReadInv'
<1>1. /\ readbuffer' = readbuffer /\ readbuffer_offset' = 0 /\ readbuffer_remaining' = 0
      /\ sent' = sent /\ size' = size /\ data' = data /\ mode' = mode
      /\ delivered' = delivered /\ discarded' = discarded + readbuffer_remaining
      /\ completed' = completed /\ transfer' = transfer /\ status' = status
  BY DEF PurgeRx, EmptyBuffer, request
<1>2. TypeOK'
  BY <1>1, Numbers DEF ReadInv, TypeOK, PurgeRx
<1>3. LeftoverInside' /\ Conservation'
  BY <1>1, Numbers DEF LeftoverInside, Conservation
<1>4. BufferAligned' /\ NeverReached' /\ RequestShape'
  BY <1>1 DEF ReadInv, BufferAligned, NeverReached, RequestShape
<1> QED BY <1>2, <1>3, <1>4 DEF ReadInv

LEMMA SetChunkSizeKeeps ==
  ASSUME NEW c \in ChunkSizes, ReadInv, SetChunkSize(c)
  PROVE  ReadInv'
<1>1. /\ readbuffer' = readbuffer /\ readbuffer_offset' = 0 /\ readbuffer_remaining' = 0
      /\ sent' = sent /\ size' = size /\ data' = data /\ mode' = mode
      /\ delivered' = delivered /\ discarded' = discarded + readbuffer_remaining
      /\ completed' = completed /\ transfer' = transfer /\ status' = status
  BY DEF SetChunkSize, EmptyBuffer, request
<1>2. readbuffer_chunksize' \in 1..MaxBulk
  <2>1. c \in Nat /\ c > 0 /\ MaxBulk \in Nat /\ MaxBulk > 0
    BY ReadAssumption
  <2>2. Clamp(c) \in 1..MaxBulk
    BY <2>1 DEF Clamp
  <2> QED BY <2>2 DEF ReadInv, TypeOK, SetChunkSize
<1>3. TypeOK'
  BY <1>1, <1>2, Numbers DEF ReadInv, TypeOK
<1>4. LeftoverInside' /\ Conservation'
  BY <1>1, Numbers DEF LeftoverInside, Conservation
<1>5. BufferAligned' /\ NeverReached' /\ RequestShape'
  BY <1>1 DEF ReadInv, BufferAligned, NeverReached, RequestShape
<1> QED BY <1>3, <1>4, <1>5 DEF ReadInv

-----------------------------------------------------------------------------
(* The invariant and what it implies.                                      *)

LEMMA ReadInit == Init => ReadInv
<1> SUFFICES ASSUME Init PROVE ReadInv
  OBVIOUS
<1>1. << >> \in Seq(Nat) /\ Len(<< >>) = 0
  BY EmptySeq
<1>2. readbuffer_chunksize \in 1..MaxBulk
  BY ReadAssumption DEF Init
<1>3. TypeOK
  BY <1>1, <1>2 DEF Init, TypeOK
<1>4. LeftoverInside /\ Conservation
  BY <1>1 DEF Init, LeftoverInside, Conservation
<1>5. BufferAligned /\ NeverReached /\ RequestShape
  BY DEF Init, BufferAligned, NeverReached, RequestShape
<1> QED BY <1>3, <1>4, <1>5 DEF ReadInv

\* Raw byte counts and request sizes are numbers.
LEMMA Inputs ==
  ASSUME ReadInv
  PROVE  Sizes \subseteq Nat /\ 0..readbuffer_chunksize \subseteq Nat
BY ReadAssumption DEF ReadInv, TypeOK

LEMMA ReadStep == ReadInv /\ [Next]_vars => ReadInv'
<1> SUFFICES ASSUME ReadInv, [Next]_vars PROVE ReadInv'
  OBVIOUS
<1>1. CASE UNCHANGED vars
  BY <1>1 DEF ReadInv, TypeOK, LeftoverInside, Conservation, BufferAligned, NeverReached,
     RequestShape, vars, buffer, request
<1>2. CASE ReadData
  BY <1>2, Inputs, ReadFromBufferKeeps, ReadStartKeeps, ReadShortKeeps, ReadMoreKeeps,
     ReadExactKeeps, ReadPartKeeps, ReadFailsKeeps DEF ReadData
<1>3. CASE AsyncRead
  BY <1>3, Inputs, SubmitFromBufferKeeps, SubmitKeeps, SubmitFailsKeeps, CbMoreKeeps,
     CbExactKeeps, CbPartKeeps, DoneKeeps, EventsFailKeeps, CancelledKeeps DEF AsyncRead
<1>4. CASE PurgeRx \/ \E c \in ChunkSizes : SetChunkSize(c)
  BY <1>4, PurgeRxKeeps, SetChunkSizeKeeps
<1> QED BY <1>1, <1>2, <1>3, <1>4 DEF Next

LEMMA ReadAlways == Spec => []ReadInv
BY ReadInit, ReadStep, PTL DEF Spec

\* The fields of the readbuffer, the read in progress and its control block
\* keep their types: in particular no count ever goes below zero.
THEOREM ReadTypeCorrect == Spec => []TypeOK
<1>1. ReadInv => TypeOK
  BY DEF ReadInv
<1> QED BY <1>1, ReadAlways, PTL

\* No data byte disappears between the transfers and the client.
THEOREM ReadConserves == Spec => []Conservation
<1>1. ReadInv => Conservation
  BY DEF ReadInv
<1> QED BY <1>1, ReadAlways, PTL

\* Every transfer is stripped from offset 0 on.
THEOREM ReadAligned == Spec => []BufferAligned
<1>1. ReadInv => BufferAligned
  BY DEF ReadInv
<1> QED BY <1>1, ReadAlways, PTL

\* The "never reached" end of ftdi_read_data is never reached.
THEOREM ReadNeverReached == Spec => []NeverReached
<1>1. ReadInv => NeverReached
  BY DEF ReadInv
<1> QED BY <1>1, ReadAlways, PTL

\* What a round or a callback adds to the read in progress.
LEMMA ProgressSteps == ReadInv /\ [Next]_vars =>
      [ /\ mode = "sync" /\ mode' = "sync" => Len(data') > Len(data)
        /\ transfer = "inflight" /\ sent' > sent => Len(data') > Len(data) ]_vars
<1> SUFFICES ASSUME ReadInv, Next
             PROVE  /\ mode = "sync" /\ mode' = "sync" => Len(data') > Len(data)
                    /\ transfer = "inflight" /\ sent' > sent => Len(data') > Len(data)
  OBVIOUS
<1>1. ASSUME NEW m \in Nat, ReadMore(m)
      PROVE  Len(data') > Len(data) /\ transfer = "null"
  <2>1. Payload(m) \in Nat /\ Payload(m) > 0
    BY <1>1, PayloadFacts DEF ReadMore, StatusOnly, StatusLength
  <2>2. Len(data') = Len(data) + Payload(m)
    BY <1>1, GatheredFacts DEF ReadInv, ReadMore, Gathered
  <2>3. Len(data) \in Nat
    BY Numbers
  <2> QED BY <1>1, <2>1, <2>2, <2>3 DEF ReadInv, RequestShape, ReadMore
<1>2. ASSUME NEW m \in Nat, NEW s \in Statuses, CbMore(m, s) \/ CbExact(m, s), sent' > sent
      PROVE  Len(data') > Len(data)
  <2> DEFINE p == Payload(m)
  <2>1. /\ p \in Nat /\ sent \in Nat /\ Len(data) \in Nat /\ sent' = sent + p
    BY <1>2, PayloadFacts, Numbers DEF CbMore, CbExact, Landed, Arrive
  <2>2. Len(data') = Len(data) + p
    BY <1>2, GatheredFacts DEF ReadInv, CbMore, CbExact
  <2> HIDE DEF p
  <2> QED BY <1>2, <2>1, <2>2
<1>3. ASSUME NEW m \in Nat, NEW s \in Statuses, CbPart(m, s)
      PROVE  Len(data') > Len(data)
  <2>1. Len(data') = Len(data) + Wanted /\ Len(data) + Wanted = size /\ Len(data) < size
    BY <1>3, WantedFacts, UnderWay DEF CbPart, Landed
  <2> QED BY <2>1
<1>4. mode = "sync" => transfer = "null"
  BY DEF ReadInv, RequestShape
<1>5. transfer = "inflight" => mode \in {"async", "cancelling"}
  BY UnderWay
<1>6. CASE ReadData
  <2>1. ASSUME NEW n \in Sizes, ReadFromBuffer(n) \/ ReadStart(n)
        PROVE  mode = "idle"
    BY <2>1 DEF ReadFromBuffer, ReadStart
  <2>2. ASSUME NEW m \in 0..readbuffer_chunksize,
               ReadShort(m) \/ ReadExact(m) \/ ReadPart(m) \/ ReadFails(m)
        PROVE  mode = "sync" /\ mode' = "idle"
    BY <2>2 DEF ReadShort, ReadExact, ReadPart, ReadFails, Return, Drop
  <2> QED BY <1>1, <1>4, <1>5, <1>6, <2>1, <2>2, Inputs DEF ReadData
<1>7. CASE AsyncRead
  <2>1. ASSUME NEW n \in Sizes, SubmitFromBuffer(n) \/ Submit(n) \/ SubmitFails(n)
        PROVE  mode = "idle"
    BY <2>1 DEF SubmitFromBuffer, Submit, SubmitFails
  <2>2. ASSUME NEW m \in 0..readbuffer_chunksize, NEW s \in Statuses,
               CbMore(m, s) \/ CbExact(m, s) \/ CbPart(m, s)
        PROVE  transfer = "inflight" /\ (sent' > sent => Len(data') > Len(data))
    BY <1>2, <1>3, <2>2, Inputs DEF CbMore, CbExact, CbPart, Landed
  <2>3. ASSUME Done \/ EventsFail \/ DoneCancelled \/ Abandon
        PROVE  mode # "sync" /\ sent' = sent
    BY <2>3 DEF Done, EventsFail, DoneCancelled, Abandon
  <2> QED BY <1>4, <1>5, <1>7, <2>1, <2>2, <2>3, Numbers DEF AsyncRead
<1>8. CASE PurgeRx \/ \E c \in ChunkSizes : SetChunkSize(c)
  BY <1>8, Numbers DEF PurgeRx, SetChunkSize
<1> QED BY <1>6, <1>7, <1>8 DEF Next

\* Each round of the loop, and each callback after which bytes have come,
\* brings the read nearer to its end.
THEOREM ReadProgresses == Spec => ReadProgress
BY ReadAlways, ProgressSteps, PTL DEF Spec, ReadProgress

-----------------------------------------------------------------------------
(* Every step of the read path is a step of the byte stream.               *)

Simulates == Stream!Next \/ UNCHANGED Stream!vars

\* Nothing arrives.
LEMMA GrownSame ==
  ASSUME ReadInv, sent' = sent
  PROVE  Stream!Arrive /\ Stream!Grown = Held /\ Held \in Seq(Nat)
<1>1. sent \in Nat /\ sent' \in Nat /\ sent' >= sent /\ sent' - sent = 0
  BY Numbers
<1>2. Held \in Seq(Nat)
  BY LeftoverLength, StreamProofs!ConcatLength DEF ReadInv, TypeOK, Held
<1>3. Stream!Run(sent, sent' - sent) = << >>
  BY <1>1 DEF Stream!Run
<1> QED BY <1>1, <1>2, <1>3, StreamProofs!AllCells DEF Stream!Arrive, Stream!Grown

\* A transfer arrives.
LEMMA GrownMore ==
  ASSUME NEW m \in Nat, ReadInv, mode = "sync" \/ transfer = "inflight", Arrive(m)
  PROVE  /\ Stream!Arrive
         /\ Stream!Grown = data \o NewBytes(m)
         /\ data \in Seq(Nat) /\ NewBytes(m) \in Seq(Nat)
         /\ data \o NewBytes(m) \in Seq(Nat)
<1> DEFINE p == Payload(m)
<1>1. p \in Nat /\ sent \in Nat /\ sent' = sent + p
  BY PayloadFacts, Numbers DEF Arrive
<1>2. sent' - sent = p /\ sent' \in Nat /\ sent' >= sent
  <2> HIDE DEF p
  <2> QED BY <1>1
<1>3. Stream!Run(sent, sent' - sent) = NewBytes(m)
  BY <1>2 DEF Stream!Run, NewBytes
<1>4. data \in Seq(Nat) /\ readbuffer_offset \in Nat /\ readbuffer_remaining \in Nat
      /\ readbuffer_remaining = 0
  BY UnderWay DEF ReadInv, TypeOK
<1>5. Held = data
  BY <1>4, StreamProofs!NoCells DEF Held, Leftover, BufferBytes
<1> QED BY <1>2, <1>3, <1>4, <1>5, NewBytesFacts, GatheredFacts
        DEF ReadInv, Stream!Arrive, Stream!Grown

\* With an empty buffer only the read in progress is held.
LEMMA HeldAfter ==
  ASSUME ReadInv', readbuffer_remaining' = 0
  PROVE  Held' = data'
<1>1. data' \in Seq(Nat) /\ readbuffer_offset' \in Nat /\ readbuffer_remaining' \in Nat
  BY DEF ReadInv, TypeOK
<1>2. data' \o SubSeq(readbuffer', readbuffer_offset' + 1,
                      readbuffer_offset' + readbuffer_remaining') = data'
  BY <1>1, StreamProofs!NoCells
<1> QED BY <1>2 DEF Held, Leftover, BufferBytes

\* The steps of the byte stream that occur.
LEMMA DeliverAll ==
  ASSUME Stream!Arrive, Stream!Grown \in Seq(Nat),
         delivered' = delivered \o Stream!Grown, Held' = << >>
  PROVE  Simulates
<1>1. Len(Stream!Grown) \in 0..Len(Stream!Grown)
  BY StreamProofs!AllCells
<1> QED BY <1>1, StreamProofs!AllCells DEF Simulates, Stream!Next, Stream!Deliver

LEMMA KeepAll ==
  ASSUME Stream!Arrive, Stream!Grown \in Seq(Nat),
         delivered' = delivered, Held' = Stream!Grown
  PROVE  Simulates
<1>1. 1 \in 1..Len(Stream!Grown)+1 /\ Len(Stream!Grown) \in (1-1)..Len(Stream!Grown)
  BY StreamProofs!AllCells
<1> QED BY <1>1, StreamProofs!AllCells DEF Simulates, Stream!Next, Stream!Keep

LEMMA KeepNone ==
  ASSUME Stream!Arrive, Stream!Grown \in Seq(Nat),
         delivered' = delivered, Held' = << >>
  PROVE  Simulates
<1>1. 1 \in 1..Len(Stream!Grown)+1 /\ 0 \in (1-1)..Len(Stream!Grown)
  BY StreamProofs!AllCells
<1> QED BY <1>1, StreamProofs!AllCells DEF Simulates, Stream!Next, Stream!Keep

\* Taking n bytes out of the readbuffer cuts the leftover in two.
LEMMA CutLeftover ==
  ASSUME NEW n \in 0..readbuffer_remaining, ReadInv
  PROVE  /\ SubSeq(Leftover, 1, n) = BufferBytes(readbuffer_offset, n)
         /\ SubSeq(Leftover, n + 1, Len(Leftover))
              = SubSeq(readbuffer, readbuffer_offset + n + 1,
                       readbuffer_offset + readbuffer_remaining)
<1> DEFINE a == readbuffer_offset
           r == readbuffer_remaining
           s == readbuffer
<1>1. s \in Seq(Nat) /\ a \in Nat /\ r \in Nat /\ a + r <= Len(s)
  BY Numbers DEF ReadInv, TypeOK
<1>2. Len(Leftover) = r
  BY LeftoverLength DEF ReadInv
<1>3. /\ SubSeq(SubSeq(s, a + 1, a + r), 1, n) = SubSeq(s, a + 1, a + n)
      /\ SubSeq(SubSeq(s, a + 1, a + r), n + 1, r) = SubSeq(s, a + n + 1, a + r)
  BY <1>1, StreamProofs!CutStretch
<1> QED BY <1>2, <1>3 DEF Leftover, BufferBytes

LEMMA ReadFromBufferSimulates ==
  ASSUME NEW n \in Nat, ReadInv, ReadInv', ReadFromBuffer(n)
  PROVE  Simulates
<1>1. /\ n \in 0..readbuffer_remaining /\ Leftover \in Seq(Nat)
      /\ Len(Leftover) = readbuffer_remaining /\ data = << >> /\ sent' = sent
  BY LeftoverLength, Numbers DEF ReadInv, RequestShape, ReadFromBuffer
<1>2. Stream!Arrive /\ Stream!Grown = Leftover
  BY <1>1, GrownSame, StreamProofs!AllCells DEF Held
<1>3. /\ SubSeq(Leftover, 1, n) = BufferBytes(readbuffer_offset, n)
      /\ SubSeq(Leftover, n + 1, Len(Leftover))
           = SubSeq(readbuffer, readbuffer_offset + n + 1,
                    readbuffer_offset + readbuffer_remaining)
  BY <1>1, CutLeftover
<1>4. delivered' = delivered \o SubSeq(Stream!Grown, 1, n)
  BY <1>2, <1>3 DEF ReadFromBuffer, Return
<1>5. Held' = SubSeq(Stream!Grown, n + 1, Len(Stream!Grown))
  <2>1. /\ readbuffer' = readbuffer /\ readbuffer_offset' = readbuffer_offset + n
        /\ data' = << >>
        /\ readbuffer_offset' + readbuffer_remaining'
             = readbuffer_offset + readbuffer_remaining
    BY Numbers DEF ReadFromBuffer, TakeFromBuffer, Return
  <2>2. Leftover' = SubSeq(Stream!Grown, n + 1, Len(Stream!Grown))
    BY <1>2, <1>3, <2>1 DEF Leftover, BufferBytes
  <2>3. Leftover' \in Seq(Nat)
    <3>1. Len(Leftover) - n \in Nat /\ n + (Len(Leftover) - n) = Len(Leftover)
      BY <1>1
    <3>2. SubSeq(Leftover, n + 1, n + (Len(Leftover) - n)) \in Seq(Nat)
      BY <1>1, <3>1, StreamProofs!Stretch
    <3> QED BY <1>2, <2>2, <3>1, <3>2
  <2> QED BY <2>1, <2>2, <2>3, StreamProofs!AllCells DEF Held
<1> QED BY <1>1, <1>2, <1>4, <1>5 DEF Simulates, Stream!Next, Stream!Deliver

\* Moving the leftover into the client's buffer changes nothing.
LEMMA StartSimulates ==
  ASSUME NEW n \in Nat, ReadInv, ReadInv', ReadStart(n) \/ Submit(n)
  PROVE  Simulates
<1>1. /\ data = << >> /\ data' = Leftover /\ readbuffer_remaining' = 0
      /\ sent' = sent /\ delivered' = delivered
  BY DEF ReadInv, RequestShape, ReadStart, Submit, StartTransfer, EmptyBuffer
<1>2. Held' = Leftover
  BY <1>1, HeldAfter
<1>3. Held = Leftover
  BY <1>1, LeftoverLength, StreamProofs!AllCells DEF ReadInv, Held
<1> QED BY <1>1, <1>2, <1>3 DEF Simulates, Stream!vars

LEMMA SubmitFromBufferSimulates ==
  ASSUME NEW n \in Nat, ReadInv, ReadInv', SubmitFromBuffer(n)
  PROVE  Simulates
<1>1. /\ n \in 0..readbuffer_remaining /\ n \in Nat /\ Leftover \in Seq(Nat)
      /\ Len(Leftover) = readbuffer_remaining /\ data = << >>
  BY LeftoverLength, Numbers DEF ReadInv, RequestShape, SubmitFromBuffer
<1>2. /\ SubSeq(Leftover, 1, n) = BufferBytes(readbuffer_offset, n)
      /\ SubSeq(Leftover, n + 1, Len(Leftover))
           = SubSeq(readbuffer, readbuffer_offset + n + 1,
                    readbuffer_offset + readbuffer_remaining)
  BY <1>1, CutLeftover
<1>3. /\ readbuffer' = readbuffer /\ readbuffer_offset' = readbuffer_offset + n
      /\ readbuffer_offset' + readbuffer_remaining'
           = readbuffer_offset + readbuffer_remaining
      /\ data' = BufferBytes(readbuffer_offset, n)
      /\ sent' = sent /\ delivered' = delivered
  BY Numbers DEF SubmitFromBuffer, TakeFromBuffer
<1>4. Held' = SubSeq(Leftover, 1, n) \o SubSeq(Leftover, n + 1, Len(Leftover))
  BY <1>2, <1>3 DEF Held, Leftover, BufferBytes
<1>5. SubSeq(Leftover, 1, n) \o SubSeq(Leftover, n + 1, Len(Leftover)) = Leftover
  <2>1. 1 \in 1..Len(Leftover)+1 /\ n \in (1-1)..Len(Leftover) /\ Len(Leftover) \in n..Len(Leftover)
    BY <1>1, Numbers
  <2> QED BY <1>1, <2>1, ConcatAdjacentSubSeq, StreamProofs!AllCells
<1>6. Held = Leftover
  BY <1>1, StreamProofs!AllCells DEF Held
<1> QED BY <1>3, <1>4, <1>5, <1>6 DEF Simulates, Stream!vars

\* An idle reader's bytes are thrown away.
LEMMA ForgetSimulates ==
  ASSUME NEW x, ReadInv, ReadInv', SubmitFails(x) \/ SetChunkSize(x)
  PROVE  Simulates
<1>1. /\ data = << >> /\ data' = << >> /\ readbuffer_remaining' = 0
      /\ sent' = sent /\ delivered' = delivered
  BY DEF ReadInv, RequestShape, SubmitFails, SetChunkSize, Drop, EmptyBuffer, request
<1> QED BY <1>1, GrownSame, HeldAfter, KeepNone

LEMMA ReadShortSimulates ==
  ASSUME NEW m \in Nat, ReadInv, ReadInv', ReadShort(m)
  PROVE  Simulates
<1>1. Payload(m) = 0 /\ Len(NewBytes(m)) = 0
  BY PayloadFacts, NewBytesFacts DEF ReadInv, ReadShort, StatusOnly
<1>2. /\ Stream!Arrive /\ Stream!Grown = data \o NewBytes(m)
      /\ data \in Seq(Nat) /\ NewBytes(m) \in Seq(Nat)
  BY GrownMore DEF ReadShort
<1>3. Stream!Grown = data
  <2>1. NewBytes(m) = << >>
    BY <1>1, <1>2, EmptySeq
  <2> QED BY <1>2, <2>1, StreamProofs!AllCells
<1>4. /\ readbuffer_remaining' = 0 /\ data' = << >> /\ delivered' = delivered \o data
  BY UnderWay DEF ReadShort, Return, buffer
<1> QED BY <1>2, <1>3, <1>4, HeldAfter, DeliverAll

LEMMA ReadMoreSimulates ==
  ASSUME NEW m \in Nat, ReadInv, ReadInv', ReadMore(m)
  PROVE  Simulates
<1>1. /\ Stream!Arrive /\ Stream!Grown = data \o NewBytes(m) /\ Stream!Grown \in Seq(Nat)
  BY GrownMore DEF ReadMore
<1>2. /\ readbuffer_remaining' = 0 /\ data' = data \o NewBytes(m) /\ delivered' = delivered
  BY DEF ReadMore, Gathered, StartTransfer, EmptyBuffer
<1> QED BY <1>1, <1>2, HeldAfter, KeepAll

LEMMA ReadExactSimulates ==
  ASSUME NEW m \in Nat, ReadInv, ReadInv', ReadExact(m)
  PROVE  Simulates
<1>1. /\ Stream!Arrive /\ Stream!Grown = data \o NewBytes(m) /\ Stream!Grown \in Seq(Nat)
  BY GrownMore DEF ReadExact
<1>2. /\ readbuffer_remaining' = 0 /\ data' = << >>
      /\ delivered' = delivered \o (data \o NewBytes(m))
  BY UnderWay DEF ReadExact, Return, Gathered
<1> QED BY <1>1, <1>2, HeldAfter, DeliverAll

\* What a transfer leaves behind the part the client wanted.
LEMMA RestFacts ==
  ASSUME NEW m \in Nat, ReadInv, ReadInv', mode = "sync" \/ transfer = "inflight",
         TooMuch(m), KeepRest(m)
  PROVE  /\ Wanted \in 0..Len(NewBytes(m))
         /\ Leftover' = SubSeq(NewBytes(m), Wanted + 1, Len(NewBytes(m)))
         /\ Leftover' \in Seq(Nat)
<1> DEFINE w == Wanted
           x == NewBytes(m)
           p == Payload(m)
           z == <<0, 0>>
<1>1. /\ p \in Nat /\ w \in 0..p /\ w \in Nat /\ x \in Seq(Nat) /\ Len(x) = p
  BY WantedFacts, NewBytesFacts DEF ReadInv
<1>2. z \in Seq(Nat) /\ Len(z) = 2
  OBVIOUS
<1>3. /\ readbuffer' = z \o x /\ readbuffer_offset' = 2 + w /\ readbuffer_remaining' = p - w
  BY DEF KeepRest, Received, StatusLength
<1> HIDE DEF w, x, p, z
<1>4. readbuffer_offset' + readbuffer_remaining' = 2 + p
  BY <1>1, <1>3
<1>5. Leftover' = SubSeq(z \o x, 2 + w + 1, 2 + p)
  BY <1>3, <1>4 DEF Leftover, BufferBytes
<1>6. SubSeq(z \o x, Len(z) + w + 1, Len(z) + Len(x)) = SubSeq(x, w + 1, Len(x))
  BY <1>1, <1>2, StreamProofs!CutConcat
<1>7. SubSeq(x, w + 1, Len(x)) \in Seq(Nat)
  <2>1. p - w \in Nat /\ w + (p - w) = Len(x)
    BY <1>1
  <2> QED BY <1>1, <2>1, StreamProofs!Rear
<1> QED BY <1>1, <1>2, <1>5, <1>6, <1>7 DEF w, x

LEMMA ReadPartSimulates ==
  ASSUME NEW m \in Nat, ReadInv, ReadInv', ReadPart(m)
  PROVE  Simulates
<1> DEFINE w == Wanted
           x == NewBytes(m)
           k == Len(data) + w
<1>1. /\ Stream!Arrive /\ Stream!Grown = data \o x
      /\ data \in Seq(Nat) /\ x \in Seq(Nat)
  BY GrownMore DEF ReadPart
<1>2. /\ w \in 0..Len(x) /\ Leftover' = SubSeq(x, w + 1, Len(x)) /\ Leftover' \in Seq(Nat)
  BY RestFacts DEF ReadPart
<1>3. data' = << >> /\ delivered' = delivered \o (data \o SubSeq(x, 1, w))
  BY DEF ReadPart, Return
<1> HIDE DEF w, x
<1>4. /\ SubSeq(data \o x, 1, Len(data) + w) = data \o SubSeq(x, 1, w)
      /\ SubSeq(data \o x, Len(data) + w + 1, Len(data) + Len(x)) = SubSeq(x, w + 1, Len(x))
      /\ Len(data \o x) = Len(data) + Len(x)
      /\ Len(data) \in Nat /\ Len(x) \in Nat
  BY <1>1, <1>2, StreamProofs!CutConcat, StreamProofs!ConcatLength
<1>5. k \in 0..Len(Stream!Grown)
  BY <1>1, <1>2, <1>4
<1>6. Held' = Leftover'
  BY <1>2, <1>3, StreamProofs!AllCells DEF Held
<1>7. /\ delivered' = delivered \o SubSeq(Stream!Grown, 1, k)
      /\ Held' = SubSeq(Stream!Grown, k + 1, Len(Stream!Grown))
  BY <1>1, <1>2, <1>3, <1>4, <1>6
<1> QED BY <1>1, <1>5, <1>7 DEF Simulates, Stream!Next, Stream!Deliver

LEMMA ReadFailsSimulates ==
  ASSUME NEW m \in Nat, ReadInv, ReadInv', ReadFails(m)
  PROVE  Simulates
<1>1. /\ Stream!Arrive /\ Stream!Grown \in Seq(Nat)
  BY GrownMore DEF ReadFails
<1>2. /\ readbuffer_remaining' = 0 /\ data' = << >> /\ delivered' = delivered
  BY UnderWay DEF ReadFails, Drop
<1> QED BY <1>1, <1>2, HeldAfter, KeepNone

\* A callback that takes all that arrived.
LEMMA CbAllSimulates ==
  ASSUME NEW m \in Nat, NEW s \in Statuses, ReadInv, ReadInv', CbMore(m, s) \/ CbExact(m, s)
  PROVE  Simulates
<1>1. /\ Stream!Arrive /\ Stream!Grown = data \o NewBytes(m) /\ Stream!Grown \in Seq(Nat)
  BY GrownMore DEF CbMore, CbExact, Landed
<1>2. /\ readbuffer_remaining' = 0 /\ data' = data \o NewBytes(m) /\ delivered' = delivered
  BY DEF CbMore, CbExact, Landed, EmptyBuffer
<1> QED BY <1>1, <1>2, HeldAfter, KeepAll

\* A callback that leaves some in the readbuffer.
LEMMA CbPartSimulates ==
  ASSUME NEW m \in Nat, NEW s \in Statuses, ReadInv, ReadInv', CbPart(m, s)
  PROVE  Simulates
<1> DEFINE w == Wanted
           x == NewBytes(m)
<1>1. /\ Stream!Arrive /\ Stream!Grown = data \o x /\ Stream!Grown \in Seq(Nat)
      /\ data \in Seq(Nat) /\ x \in Seq(Nat)
  BY GrownMore DEF CbPart, Landed
<1>2. /\ w \in 0..Len(x) /\ Leftover' = SubSeq(x, w + 1, Len(x)) /\ Leftover' \in Seq(Nat)
  BY RestFacts DEF CbPart, Landed
<1>3. data' = data \o SubSeq(x, 1, w) /\ delivered' = delivered
  BY DEF CbPart, Landed
<1> HIDE DEF w, x
<1>4. (data \o SubSeq(x, 1, w)) \o SubSeq(x, w + 1, Len(x)) = data \o x
  BY <1>1, <1>2, StreamProofs!FrontAndRest
<1>5. Held' = Stream!Grown
  BY <1>1, <1>2, <1>3, <1>4 DEF Held
<1> QED BY <1>1, <1>3, <1>5, KeepAll

\* The read in progress and the leftover, taken apart.
LEMMA HeldParts ==
  ASSUME ReadInv
  PROVE  /\ data \in Seq(Nat) /\ Leftover \in Seq(Nat)
         /\ Len(data) \in 0..Len(Held) /\ Len(Held) \in Nat
         /\ SubSeq(Held, 1, Len(data)) = data
         /\ SubSeq(Held, Len(data) + 1, Len(Held)) = Leftover
<1>1. data \in Seq(Nat) /\ Leftover \in Seq(Nat) /\ Len(data) \in Nat /\ Len(Leftover) \in Nat
  BY LeftoverLength, LenProperties DEF ReadInv, TypeOK
<1>2. /\ Len(Held) = Len(data) + Len(Leftover)
      /\ SubSeq(Held, 1, Len(data) + 0) = data \o SubSeq(Leftover, 1, 0)
      /\ SubSeq(Held, Len(data) + 0 + 1, Len(data) + Len(Leftover))
           = SubSeq(Leftover, 0 + 1, Len(Leftover))
  <2>1. 0 \in 0..Len(Leftover)
    BY <1>1
  <2> QED BY <1>1, <2>1, StreamProofs!CutConcat, StreamProofs!ConcatLength DEF Held
<1>3. Len(data) + 0 = Len(data) /\ 0 + 1 = 1
  BY <1>1
<1>4. /\ SubSeq(Leftover, 1, 0) = << >> /\ data \o << >> = data
      /\ SubSeq(Leftover, 1, Len(Leftover)) = Leftover
  BY <1>1, StreamProofs!AllCells
<1> QED BY <1>1, <1>2, <1>3, <1>4

LEMMA DoneSimulates ==
  ASSUME ReadInv, ReadInv', Done \/ DoneCancelled \/ Abandon
  PROVE  Simulates
<1>1. /\ data' = << >> /\ sent' = sent
      /\ readbuffer' = readbuffer /\ readbuffer_offset' = readbuffer_offset
      /\ readbuffer_remaining' = readbuffer_remaining
      /\ delivered' = delivered \o data \/ delivered' = delivered
  BY DEF Done, DoneCancelled, Abandon, Return, Drop, buffer
<1>2. Held' = Leftover
  BY <1>1, HeldParts, StreamProofs!AllCells DEF Held, Leftover, BufferBytes
<1>3. Stream!Arrive /\ Stream!Grown = Held
  BY <1>1, GrownSame
<1>4. CASE delivered' = delivered \o data
  BY <1>2, <1>3, <1>4, HeldParts DEF Simulates, Stream!Next, Stream!Deliver
<1>5. CASE delivered' = delivered
  <2>1. /\ Len(data) + 1 \in 1..Len(Held) + 1
        /\ Len(Held) \in ((Len(data) + 1) - 1)..Len(Held)
    BY HeldParts
  <2>2. Held' = SubSeq(Stream!Grown, Len(data) + 1, Len(Held))
    BY <1>2, <1>3, HeldParts
  <2> QED BY <1>3, <1>5, <2>1, <2>2 DEF Simulates, Stream!Next, Stream!Keep
<1> QED BY <1>1, <1>4, <1>5

LEMMA EventsFailSimulates ==
  ASSUME EventsFail
  PROVE  Simulates
BY DEF EventsFail, Simulates, Stream!vars, Held, Leftover, BufferBytes, buffer

LEMMA PurgeRxSimulates ==
  ASSUME ReadInv, ReadInv', PurgeRx
  PROVE  Simulates
<1>1. /\ data' = data /\ sent' = sent /\ readbuffer_remaining' = 0 /\ delivered' = delivered
  BY DEF PurgeRx, EmptyBuffer, request
<1>2. Stream!Arrive /\ Stream!Grown = Held
  BY <1>1, GrownSame
<1>3. Held' = SubSeq(Stream!Grown, 1, Len(data))
  BY <1>1, <1>2, HeldAfter, HeldParts
<1>4. 1 \in 1..Len(Held) + 1 /\ Len(data) \in (1 - 1)..Len(Held)
  BY HeldParts
<1> QED BY <1>1, <1>2, <1>3, <1>4 DEF Simulates, Stream!Next, Stream!Keep

LEMMA StreamInitially == Init => Stream!Init
<1> SUFFICES ASSUME Init PROVE Stream!Init
  OBVIOUS
<1>1. /\ data = << >> /\ readbuffer_offset = 0 /\ readbuffer_remaining = 0
      /\ sent = 0 /\ delivered = << >>
  BY DEF Init
<1>2. << >> \in Seq(Nat) /\ 0 \in Nat
  BY EmptySeq
<1>3. Held = << >>
  BY <1>1, <1>2, StreamProofs!NoCells DEF Held, Leftover, BufferBytes
<1> QED BY <1>1, <1>3 DEF Stream!Init

LEMMA StreamSteps == ReadInv /\ ReadInv' /\ [Next]_vars => [Stream!Next]_(Stream!vars)
<1> SUFFICES ASSUME ReadInv, ReadInv', [Next]_vars PROVE Simulates
  BY DEF Simulates
<1>1. CASE UNCHANGED vars
  BY <1>1 DEF Simulates, Stream!vars, Held, Leftover, BufferBytes, vars, buffer, request
<1>2. CASE ReadData
  BY <1>2, Inputs, ReadFromBufferSimulates, StartSimulates, ReadShortSimulates,
     ReadMoreSimulates, ReadExactSimulates, ReadPartSimulates, ReadFailsSimulates DEF ReadData
<1>3. CASE AsyncRead
  BY <1>3, Inputs, SubmitFromBufferSimulates, StartSimulates, ForgetSimulates,
     CbAllSimulates, CbPartSimulates, DoneSimulates, EventsFailSimulates DEF AsyncRead
<1>4. CASE PurgeRx \/ \E c \in ChunkSizes : SetChunkSize(c)
  BY <1>4, PurgeRxSimulates, ForgetSimulates
<1> QED BY <1>1, <1>2, <1>3, <1>4 DEF Next

\* Whatever mix of reads, synchronous or asynchronous, the library performs,
\* it behaves as the byte stream does.
THEOREM ReadImplementsStream == Spec => StreamSpec
<1>1. Init => Stream!Init
  BY StreamInitially
<1>2. ReadInv /\ ReadInv' /\ [Next]_vars => [Stream!Next]_(Stream!vars)
  BY StreamSteps
<1> QED BY <1>1, <1>2, ReadAlways, PTL DEF Spec, StreamSpec, Stream!Spec

-----------------------------------------------------------------------------

\* The client receives the chip's bytes in order and none of them twice, and
\* what the library still holds comes after all it has handed out.
THEOREM ReadInOrder == Spec => []Stream!InOrder
<1>1. Stream!Init => StreamProofs!Init
  BY DEF Stream!Init, StreamProofs!Init
<1>2. [Stream!Next]_(Stream!vars) => [StreamProofs!Next]_(StreamProofs!vars)
  BY DEF Stream!Next, Stream!vars, Stream!Deliver, Stream!Keep, Stream!Grown, Stream!Arrive,
     Stream!Run, StreamProofs!Next, StreamProofs!vars, StreamProofs!Deliver,
     StreamProofs!Keep, StreamProofs!Grown, StreamProofs!Arrive, StreamProofs!Run
<1>3. StreamProofs!InOrder => Stream!InOrder
  BY DEF Stream!InOrder, Stream!Increasing, StreamProofs!InOrder, StreamProofs!Increasing
<1> QED BY <1>1, <1>2, <1>3, ReadImplementsStream, StreamProofs!StreamInOrder, PTL
        DEF StreamSpec, Stream!Spec, StreamProofs!Spec
=============================================================================
