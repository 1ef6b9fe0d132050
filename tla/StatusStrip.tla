---------------------------- MODULE StatusStrip ----------------------------
(***************************************************************************)
(* The loop that removes the status bytes from a received transfer, in     *)
(* place, with one memmove per packet.  ftdi_read_data and                 *)
(* ftdi_read_data_cb contain the same lines; a step here is one statement  *)
(* group of theirs.  A byte is represented by the cell it was received in, *)
(* so the contents of the buffer say where every byte came from.           *)
(***************************************************************************)
EXTENDS Packets

CONSTANTS PacketSizes,  \* values of ftdi->max_packet_size considered
          MaxLength     \* longest transfer considered

ASSUME StripAssumption ==
    /\ PacketSizes \subseteq {p \in Nat : p > StatusLength}
    /\ MaxLength \in Nat

VARIABLES packet_size,
          received,           \* transfer->actual_length, as libusb set it
          readbuffer,         \* cells 0..received-1
          readbuffer_offset,
          actual_length,      \* the local variable, decremented on the way
          i,                  \* loop counter
          pc

vars == <<packet_size, received, readbuffer, readbuffer_offset,
          actual_length, i, pc>>

num_of_chunks == NumOfChunks(packet_size, received)
chunk_remains == ChunkRemains(packet_size, received)

\* Both readers enter with offset 0: they reset it before they ask for data.
Init == /\ packet_size \in PacketSizes
        /\ received \in 0..MaxLength
        /\ readbuffer = [k \in 0..received-1 |-> k]
        /\ readbuffer_offset = 0
        /\ actual_length = received
        /\ i = 0
        /\ pc = "start"

\* memmove: the destination takes what the source held before the call.
Memmove(b, dst, src, n) ==
    [k \in DOMAIN b |-> IF k \in dst .. dst+n-1 THEN b[src + (k - dst)] ELSE b[k]]

Destination == readbuffer_offset + (packet_size - StatusLength) * i

\* Mutant: the status bytes of the packets before this one are not skipped.
Source_NoStatusGap == readbuffer_offset + (packet_size - StatusLength) * i

Source      == readbuffer_offset + packet_size * i

\* Mutant: tests for an empty transfer instead.
HasData_AnyByte == received > 0

HasData == received > StatusLength

\* Nothing but status bytes (or nothing at all) arrived.
StatusOnly == /\ pc = "start"
              /\ ~HasData
              /\ pc' = "done"
              /\ UNCHANGED <<packet_size, received, readbuffer,
                             readbuffer_offset, actual_length, i>>

\* Skip the first packet's status; one packet needs no more than that.
SkipStatus == /\ pc = "start"
              /\ HasData
              /\ readbuffer_offset' = readbuffer_offset + StatusLength
              /\ actual_length' = actual_length - StatusLength
              /\ i' = 1
              /\ pc' = IF actual_length' > packet_size - StatusLength
                         THEN "chunks" ELSE "done"
              /\ UNCHANGED <<packet_size, received, readbuffer>>

\* Mutant: the loop runs once too often.
MoreChunks_OneTooMany == i <= num_of_chunks

MoreChunks == i < num_of_chunks

MoveChunk == /\ pc = "chunks"
             /\ MoreChunks
             /\ readbuffer' = Memmove(readbuffer, Destination, Source,
                                      packet_size - StatusLength)
             /\ i' = i + 1
             /\ UNCHANGED <<packet_size, received, readbuffer_offset,
                            actual_length, pc>>

TailLength == chunk_remains - StatusLength

\* The bytes the loop made disappear, with and without a partial last packet.
MoveTail == /\ pc = "chunks"
            /\ ~MoreChunks
            /\ TailLength > 0
            /\ readbuffer' = Memmove(readbuffer, Destination, Source, TailLength)
            /\ actual_length' = actual_length - StatusLength * num_of_chunks
            /\ pc' = "done"
            /\ UNCHANGED <<packet_size, received, readbuffer_offset, i>>

\* Mutant: the status of the last full packet is counted twice.
TailStatus_OneTooMany == StatusLength * num_of_chunks + chunk_remains

TailStatus == StatusLength * (num_of_chunks - 1) + chunk_remains

DropTail == /\ pc = "chunks"
            /\ ~MoreChunks
            /\ TailLength <= 0
            /\ actual_length' = actual_length - TailStatus
            /\ pc' = "done"
            /\ UNCHANGED <<packet_size, received, readbuffer,
                           readbuffer_offset, i>>

Next == StatusOnly \/ SkipStatus \/ MoveChunk \/ MoveTail \/ DropTail

Spec == Init /\ [][Next]_vars /\ WF_vars(Next)

-----------------------------------------------------------------------------
\* Type invariant of the strip loop's variables (locals of both readers and
\* the two readbuffer fields of ftdi_context).
TypeOK == /\ packet_size \in PacketSizes
          /\ received \in 0..MaxLength
          /\ readbuffer \in [0..received-1 -> 0..received-1]
          /\ readbuffer_offset \in {0, StatusLength}
          /\ actual_length \in Nat
          /\ i \in Nat
          /\ pc \in {"start", "chunks", "done"}

\* Data byte j of packet q, in packets of p bytes, was received in this cell
PayloadCell(p, q, j) == p * q + StatusLength + j

\* and belongs here once the status bytes are gone.
PackedCell(p, q, j) == StatusLength + (p - StatusLength) * q + j

\* When the loop has ended, the actual_length bytes at readbuffer_offset are
\* exactly the data bytes of all packets in the order received: no status byte
\* is left among them, none of theirs was overwritten by an earlier memmove.
Stripped ==
    pc = "done" /\ received > StatusLength =>
        \A q \in 0..num_of_chunks, j \in 0..packet_size - StatusLength - 1 :
            PayloadCell(packet_size, q, j) < received =>
                readbuffer[PackedCell(packet_size, q, j)]
                    = PayloadCell(packet_size, q, j)

\* The length the loop computes by subtraction is the number of data bytes,
\* for every way a transfer can end: full packet, partial packet, and a last
\* packet of one or two status bytes.
LengthExact ==
    pc = "done" /\ received > StatusLength =>
        actual_length = PayloadLength(packet_size, received)

\* No memmove reads beyond the bytes this transfer brought, so nothing an
\* earlier transfer left in the buffer can reach the caller.
MovesInside ==
    pc = "chunks" =>
        /\ MoreChunks => Source + packet_size - StatusLength <= received
        /\ ~MoreChunks /\ TailLength > 0 => Source + TailLength <= received
=============================================================================
