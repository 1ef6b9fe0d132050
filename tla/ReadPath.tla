------------------------------ MODULE ReadPath ------------------------------
(***************************************************************************)
(* Reading from the chip: ftdi_read_data (synchronous) and                 *)
(* ftdi_read_data_submit / ftdi_read_data_cb / ftdi_transfer_data_done     *)
(* (asynchronous), with the readbuffer in ftdi_context they share and the  *)
(* calls that empty or resize it.                                          *)
(*                                                                         *)
(* Data bytes are numbered in the order the chip sends them.  Removing the *)
(* status bytes from a transfer is module StatusStrip; here a transfer of  *)
(* m raw bytes leaves PayloadLength(PacketSize, m) data bytes from cell 2  *)
(* on, as StatusStrip establishes for a transfer that started at offset 0  *)
(* (BufferAligned below says that every transfer does).                    *)
(*                                                                         *)
(* Client discipline: reads do not overlap and the chunk size is not       *)
(* changed under one; the library has no lock and does not check it.       *)
(***************************************************************************)
EXTENDS Packets, Sequences

CONSTANTS PacketSize,   \* ftdi->max_packet_size
          ChunkSizes,   \* chunk sizes the client sets, the first one included
          MaxBulk,      \* MAX_BULK_BUFFER_LENGTH, 16384 on Linux
          Sizes,        \* sizes of the client's reads
          MaxSent       \* bound on the bytes the chip sends

ASSUME ReadAssumption ==
    /\ PacketSize \in Nat /\ PacketSize > StatusLength
    /\ ChunkSizes \subseteq Nat \ {0}
    /\ MaxBulk \in Nat \ {0}
    /\ Sizes \subseteq Nat
    /\ MaxSent \in Nat

VARIABLES
    readbuffer,            \* cell c is element c + 1
    readbuffer_offset,
    readbuffer_remaining,
    readbuffer_chunksize,
    mode,        \* what the client is in: "idle", a synchronous read ("sync"),
                 \* between submit and done ("async"), done's cancel loop
                 \* ("cancelling"), after freeing a transfer in flight ("freed"),
                 \* past the end of ftdi_read_data's loop ("neverReached")
    size,        \* of the read in progress
    data,        \* what its buffer holds so far; its length is `offset`
    completed,   \* tc->completed
    transfer,    \* tc->transfer: "null", "inflight" or "landed"
    status,      \* transfer->status: "none", "COMPLETED" or "failed"
    sent,        \* data bytes the chip has sent
    delivered,   \* bytes returned to the client
    discarded    \* bytes dropped by a call that failed or was asked to

buffer  == <<readbuffer, readbuffer_offset, readbuffer_remaining>>
control == <<completed, transfer, status>>
request == <<mode, size, data, completed, transfer, status>>
vars == <<buffer, readbuffer_chunksize, request, sent, delivered, discarded>>

\* memcpy from the readbuffer.
BufferBytes(from, n) == SubSeq(readbuffer, from + 1, from + n)

Leftover == BufferBytes(readbuffer_offset, readbuffer_remaining)

\* Everything the library holds, in the order it goes to the client.
Held == data \o Leftover

Init == /\ readbuffer = << >>
        /\ readbuffer_offset = 0
        /\ readbuffer_remaining = 0
        /\ readbuffer_chunksize \in ChunkSizes
        /\ readbuffer_chunksize <= MaxBulk
        /\ mode = "idle"
        /\ size = 0
        /\ data = << >>
        /\ completed = FALSE
        /\ transfer = "null"
        /\ status = "none"
        /\ sent = 0
        /\ delivered = << >>
        /\ discarded = 0

-----------------------------------------------------------------------------
(* The readbuffer and the transfers into it.                               *)

EmptyBuffer == readbuffer_offset' = 0 /\ readbuffer_remaining' = 0

\* Mutant: the offset of the previous read survives.
StartTransfer_KeepsOffset == readbuffer_remaining' = 0 /\ UNCHANGED readbuffer_offset

\* Every transfer is started on an empty buffer, offset reset.
StartTransfer == EmptyBuffer

Payload(m) == PayloadLength(PacketSize, m)

\* m raw bytes arrive: two status bytes (number 0), then the stripped data.
NewBytes(m) == [k \in 1..Payload(m) |-> sent + k]
Received(m) == <<0, 0>> \o NewBytes(m)

Arrive(m) == /\ m \in 0..readbuffer_chunksize
             /\ sent + Payload(m) <= MaxSent
             /\ sent' = sent + Payload(m)

\* What a transfer finds: nothing but status, too little, exactly enough, or
\* more than the client asked for.
StatusOnly(m) == m <= StatusLength
Wanted        == size - Len(data)
Exact(m)      == ~StatusOnly(m) /\ Payload(m) = Wanted
TooLittle(m)  == ~StatusOnly(m) /\ Payload(m) < Wanted
TooMuch(m)    == ~StatusOnly(m) /\ Payload(m) > Wanted

\* Mutant: the part handed out stays in the buffer.
KeepRest_ForgetsOffset(m) ==
    /\ readbuffer' = Received(m)
    /\ readbuffer_offset' = StatusLength
    /\ readbuffer_remaining' = Payload(m) - Wanted

\* The client gets what it wants, the rest stays for the next read.
KeepRest(m) == /\ readbuffer' = Received(m)
               /\ readbuffer_offset' = StatusLength + Wanted
               /\ readbuffer_remaining' = Payload(m) - Wanted

Return(bytes) == /\ delivered' = delivered \o bytes
                 /\ mode' = "idle"
                 /\ size' = 0
                 /\ data' = << >>
                 /\ UNCHANGED discarded

\* An error return, or a byte count of -1: what the read had gathered is gone.
Drop(n, next) == /\ discarded' = discarded + n
                 /\ mode' = next
                 /\ size' = 0
                 /\ data' = << >>
                 /\ UNCHANGED delivered

-----------------------------------------------------------------------------
(* ftdi_read_data                                                          *)

\* Mutant: the bytes handed out are not taken off the buffer.
TakeFromBuffer_KeepsRemaining(n) ==
    /\ readbuffer_offset' = readbuffer_offset + n
    /\ UNCHANGED <<readbuffer, readbuffer_remaining>>

\* Everything we want is still in the readbuffer (both kinds of read).
TakeFromBuffer(n) ==
    /\ readbuffer_remaining' = readbuffer_remaining - n
    /\ readbuffer_offset' = readbuffer_offset + n
    /\ UNCHANGED readbuffer

ReadFromBuffer(n) ==
    /\ mode = "idle"
    /\ n <= readbuffer_remaining
    /\ TakeFromBuffer(n)
    /\ Return(BufferBytes(readbuffer_offset, n))
    /\ UNCHANGED <<readbuffer_chunksize, control, sent>>

\* Not enough there: take it all and start the first bulk transfer.
ReadStart(n) ==
    /\ mode = "idle"
    /\ n > readbuffer_remaining
    /\ data' = Leftover
    /\ size' = n
    /\ mode' = "sync"
    /\ StartTransfer
    /\ UNCHANGED <<readbuffer, readbuffer_chunksize, control, sent, delivered, discarded>>

\* A transfer without data ends the read: "no more data to read?"
ReadShort(m) ==
    /\ mode = "sync"
    /\ Arrive(m)
    /\ StatusOnly(m)
    /\ Return(data)
    /\ UNCHANGED <<buffer, readbuffer_chunksize, control>>

\* Mutant: the offset into the client's buffer is not advanced.
Gathered_SamePlace(m) == data

Gathered(m) == data \o NewBytes(m)

\* Mutant: forgets that a full buffer ends the loop before its condition does.
LoopsAgain_Always(m) == Payload(m) <= Wanted

\* The data fits and the buffer is not full: round the loop.
LoopsAgain(m) == TooLittle(m)

\* The loop's condition, with the two ways out of it.
ReadMore(m) ==
    /\ mode = "sync"
    /\ Arrive(m)
    /\ ~StatusOnly(m)
    /\ LoopsAgain(m)
    /\ readbuffer' = Received(m)
    /\ data' = Gathered(m)
    /\ mode' = IF Len(data) + Payload(m) < size /\ Payload(m) > 0
                 THEN "sync" ELSE "neverReached"
    /\ StartTransfer
    /\ UNCHANGED <<readbuffer_chunksize, size, control, delivered, discarded>>

ReadExact(m) ==
    /\ mode = "sync"
    /\ Arrive(m)
    /\ Exact(m)
    /\ readbuffer' = Received(m)
    /\ readbuffer_offset' = StatusLength
    /\ UNCHANGED readbuffer_remaining
    /\ Return(Gathered(m))
    /\ UNCHANGED <<readbuffer_chunksize, control>>

ReadPart(m) ==
    /\ mode = "sync"
    /\ Arrive(m)
    /\ TooMuch(m)
    /\ KeepRest(m)
    /\ Return(data \o SubSeq(NewBytes(m), 1, Wanted))
    /\ UNCHANGED <<readbuffer_chunksize, control>>

\* libusb_bulk_transfer fails, possibly (a timeout) after data has arrived.
ReadFails(m) ==
    /\ mode = "sync"
    /\ Arrive(m)
    /\ Drop(Len(data) + Payload(m), "idle")
    /\ readbuffer' = Received(m)
    /\ UNCHANGED <<readbuffer_offset, readbuffer_remaining, readbuffer_chunksize, control>>

ReadData == \/ \E n \in Sizes : ReadFromBuffer(n) \/ ReadStart(n)
            \/ \E m \in 0..readbuffer_chunksize :
                   ReadShort(m) \/ ReadMore(m) \/ ReadExact(m) \/ ReadPart(m) \/ ReadFails(m)

-----------------------------------------------------------------------------
(* ftdi_read_data_submit.  When malloc or libusb_alloc_transfer fails it   *)
(* returns NULL and has changed nothing.                                   *)

SubmitFromBuffer(n) ==
    /\ mode = "idle"
    /\ n <= readbuffer_remaining
    /\ TakeFromBuffer(n)
    /\ data' = BufferBytes(readbuffer_offset, n)
    /\ size' = n
    /\ mode' = "async"
    /\ completed' = TRUE
    /\ transfer' = "null"
    /\ status' = "none"
    /\ UNCHANGED <<readbuffer_chunksize, sent, delivered, discarded>>

Submit(n) ==
    /\ mode = "idle"
    /\ n > readbuffer_remaining
    /\ data' = Leftover
    /\ size' = n
    /\ mode' = "async"
    /\ StartTransfer
    /\ completed' = FALSE
    /\ transfer' = "inflight"
    /\ status' = "none"
    /\ UNCHANGED <<readbuffer, readbuffer_chunksize, sent, delivered, discarded>>

\* libusb_submit_transfer fails: what was left in the readbuffer is in the
\* client's buffer, but the client is told NULL.
SubmitFails(n) ==
    /\ mode = "idle"
    /\ n > readbuffer_remaining
    /\ Drop(readbuffer_remaining, "idle")
    /\ EmptyBuffer
    /\ UNCHANGED <<readbuffer, readbuffer_chunksize, control, sent>>

-----------------------------------------------------------------------------
(* ftdi_read_data_cb.  It looks at actual_length only: a transfer that     *)
(* timed out, failed or was cancelled is handled like a completed one.     *)

Statuses == {"COMPLETED", "failed"}

Landed(m, s) == /\ transfer = "inflight"
                /\ Arrive(m)
                /\ readbuffer' = Received(m)
                /\ status' = s
                /\ UNCHANGED <<readbuffer_chunksize, mode, size, delivered, discarded>>

\* Not enough yet: submit again, which may fail.
CbMore(m, s) ==
    /\ Landed(m, s)
    /\ StatusOnly(m) \/ TooLittle(m)
    /\ data' = data \o NewBytes(m)
    /\ EmptyBuffer
    /\ \/ transfer' = "inflight" /\ UNCHANGED completed
       \/ transfer' = "landed" /\ completed' = TRUE

CbExact(m, s) ==
    /\ Landed(m, s)
    /\ Exact(m)
    /\ data' = data \o NewBytes(m)
    /\ EmptyBuffer
    /\ transfer' = "landed"
    /\ completed' = TRUE

CbPart(m, s) ==
    /\ Landed(m, s)
    /\ TooMuch(m)
    /\ data' = data \o SubSeq(NewBytes(m), 1, Wanted)
    /\ KeepRest(m)
    /\ transfer' = "landed"
    /\ completed' = TRUE

-----------------------------------------------------------------------------
(* ftdi_transfer_data_done, called by the client at any time after submit. *)

FreeControl == /\ completed' = FALSE
               /\ transfer' = "null"
               /\ status' = "none"

Successful == transfer = "null" \/ status = "COMPLETED"

Done == /\ mode = "async"
        /\ completed
        /\ \/ Successful /\ Return(data)
           \/ ~Successful /\ Drop(Len(data), "idle")
        /\ FreeControl
        /\ UNCHANGED <<buffer, readbuffer_chunksize, sent>>

\* libusb_handle_events fails (other than by INTERRUPTED): cancel the transfer
\* and wait on.
EventsFail == /\ mode = "async"
              /\ ~completed
              /\ mode' = "cancelling"
              /\ UNCHANGED <<buffer, readbuffer_chunksize, size, data, control, sent,
                             delivered, discarded>>

DoneCancelled == /\ mode = "cancelling"
                 /\ completed
                 /\ Drop(Len(data), "idle")
                 /\ FreeControl
                 /\ UNCHANGED <<buffer, readbuffer_chunksize, sent>>

\* It fails again: the transfer is freed in flight.  What the program does
\* when that transfer lands is undefined, so the model ends here.
Abandon == /\ mode = "cancelling"
           /\ ~completed
           /\ Drop(Len(data), "freed")
           /\ FreeControl
           /\ UNCHANGED <<buffer, readbuffer_chunksize, sent>>

AsyncRead == \/ \E n \in Sizes : SubmitFromBuffer(n) \/ Submit(n) \/ SubmitFails(n)
             \/ \E m \in 0..readbuffer_chunksize, s \in Statuses :
                    CbMore(m, s) \/ CbExact(m, s) \/ CbPart(m, s)
             \/ Done \/ EventsFail \/ DoneCancelled \/ Abandon

-----------------------------------------------------------------------------
(* Calls that throw the buffered bytes away.                               *)

\* ftdi_usb_reset and ftdi_usb_purge_rx_buffer, once the chip has accepted
\* the request; legal while a transfer is in flight.
PurgeRx == /\ mode \in {"idle", "async"}
           /\ discarded' = discarded + readbuffer_remaining
           /\ EmptyBuffer
           /\ UNCHANGED <<readbuffer, readbuffer_chunksize, request, sent, delivered>>

\* Mutant: the limit is not applied.
Clamp_None(c) == c

Clamp(c) == IF c > MaxBulk THEN MaxBulk ELSE c

\* ftdi_read_data_set_chunksize; realloc may fail after the data is gone.
SetChunkSize(c) ==
    /\ mode = "idle"
    /\ discarded' = discarded + readbuffer_remaining
    /\ EmptyBuffer
    /\ \/ readbuffer_chunksize' = Clamp(c)
       \/ UNCHANGED readbuffer_chunksize
    /\ UNCHANGED <<readbuffer, request, sent, delivered>>

Next == ReadData \/ AsyncRead \/ PurgeRx \/ \E c \in ChunkSizes : SetChunkSize(c)

Spec == Init /\ [][Next]_vars

-----------------------------------------------------------------------------
\* Type invariant: the readbuffer fields of ftdi_context, the arguments and
\* locals of a read in progress, and ftdi_transfer_control.
TypeOK == /\ readbuffer \in Seq(Nat)
          /\ readbuffer_offset \in Nat
          /\ readbuffer_remaining \in Nat
          /\ readbuffer_chunksize \in 1..MaxBulk
          /\ mode \in {"idle", "sync", "async", "cancelling", "freed", "neverReached"}
          /\ size \in Nat
          /\ data \in Seq(Nat)
          /\ completed \in BOOLEAN
          /\ transfer \in {"null", "inflight", "landed"}
          /\ status \in {"none"} \cup Statuses
          /\ sent \in Nat
          /\ delivered \in Seq(Nat)
          /\ discarded \in Nat

\* Every data byte the chip ever sent is in exactly one place: returned to the
\* client, in the buffer of the read in progress, left over in the
\* readbuffer, or dropped by a call that reported failure or was told to.  No
\* byte disappears without the client being able to know.
Conservation ==
    Len(delivered) + Len(data) + readbuffer_remaining + discarded = sent

\* While the chip may write into the readbuffer it holds nothing, and the
\* status bytes will be stripped from offset 0 on: both readers add 2 to the
\* offset without looking at it, and start the next transfer over it.
BufferAligned ==
    mode = "sync" \/ transfer = "inflight" =>
        readbuffer_offset = 0 /\ readbuffer_remaining = 0

\* "never reached": ftdi_read_data's loop is only left by a return statement,
\* so a client is never told -127.
NeverReached == mode # "neverReached"

\* Each round of ftdi_read_data's loop and each callback that submits again
\* after data came brings the read nearer to its end.
ReadProgress ==
    [][ /\ mode = "sync" /\ mode' = "sync" => Len(data') > Len(data)
        /\ transfer = "inflight" /\ sent' > sent => Len(data') > Len(data) ]_vars

\* Reading implements the byte stream: what is held is the read in progress
\* and the leftover, delivered from the front.
Stream == INSTANCE ByteStream
            WITH queue <- Held

StreamSpec == Stream!Spec
=============================================================================
