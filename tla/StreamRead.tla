----------------------------- MODULE StreamRead -----------------------------
(***************************************************************************)
(* ftdi_readstream (ftdi_stream.c): a pool of bulk transfers kept in       *)
(* flight, each handled by ftdi_readstream_cb, which hands the packets to  *)
(* the client's callback and submits the transfer again; a loop handles    *)
(* libusb's events and watches for errors and for silence.                 *)
(*                                                                         *)
(* Bulk transfers on one endpoint land in the order they were submitted.   *)
(* Data bytes are numbered in the order the chip sends them.  Callbacks    *)
(* run inside libusb_handle_events_timeout and also inside the control     *)
(* transfer that turns the synchronous FIFO mode on, which handles events  *)
(* while it waits.  The chip starts every packet with both status bytes.   *)
(* A transfer that lands after the function has returned finds its         *)
(* FTDIStreamState gone from the stack: the model ends with the return.    *)
(***************************************************************************)
EXTENDS Packets, Sequences, FiniteSets

CONSTANTS PacketSize,           \* ftdi->max_packet_size
          PacketsPerTransfer,
          NumTransfers,
          MaxSent               \* bound on the bytes the chip sends

ASSUME StreamReadAssumption ==
    /\ PacketSize \in Nat /\ PacketSize > StatusLength
    /\ PacketsPerTransfer \in Nat \ {0}
    /\ NumTransfers \in Nat
    /\ MaxSent \in Nat

VARIABLES
    phase,       \* "start", "setup" (submitting), "syncff" (turning the mode on),
                 \* "events" (the loop) or "returned"
    xferIndex,   \* transfers submitted so far
    inflight,    \* the transfers libusb has, oldest first
    freed,       \* transfers given up because the callback said so
    dead,        \* transfers that failed, or could not be submitted again
    handling,    \* the transfer ftdi_readstream_cb is running for, 0 if none
    length,      \* raw bytes of it not yet handed out
    pending,     \* the data bytes among them
    res,         \* the callback's last answer: 0 to go on
    activity,    \* state.activity # 0
    result,      \* state.result
    retval,      \* what ftdi_readstream returned
    totalBytes,  \* state.progress.current.totalBytes
    sent,        \* data bytes the chip has sent
    delivered,   \* bytes handed to the client
    lost,        \* bytes in transfers that failed
    refused      \* the client's callback has returned a nonzero value

pool    == <<inflight, freed, dead>>
cb      == <<handling, length, pending, res>>
account == <<totalBytes, sent, delivered, lost, refused>>
vars == <<phase, xferIndex, pool, cb, activity, result, retval, account>>

bufferSize == PacketsPerTransfer * PacketSize

\* An answer of the callback other than 0; what a failed call returns; what the
\* loop reports when nothing happened.
NonZero == 7
LibusbError == -1
Silence == 1

Init == /\ phase = "start"
        /\ xferIndex = 0
        /\ inflight = << >>
        /\ freed = {} /\ dead = {}
        /\ handling = 0 /\ length = 0 /\ pending = << >> /\ res = 0
        /\ activity = TRUE
        /\ result = 0 /\ retval = 0
        /\ totalBytes = 0 /\ sent = 0 /\ delivered = << >> /\ lost = 0
        /\ refused = FALSE

-----------------------------------------------------------------------------
(* Setting up.                                                             *)

Return(value) == phase' = "returned" /\ retval' = value

\* Mode reset and purge, then the array of transfers.  Unsupported chip, a
\* failed request and a failed calloc are all reported by a nonzero value.
Start == /\ phase = "start"
         /\ \/ phase' = "setup" /\ UNCHANGED retval
            \/ Return(1)
            \/ Return(LibusbError)
         /\ UNCHANGED <<xferIndex, pool, cb, activity, result, account>>

\* Mutant: one transfer more than asked for.
MoreTransfers_OneTooMany == xferIndex <= NumTransfers

MoreTransfers == xferIndex < NumTransfers

Submit == /\ phase = "setup"
          /\ MoreTransfers
          /\ xferIndex' = xferIndex + 1
          /\ inflight' = Append(inflight, xferIndex + 1)
          /\ UNCHANGED <<phase, freed, dead, cb, activity, result, retval, account>>

\* No transfer, no buffer, or libusb_submit_transfer fails: straight to
\* cleanup, which frees the array only.
SubmitFails == /\ phase = "setup"
               /\ MoreTransfers
               /\ Return(LibusbError)
               /\ UNCHANGED <<xferIndex, pool, cb, activity, result, account>>

AllSubmitted == /\ phase = "setup"
                /\ ~MoreTransfers
                /\ phase' = "syncff"
                /\ UNCHANGED <<xferIndex, pool, cb, activity, result, retval, account>>

\* ftdi_set_bitmode(BITMODE_SYNCFF) returns.  err is 0 when it fails, so the
\* value returned is state.result.
SyncFF == /\ phase = "syncff"
          /\ handling = 0
          /\ \/ phase' = "events" /\ UNCHANGED retval
             \/ Return(result)
          /\ UNCHANGED <<xferIndex, pool, cb, activity, result, account>>

-----------------------------------------------------------------------------
(* ftdi_readstream_cb                                                      *)

EventsRun == phase \in {"syncff", "events"}

\* m raw bytes land in the oldest transfer.
Land(m) == /\ EventsRun
           /\ handling = 0
           /\ inflight # << >>
           /\ m % PacketSize = 0 \/ m % PacketSize >= StatusLength
           /\ sent + PayloadLength(PacketSize, m) <= MaxSent
           /\ sent' = sent + PayloadLength(PacketSize, m)
           /\ inflight' = Tail(inflight)
           /\ activity' = TRUE

Completed(m) == /\ Land(m)
                /\ handling' = Head(inflight)
                /\ length' = m
                /\ pending' = [k \in 1..PayloadLength(PacketSize, m) |-> sent + k]
                /\ res' = 0
                /\ UNCHANGED <<phase, xferIndex, freed, dead, result, retval, totalBytes,
                               delivered, lost, refused>>

\* Any other status: the transfer is neither submitted again nor freed.
Failed(m) == /\ Land(m)
             /\ dead' = dead \cup {Head(inflight)}
             /\ result' = LibusbError
             /\ lost' = lost + PayloadLength(PacketSize, m)
             /\ UNCHANGED <<phase, xferIndex, freed, cb, retval, totalBytes, delivered, refused>>

PacketLen == IF length > PacketSize THEN PacketSize ELSE length

PayloadLen == PacketLen - StatusLength

\* Mutant: one byte more is skipped than the status takes.
HandedOut_SkipsThree == SubSeq(pending, 2, PayloadLen)

HandedOut == SubSeq(pending, 1, PayloadLen)

\* Mutant: the pointer into the buffer is not moved on.
Rest_SamePlace == pending

Rest == SubSeq(pending, PayloadLen + 1, Len(pending))

\* One round of the loop over the packets; an answer that is not the last
\* one is forgotten.
Packet(answer) ==
    /\ handling # 0
    /\ length > 0
    /\ totalBytes' = totalBytes + PayloadLen
    /\ delivered' = delivered \o HandedOut
    /\ pending' = Rest
    /\ length' = length - PacketLen
    /\ res' = answer
    /\ refused' = (refused \/ answer # 0)
    /\ UNCHANGED <<phase, xferIndex, pool, handling, activity, result, retval, sent, lost>>

\* Mutant: the transfer is submitted again although it was freed.
Resubmits_Always == TRUE

Resubmits == res = 0

\* After the loop: free the transfer, or submit it again.
Finish ==
    /\ handling # 0
    /\ length = 0
    /\ handling' = 0
    /\ freed' = IF res # 0 THEN freed \cup {handling} ELSE freed
    /\ IF Resubmits
         THEN \/ /\ inflight' = Append(inflight, handling)
                 /\ result' = 0
                 /\ UNCHANGED dead
              \/ /\ dead' = dead \cup {handling}
                 /\ result' = LibusbError
                 /\ UNCHANGED inflight
         ELSE UNCHANGED <<inflight, dead, result>>
    /\ UNCHANGED <<phase, xferIndex, length, pending, res, activity, retval, account>>

-----------------------------------------------------------------------------
(* The loop.                                                               *)

\* Mutant: silence is not looked at.
Verdict_NoWatchdog(err) == IF result = 0 THEN err ELSE result

Verdict(err) == IF ~activity THEN Silence
                ELSE IF result = 0 THEN err ELSE result

\* libusb_handle_events_timeout returns after its timeout or after some
\* callbacks.  From time to time the callback is told about the progress.
EventsReturn(err) ==
    /\ phase = "events"
    /\ handling = 0
    /\ result' = Verdict(err)
    /\ activity' = FALSE
    /\ \/ UNCHANGED refused
       \/ refused' = TRUE
    /\ IF result' = 0 THEN UNCHANGED <<phase, retval>> ELSE Return(result')
    /\ UNCHANGED <<xferIndex, pool, cb, totalBytes, sent, delivered, lost>>

Callback == \/ \E m \in 0..bufferSize : Completed(m) \/ Failed(m)
            \/ \E answer \in {0, NonZero} : Packet(answer)
            \/ Finish

Loop == \E err \in {0, LibusbError} : EventsReturn(err)

Next == Start \/ Submit \/ SubmitFails \/ AllSubmitted \/ SyncFF \/ Callback \/ Loop

\* The function runs in one thread: it goes on when it can, the client's
\* callback returns, and handling events ends at its timeout at the latest.
\* (If it never returns without an error, the first error ends the loop.)
Spec == /\ Init /\ [][Next]_vars
        /\ WF_vars(EventsReturn(0))
        /\ WF_vars(\E answer \in {0, NonZero} : Packet(answer))
        /\ WF_vars(Finish)

-----------------------------------------------------------------------------
\* Type invariant: FTDIStreamState, the transfers, and the callback's locals.
TypeOK == /\ phase \in {"start", "setup", "syncff", "events", "returned"}
          /\ xferIndex \in 0..NumTransfers
          /\ inflight \in Seq(1..NumTransfers)
          /\ freed \subseteq 1..NumTransfers
          /\ dead \subseteq 1..NumTransfers
          /\ handling \in 0..NumTransfers
          /\ length \in 0..bufferSize
          /\ pending \in Seq(Nat)
          /\ res \in {0, NonZero}
          /\ activity \in BOOLEAN
          /\ result \in {0, Silence, LibusbError}
          /\ retval \in {0, Silence, LibusbError}
          /\ totalBytes \in Nat
          /\ sent \in Nat
          /\ delivered \in Seq(Nat)
          /\ lost \in Nat
          /\ refused \in BOOLEAN

\* The progress report counts what the client got, and every byte the chip
\* sent was handed out, waits in the transfer being handled, or was in a
\* transfer that failed.
Accounting == /\ totalBytes = Len(delivered)
              /\ totalBytes + Len(pending) + lost = sent

\* Every transfer submitted is in exactly one place: with libusb, once; in
\* the callback; freed; or given up.  None is used again after it was freed,
\* none is submitted twice, and the pool only shrinks by refusals and errors.
OnePlaceEach ==
    LET libusb == {inflight[k] : k \in 1..Len(inflight)}
        inCb   == {handling} \ {0}
    IN  /\ libusb \cup inCb \cup freed \cup dead = 1..xferIndex
        /\ Len(inflight) + Cardinality(inCb) + Cardinality(freed) + Cardinality(dead)
             = xferIndex

\* Once every transfer is freed or dead the loop notices the silence and
\* returns: it never waits for ever for transfers that are not there.
SilenceEnds == (phase = "events" /\ inflight = << >> /\ handling = 0) ~> (phase = "returned")

\* The packets reach the client as a byte stream.
Stream == INSTANCE ByteStream WITH queue <- pending

StreamSpec == Stream!Spec

-----------------------------------------------------------------------------
\* The function's documentation: it "continuously transfers data until either
\* an error occurs or the callback returns a nonzero value".
CallbackStops == [][refused => UNCHANGED delivered]_vars

\* The comment before the cleanup: "Cancel any outstanding transfers".
NothingOutstanding == phase = "returned" => inflight = << >>
=============================================================================
