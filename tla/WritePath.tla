----------------------------- MODULE WritePath -----------------------------
(***************************************************************************)
(* Writing to the chip: ftdi_write_data (synchronous) and                  *)
(* ftdi_write_data_submit / ftdi_write_data_cb / ftdi_transfer_data_done   *)
(* (asynchronous), any number of them at a time.  The writes share the bulk *)
(* endpoint, which takes transfers in the order submitted, and the chunk   *)
(* size, which the client may change at any time.                          *)
(*                                                                         *)
(* A byte is known by its write and its place in the client's buffer; wire *)
(* is what reached the chip.  libusb's events may be handled at any time:  *)
(* by a call that waits, or by a thread of the client's.                   *)
(***************************************************************************)
EXTENDS Integers, Sequences

CONSTANTS Writes,       \* the calls the client makes
          ChunkSizes,   \* chunk sizes it sets, the first one included
          Sizes         \* sizes of its writes

ASSUME WriteAssumption == /\ ChunkSizes \subseteq Nat \ {0}
                          /\ Sizes \subseteq Nat

VARIABLES
    writebuffer_chunksize,
    tc,      \* per write: its progress, ftdi_transfer_control or the locals
             \* of ftdi_write_data
    queue,   \* the transfers libusb has, oldest first
    wire

vars == <<writebuffer_chunksize, tc, queue, wire>>

\* call is "new", "sync" (in ftdi_write_data), "async" (submitted; the client
\* waits for it sooner or later), "cancelling" (in the cancel loop of
\* ftdi_transfer_data_done), "returned", or "freed" with its transfer in flight.
Calls    == {"new", "sync", "async", "cancelling", "returned", "freed"}
Statuses == {"COMPLETED", "failed"}

Init == /\ writebuffer_chunksize \in ChunkSizes
        /\ tc = [w \in Writes |-> [call |-> "new", size |-> 0, offset |-> 0,
                                   completed |-> FALSE, status |-> "failed", retval |-> 0]]
        /\ queue = << >>
        /\ wire = << >>

-----------------------------------------------------------------------------
(* Transfers.                                                              *)

\* Mutant: what is left is computed the wrong way round.
ChunkAt_Swapped(size, offset) ==
    IF offset + writebuffer_chunksize > size THEN offset - size ELSE writebuffer_chunksize

\* Mutant: the last chunk is not cut to what is left.
ChunkAt_Whole(size, offset) == writebuffer_chunksize

ChunkAt(size, offset) ==
    IF offset + writebuffer_chunksize > size THEN size - offset ELSE writebuffer_chunksize

\* Mutant: the buffer pointer is not moved on.
Next_FromStart(w, size, offset) ==
    [write |-> w, from |-> 0, length |-> ChunkAt(size, offset)]

\* The transfer that goes on with write w at offset.
NextTransfer(w, size, offset) ==
    [write |-> w, from |-> offset, length |-> ChunkAt(size, offset)]

\* The oldest transfer ends: n of its bytes reached the chip, all of them
\* unless it failed (it timed out, was cancelled, or the device is gone).
Landed(t, n, s) == /\ queue # << >>
                   /\ t = Head(queue)
                   /\ n \in 0..t.length
                   /\ s = "COMPLETED" => n = t.length
                   /\ wire' = wire \o [k \in 1..n |-> <<t.write, t.from + k>>]
                   /\ UNCHANGED writebuffer_chunksize

-----------------------------------------------------------------------------
(* ftdi_write_data                                                         *)

\* One round of the loop begins, or the loop is over and returns.
GoOn(w, size, offset, rest) ==
    IF offset < size
      THEN /\ tc' = [tc EXCEPT ![w].call = "sync", ![w].size = size, ![w].offset = offset]
           /\ queue' = Append(rest, NextTransfer(w, size, offset))
      ELSE /\ tc' = [tc EXCEPT ![w].call = "returned", ![w].size = size,
                               ![w].offset = offset, ![w].retval = offset]
           /\ queue' = rest

WriteData(w, n) == /\ tc[w].call = "new"
                   /\ GoOn(w, n, 0, queue)
                   /\ UNCHANGED <<writebuffer_chunksize, wire>>

\* libusb_bulk_transfer returns; a timeout after part of the chunk is an error.
SyncLands(t, n, s) ==
    /\ Landed(t, n, s)
    /\ tc[t.write].call = "sync"
    /\ LET w == t.write
           offset == tc[w].offset + n
       IN  IF s = "COMPLETED"
             THEN GoOn(w, tc[w].size, offset, Tail(queue))
             ELSE /\ tc' = [tc EXCEPT ![w].call = "returned", ![w].offset = offset,
                                      ![w].retval = -1]
                  /\ queue' = Tail(queue)

-----------------------------------------------------------------------------
(* ftdi_write_data_submit.  When it fails it returns NULL and has changed  *)
(* nothing.                                                                *)

WriteSubmit(w, n) ==
    /\ tc[w].call = "new"
    /\ tc' = [tc EXCEPT ![w].call = "async", ![w].size = n]
    /\ queue' = Append(queue, NextTransfer(w, n, 0))
    /\ UNCHANGED <<writebuffer_chunksize, wire>>

-----------------------------------------------------------------------------
(* ftdi_write_data_cb.  It does not look at the transfer's status.         *)

Async == {"async", "cancelling"}

Finished(t, n) == tc[t.write].offset + n = tc[t.write].size

CbAdvance(t, n, s, completed) ==
    /\ Landed(t, n, s)
    /\ tc[t.write].call \in Async
    /\ tc' = [tc EXCEPT ![t.write].offset = @ + n, ![t.write].status = s,
                        ![t.write].completed = completed]

CbCompletes(t, n, s) ==
    /\ Finished(t, n)
    /\ CbAdvance(t, n, s, TRUE)
    /\ queue' = Tail(queue)

CbResubmits(t, n, s) ==
    /\ ~Finished(t, n)
    /\ CbAdvance(t, n, s, FALSE)
    /\ queue' = Append(Tail(queue),
                       NextTransfer(t.write, tc[t.write].size, tc[t.write].offset + n))

\* Mutant: a failed submission is not noticed.
CbGivesUp_Unnoticed(t, n, s) ==
    /\ ~Finished(t, n)
    /\ CbAdvance(t, n, s, FALSE)
    /\ queue' = Tail(queue)

\* The submission of the next chunk fails.
CbGivesUp(t, n, s) ==
    /\ ~Finished(t, n)
    /\ CbAdvance(t, n, s, TRUE)
    /\ queue' = Tail(queue)

-----------------------------------------------------------------------------
(* ftdi_transfer_data_done                                                 *)

\* Mutant: reports the size asked for.
Result_Size(w) == IF tc[w].status = "COMPLETED" THEN tc[w].size ELSE -1

Result(w) == IF tc[w].status = "COMPLETED" THEN tc[w].offset ELSE -1

End(w, call, value) ==
    /\ tc' = [tc EXCEPT ![w].call = call, ![w].retval = value]
    /\ UNCHANGED <<writebuffer_chunksize, queue, wire>>

\* Mutant: does not wait.
Complete_Always(w) == TRUE

Complete(w) == tc[w].completed

Done(w) == tc[w].call = "async" /\ Complete(w) /\ End(w, "returned", Result(w))

\* libusb_handle_events fails: cancel the transfer and wait on.
EventsFail(w) == /\ tc[w].call = "async"
                 /\ ~Complete(w)
                 /\ End(w, "cancelling", 0)

DoneCancelled(w) == tc[w].call = "cancelling" /\ Complete(w) /\ End(w, "returned", -1)

\* It fails again: the transfer is freed in flight.
Abandon(w) == tc[w].call = "cancelling" /\ ~Complete(w) /\ End(w, "freed", -1)

-----------------------------------------------------------------------------
\* ftdi_write_data_set_chunksize
SetChunkSize(c) == /\ writebuffer_chunksize' = c
                   /\ UNCHANGED <<tc, queue, wire>>

Lands(t, n, s) == \/ SyncLands(t, n, s)
                  \/ CbCompletes(t, n, s) \/ CbResubmits(t, n, s) \/ CbGivesUp(t, n, s)

Landing == queue # << >> /\ LET t == Head(queue)
                            IN  \E n \in 0..t.length, s \in Statuses : Lands(t, n, s)

Accepted == queue # << >> /\ LET t == Head(queue) IN Lands(t, t.length, "COMPLETED")

Next == \/ \E w \in Writes, n \in Sizes : WriteData(w, n) \/ WriteSubmit(w, n)
        \/ Landing
        \/ \E w \in Writes : Done(w) \/ EventsFail(w) \/ DoneCancelled(w) \/ Abandon(w)
        \/ \E c \in ChunkSizes : SetChunkSize(c)

\* The chip does not refuse transfers for ever, libusb's events are handled,
\* and a client that has submitted a write waits for it.
Spec == /\ Init /\ [][Next]_vars
        /\ SF_vars(Accepted)
        /\ \A w \in Writes : WF_vars(Done(w)) /\ WF_vars(DoneCancelled(w))

-----------------------------------------------------------------------------
\* Type invariant: ftdi_transfer_control or ftdi_write_data's locals, for each
\* write, and the transfers in flight.
TypeOK ==
    /\ writebuffer_chunksize \in ChunkSizes
    /\ tc \in [Writes -> [call : Calls, size : {0} \cup Sizes, offset : Nat,
                          completed : BOOLEAN, status : Statuses, retval : Int]]
    /\ queue \in Seq([write : Writes, from : Nat, length : Nat])
    /\ wire \in Seq(Writes \X Nat)

\* The bytes of write w that the chip got.
OnWire(w) == {wire[i][2] : i \in {j \in 1..Len(wire) : wire[j][1] = w}}

\* The chip gets the bytes of every write in the order of the client's buffer,
\* each once, however the chunks of several writes interleave and whatever
\* part of a failed transfer went out; and offset says how many it got.
PrefixOnWire ==
    /\ \A w \in Writes : OnWire(w) = 1..tc[w].offset
    /\ \A i, j \in 1..Len(wire) :
          i < j /\ wire[i][1] = wire[j][1] => wire[i][2] < wire[j][2]

\* A transfer in flight lies inside the client's buffer and starts where the
\* write has got to, although the chunk size may have changed meanwhile.
InsideBuffer ==
    \A k \in 1..Len(queue) :
        LET t == queue[k]
        IN  /\ t.from = tc[t.write].offset
            /\ t.from + t.length <= tc[t.write].size

Transfers(w) == {k \in 1..Len(queue) : queue[k].write = w}

\* A write in progress has exactly one transfer in flight and a completed one
\* has none: ftdi_transfer_data_done, when it finds completed set, frees a
\* transfer that libusb no longer has.
OneTransferEach ==
    \A w \in Writes :
        LET inProgress == \/ tc[w].call = "sync"
                          \/ tc[w].call \in Async /\ ~tc[w].completed
                          \/ tc[w].call = "freed"
        IN  IF inProgress THEN \E k \in 1..Len(queue) : Transfers(w) = {k}
                          ELSE Transfers(w) = {}

\* "Data size transferred": when the value returned is not negative the chip got
\* that many bytes, the first ones of the buffer.
ReturnExact ==
    \A w \in Writes :
        tc[w].call = "returned" /\ tc[w].retval >= 0 => OnWire(w) = 1..tc[w].retval

\* Every write ends, unless some transfer was freed in flight.
WriteEnds ==
    \A w \in Writes :
        tc[w].call \in {"sync", "async"} ~>
            \/ tc[w].call = "returned"
            \/ \E v \in Writes : tc[v].call = "freed"

-----------------------------------------------------------------------------
\* The documentation of ftdi_transfer_data_done: "Wait for completion of the
\* transfer."  When it has returned the transfer is not in flight.
DoneWaits == \A w \in Writes : tc[w].call \in {"returned", "freed"} => Transfers(w) = {}
=============================================================================
