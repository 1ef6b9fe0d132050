------------------------------ MODULE Packets ------------------------------
(***************************************************************************)
(* The shape of what an FTDI chip puts in a bulk IN transfer: packets of   *)
(* at most ps bytes, all but the last one full, each starting with two     *)
(* modem/line status bytes.  Pure operators, shared by every module that   *)
(* consumes such transfers.                                                *)
(***************************************************************************)
EXTENDS Integers

StatusLength == 2

NumOfChunks(ps, n)  == n \div ps
ChunkRemains(ps, n) == n % ps

\* How many of n received bytes are data and not status.
PayloadLength(ps, n) ==
    NumOfChunks(ps, n) * (ps - StatusLength)
        + (IF ChunkRemains(ps, n) > StatusLength
             THEN ChunkRemains(ps, n) - StatusLength ELSE 0)
=============================================================================
