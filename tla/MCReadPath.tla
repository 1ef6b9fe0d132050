----------------------------- MODULE MCReadPath -----------------------------
(* Packets of four bytes (two of data), transfers of at most two packets,   *)
(* reads smaller than, equal to and larger than what a transfer can bring.  *)
EXTENDS ReadPath

const_ChunkSizes == {4, 7, 9}
const_Sizes == {0, 1, 2, 3, 5}
=============================================================================
