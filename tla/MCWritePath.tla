---------------------------- MODULE MCWritePath ----------------------------
(* Two writes of up to three bytes in chunks of one or two: writes that need *)
(* no, one, several and cut chunks, overlapping in every way.                *)
EXTENDS WritePath

const_ChunkSizes == {1, 2}
const_Sizes == {0, 1, 3}
=============================================================================
