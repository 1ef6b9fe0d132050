---------------------------- MODULE MCStreamRead ----------------------------
(* Two transfers of two packets of four bytes: transfers that overtake each *)
(* other, packets that are full, short and empty, and enough bytes for each *)
(* transfer to be submitted again with data.                                *)
EXTENDS StreamRead
=============================================================================
