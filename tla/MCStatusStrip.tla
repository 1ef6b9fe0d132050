--------------------------- MODULE MCStatusStrip ---------------------------
(* The strip loop on packet sizes small enough that transfers of up to      *)
(* eight packets, ending in every possible way, are all enumerated.         *)
EXTENDS StatusStrip

const_PacketSizes == {3, 4, 5, 8}
=============================================================================
