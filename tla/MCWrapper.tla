----------------------------- MODULE MCWrapper -----------------------------
(* A dual chip and a single one.                                            *)
EXTENDS Wrapper

CONSTANTS dual, single

const_Chip == [d \in Devices |-> IF d = dual THEN "2232H" ELSE "R"]
=============================================================================
