------------------------------ MODULE MCDevice ------------------------------
(* A dual chip, a single one and one the library does not know.             *)
EXTENDS Device

CONSTANTS dual, single, other

const_Chip == [d \in Devices |-> IF d = dual THEN "2232H"
                                 ELSE IF d = single THEN "R" ELSE "unknown"]
=============================================================================
