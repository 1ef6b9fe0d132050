--------------------------- MODULE MCLineSettings ---------------------------
(* Rates on both sides of every boundary: half way between the divisors    *)
(* from 7 to 20 eighths for both clocks, the ends of the tolerance at the  *)
(* lowest and the highest rates, the switch between the clocks, and rates  *)
(* whose products overflow.                                                *)
EXTENDS LineSettings

Around(rates) == {r + e : r \in rates, e \in {-1, 0, 1}}

const_Rates ==
    Around({(16 * base) \div (2 * d + 1) : base \in {3000000, 12000000}, d \in 7 .. 20})
      \cup Around({174, 183, 300, 732, 9600, 57600, 115200, 921600, 2857142, 3000000,
                   3150000, 12000000, 12600000})
      \cup {-1073739424, -9600, 0, 1, 45, 46, 100, 214748365, 536870911, 1073744224, 2147483647}

const_Interfaces == [t \in Types |-> IF t \in {"2232C", "2232H", "4232H"} THEN {1, 2} ELSE {1}]

const_Lines == {7, 8} \X {0, 1, 4} \X {0, 2} \X {0, 1}
=============================================================================
