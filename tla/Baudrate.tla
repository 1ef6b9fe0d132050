------------------------------ MODULE Baudrate ------------------------------
(***************************************************************************)
(* From a baud rate to the divisor a chip is given, as ftdi_to_clkbits_AM, *)
(* ftdi_to_clkbits and ftdi_convert_baudrate compute it in integers, and,  *)
(* apart from that, which divisors a chip has and what rate each makes.    *)
(* Divisors are counted in eighths, as the code does.                      *)
(***************************************************************************)
EXTENDS Integers

Types     == {"AM", "BM", "2232C", "R", "2232H", "4232H", "232H"}
HighSpeed == {"2232H", "4232H", "232H"}
EighthTypes == {"BM", "2232C", "R"}     \* with all eighths, and one clock

frac_code == [f \in 0 .. 7 |-> <<0, 3, 2, 4, 1, 5, 6, 7>>[f + 1]]

\* (divisor >> 3) | (frac_code[divisor & 7] << 14)
Encoded(divisor) == (divisor \div 8) + 16384 * frac_code[divisor % 8]

Distance(a, b) == IF a < b THEN b - a ELSE a - b

-----------------------------------------------------------------------------
(* ftdi_to_clkbits_AM                                                      *)

am_adjust_up == [f \in 0 .. 7 |-> <<0, 0, 0, 1, 0, 3, 2, 1>>[f + 1]]
am_adjust_dn == [f \in 0 .. 7 |-> <<0, 0, 0, 1, 0, 1, 2, 3>>[f + 1]]

FirstDivisor(baudrate) == LET divisor == 24000000 \div baudrate
                          IN  divisor - am_adjust_dn[divisor % 8]

\* Mutant: the divisors from 9 to 15 are tried as they are.
TryDivisor_Gap(divisor, i) ==
    LET try == divisor + i
        up  == try + am_adjust_up[try % 8]
    IN  IF try <= 8 THEN 8 ELSE IF up > 131064 THEN 131064 ELSE up

TryDivisor(divisor, i) ==
    LET try == divisor + i
        up  == try + am_adjust_up[try % 8]
    IN  IF try <= 8 THEN 8
        ELSE IF divisor < 16 THEN 16
        ELSE IF up > 131064 THEN 131064 ELSE up

Estimate(divisor) == (24000000 + (divisor \div 2)) \div divisor

BestDivisor(baudrate) ==
    LET try == [i \in {0, 1} |-> TryDivisor(FirstDivisor(baudrate), i)]
        off == [i \in {0, 1} |-> Distance(Estimate(try[i]), baudrate)]
    IN  IF off[1] < off[0] THEN try[1] ELSE try[0]

ClkBitsAM(baudrate) ==
    LET best == BestDivisor(baudrate)
        bits == Encoded(best)
    IN  [baud |-> Estimate(best),
         bits |-> IF bits = 1 THEN 0 ELSE IF bits = 16385 THEN 1 ELSE bits]

-----------------------------------------------------------------------------
(* ftdi_to_clkbits                                                         *)

HalfUp(n) == (n + 1) \div 2

\* Mutant: the rounding bit is dropped.
RoundedDivisor_Down(baudrate, fast) == ((16 * fast) \div baudrate) \div 2

\* In eighths, from a quotient with one bit more.
RoundedDivisor(baudrate, fast) ==
    LET divisor == HalfUp((16 * fast) \div baudrate)
    IN  IF divisor > 131072 THEN 131071 ELSE divisor

ClkBits(baudrate, clk, clk_div) ==
    LET fast == clk \div clk_div
        half == clk \div (clk_div + (clk_div \div 2))
        best == RoundedDivisor(baudrate, fast)
    IN  IF baudrate >= fast THEN [baud |-> fast, bits |-> 0]
        ELSE IF baudrate >= half THEN [baud |-> half, bits |-> 1]
        ELSE IF 2 * baudrate >= fast THEN [baud |-> fast \div 2, bits |-> 2]
        ELSE [baud |-> HalfUp((16 * fast) \div best), bits |-> Encoded(best)]

-----------------------------------------------------------------------------
(* ftdi_convert_baudrate                                                   *)

H_CLK == 120000000
C_CLK == 48000000

\* Whether baudrate*10 > H_CLK/0x3fff; the product overflows an int for the
\* highest rates, which then go either way.
FastClock(baudrate) ==
    {fast \in BOOLEAN : baudrate > 214748364 \/ (fast <=> 10 * baudrate > H_CLK \div 16383)}

ClkBitsH(baudrate, fast) ==
    IF fast THEN LET c == ClkBits(baudrate, H_CLK, 10)
                 IN  [c EXCEPT !.bits = @ + 131072]
    ELSE ClkBits(baudrate, C_CLK, 16)

AllClkBits(type, baudrate) ==
    IF type \in HighSpeed THEN {ClkBitsH(baudrate, fast) : fast \in FastClock(baudrate)}
    ELSE IF type \in EighthTypes THEN {ClkBits(baudrate, C_CLK, 16)}
    ELSE {ClkBitsAM(baudrate)}

\* Mutant: the low byte of the shifted bits stays beside the interface.
Index_KeepsLow(type, bits, index) ==
    IF type \in HighSpeed THEN (bits \div 256) + index ELSE bits \div 65536

\* An H chip has the high bits in the high byte, and the interface in the low one.
Index(type, bits, index) ==
    IF type \in HighSpeed THEN 256 * (bits \div 65536) + index ELSE bits \div 65536

\* The results for a rate above zero.
Conversions(type, baudrate, index) ==
    {[baud |-> c.baud, value |-> c.bits % 65536, index |-> Index(type, c.bits, index)] :
        c \in AllClkBits(type, baudrate)}

\* Within about 5%, as ftdi_set_baudrate checks it.
WithinTolerance(actual, baudrate) ==
    /\ 2 * actual >= baudrate
    /\ IF actual < baudrate THEN 21 * actual >= 20 * baudrate
                            ELSE 21 * baudrate >= 20 * actual

-----------------------------------------------------------------------------
(* What the chips do, from test/baudrate.cpp and the comments: they divide *)
(* 3 MHz, or an H chip 12 MHz if bit 9 of the index says so; 0 and 1 stand *)
(* for the divisors 1 and 1.5; otherwise 14 bits and three for the eighths *)
(* (on an AM two, for four of the eighths).                                *)

Clock(type, index) == IF type \in HighSpeed /\ (index \div 512) % 2 = 1 THEN 12000000 ELSE 3000000

FractionBits(type, value, index) ==
    (value \div 16384) + (IF type \in HighSpeed THEN 4 * ((index \div 256) % 2)
                          ELSE IF type \in EighthTypes THEN 4 * (index % 2) ELSE 0)

Eighths(bits) == CHOOSE f \in 0 .. 7 : frac_code[f] = bits

ChipDivisor(type, value, index) ==
    LET whole == value % 16384
        part  == Eighths(FractionBits(type, value, index))
    IN  IF whole = 0 /\ part = 0 THEN 8
        ELSE IF whole = 1 /\ part = 0 THEN 12
        ELSE 8 * whole + part

Supported(type, divisor) ==
    \/ divisor = 8
    \/ divisor = 12 /\ type # "AM"
    \/ 16 <= divisor /\ divisor < 131072 /\ (type = "AM" => divisor % 8 \in {0, 1, 2, 4})

\* A request means a divisor the chip has, and nothing else: on an H chip the index
\* holds the interface, the clock and one bit of the fraction, elsewhere that bit
\* or, on an AM, nothing.
Readable(type, value, index, interface) ==
    /\ value \in Nat /\ value < 65536 /\ index \in Nat
    /\ Supported(type, ChipDivisor(type, value, index))
    /\ type \in HighSpeed => index - interface \in {0, 256, 512, 768}
    /\ type \in EighthTypes => index \in {0, 1}
    /\ type = "AM" => index = 0

\* To the nearest integer.
ChipRate(clock, divisor) == (8 * clock + (divisor \div 2)) \div divisor
=============================================================================
