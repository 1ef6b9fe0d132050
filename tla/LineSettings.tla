---------------------------- MODULE LineSettings ----------------------------
(***************************************************************************)
(* The settings a client makes on the interface of an open device: baud    *)
(* rate, bit mode, line properties, flow control, modem lines, latency,    *)
(* event and error characters.  Each is one control transfer; between them *)
(* the context remembers whether a bitbang mode is on, which changes every *)
(* baud rate, and that memory outlives the device.                         *)
(*                                                                         *)
(* The chip's bit mode is modelled from how the library uses it.  The      *)
(* fields ftdi->baudrate, which nothing reads, and the timeouts are left   *)
(* out, and so is the bitmask of the pins.                                 *)
(***************************************************************************)
EXTENDS Baudrate

CONSTANTS Rates,        \* the baud rates asked for
          Modes,        \* the bit modes, BITMODE_RESET among them
          Interfaces,   \* per type
          Lines,        \* line properties: <<bits, parity, sbit, break>>
          Chars         \* event and error characters, latencies

BITMODE_RESET == 0

ASSUME LineAssumption == /\ Rates \subseteq Int
                         /\ Modes \subseteq 0 .. 255 /\ BITMODE_RESET \in Modes
                         /\ Interfaces \in [Types -> SUBSET (1 .. 4)]
                         /\ Lines \subseteq {7, 8} \X (0 .. 4) \X (0 .. 2) \X {0, 1}
                         /\ Chars \subseteq 0 .. 255

VARIABLES
    ftdi,      \* the fields of ftdi_context named in Init
    mode,      \* the bit mode of the interface the context has open, or last had
    told,      \* the mode set by the last call on it that returned 0, whatever was
               \* opened since; a history variable
    request,   \* the last request the chip has accepted, or none
    last       \* the last call, what it returned, and, if that is not a failure of the
               \* transfer or for want of a device, its arguments

vars == <<ftdi, mode, told, request, last>>

NoRequest == [code |-> "none", value |-> 0, index |-> 0]

\* ftdi_init
Init == /\ ftdi = [open |-> FALSE, type |-> "BM", index |-> 1,
                   bitbang_enabled |-> 0, bitbang_mode |-> 1]
        /\ mode = BITMODE_RESET
        /\ told = BITMODE_RESET
        /\ request = NoRequest
        /\ last = [call |-> "init", args |-> <<>>, result |-> 0]

-----------------------------------------------------------------------------
(* Parts of the calls.                                                     *)

Called(call, args, result) == last' = [call |-> call, args |-> args, result |-> result]

\* A call that sends no request, or one the chip does not answer.
Returns(call, result) == /\ Called(call, <<>>, result)
                         /\ request' = NoRequest
                         /\ UNCHANGED <<ftdi, mode, told>>

Unavailable(call, result) == ~ftdi.open /\ Returns(call, result)

Accepted(code, value, index) == request' = [code |-> code, value |-> value, index |-> index]

\* A call that is one request: the chip takes it, or the transfer fails.
Setting(call, args, code, value, index, failed, unavailable) ==
    \/ Unavailable(call, unavailable)
    \/ /\ ftdi.open
       /\ Accepted(code, value, index)
       /\ Called(call, args, 0)
       /\ UNCHANGED <<ftdi, mode, told>>
    \/ ftdi.open /\ Returns(call, failed)

-----------------------------------------------------------------------------
(* Baud rate and bit mode.                                                 *)

\* baudrate*4 in 32 bits.
Times4(baudrate) == LET low == baudrate % 1073741824
                    IN  IF low < 536870912 THEN 4 * low ELSE 4 * (low - 1073741824)

\* Mutant: bitbang rates are not multiplied.
Multiplied_Never(enabled, baudrate) == baudrate

Multiplied(enabled, baudrate) == IF enabled = 1 THEN Times4(baudrate) ELSE baudrate

Accepts(c, baudrate) == WithinTolerance(c.baud, baudrate)

\* ftdi_set_baudrate on an open device: the results with the requests made.
BaudRequests(f, asked) ==
    LET baudrate == Multiplied(f.bitbang_enabled, asked)
        silly    == {[result |-> -1, request |-> NoRequest]}
    IN  IF baudrate <= 0 THEN silly
        ELSE UNION {IF ~Accepts(c, baudrate) THEN silly
                    ELSE {[result |-> 0, request |-> [code |-> "SET_BAUDRATE",
                                                      value |-> c.value, index |-> c.index]],
                          [result |-> -2, request |-> NoRequest]} :
                    c \in Conversions(f.type, baudrate, f.index)}

SetBaudrate ==
    \/ Unavailable("set_baudrate", -3)
    \/ /\ ftdi.open
       /\ \E asked \in Rates : \E b \in BaudRequests(ftdi, asked) :
            /\ Called("set_baudrate", IF b.result = -2 THEN <<>> ELSE <<asked>>, b.result)
            /\ request' = b.request
       /\ UNCHANGED <<ftdi, mode, told>>

\* ftdi_set_interface, then an open that gets as far as the chip type, where the
\* rate is set to the first.  The device has just been plugged in, or is the one whose
\* mode the last session has left; the context's flag is left as it was.
FirstRate == 9600

Found(t, i) == [ftdi EXCEPT !.type = t, !.index = i]

OpenOn(t, i) ==
    \E b \in BaudRequests(Found(t, i), FirstRate) :
      /\ request' = b.request
      /\ \/ /\ b.result = 0 /\ ftdi' = [Found(t, i) EXCEPT !.open = TRUE]
            /\ Called("open", <<FirstRate>>, 0)
         \/ /\ b.result # 0 /\ ftdi' = Found(t, i)
            /\ Called("open", <<FirstRate>>, -7)

Open ==
    /\ ~ftdi.open
    /\ \E t \in Types : \E i \in Interfaces[t] : OpenOn(t, i)
    /\ mode' \in {BITMODE_RESET, mode}
    /\ UNCHANGED told

Close == /\ ftdi.open
         /\ ftdi' = [ftdi EXCEPT !.open = FALSE]
         /\ Called("close", <<>>, 0)
         /\ request' = NoRequest
         /\ UNCHANGED <<mode, told>>

\* The request for a mode fails, whether or not the chip has taken it.
ModeFails(call, m) == /\ ftdi.open
                      /\ mode' \in {mode, m}
                      /\ Called(call, <<>>, -1)
                      /\ request' = NoRequest
                      /\ UNCHANGED <<ftdi, told>>

\* Mutant: the flag is the mode.
Enabled_IsMode(m) == m

\* Mutant: the flag is for one of the bitbang modes only.
Enabled_BitbangOnly(m) == IF m = 1 THEN 1 ELSE 0

Enabled(m) == IF m = BITMODE_RESET THEN 0 ELSE 1

SetBitmode ==
    \/ Unavailable("set_bitmode", -2)
    \/ \E m \in Modes : ModeFails("set_bitmode", m)
    \/ /\ ftdi.open
       /\ \E m \in Modes :
            /\ Accepted("SET_BITMODE", 256 * m, ftdi.index)
            /\ mode' = m
            /\ told' = m
            /\ ftdi' = [ftdi EXCEPT !.bitbang_mode = m, !.bitbang_enabled = Enabled(m)]
            /\ Called("set_bitmode", <<m>>, 0)

DisableBitbang ==
    \/ Unavailable("disable_bitbang", -2)
    \/ ModeFails("disable_bitbang", BITMODE_RESET)
    \/ /\ ftdi.open
       /\ Accepted("SET_BITMODE", 0, ftdi.index)
       /\ mode' = BITMODE_RESET
       /\ ftdi' = [ftdi EXCEPT !.bitbang_enabled = 0]
       /\ told' = BITMODE_RESET
       /\ Called("disable_bitbang", <<>>, 0)

-----------------------------------------------------------------------------
(* The other settings.                                                     *)

\* ftdi_set_line_property2; ftdi_set_line_property is it with BREAK_OFF.
SetLineProperty ==
    \E l \in Lines :
      Setting("set_line_property", l, "SET_DATA",
              l[1] + 256 * l[2] + 2048 * l[3] + 16384 * l[4], ftdi.index, -1, -2)

\* Mutant: the interface is not added.
FlowIndex_Bare(flowctrl, index) == flowctrl

FlowIndex(flowctrl, index) == flowctrl + index

\* Off, RTS/CTS, DTR/DSR or XON/XOFF, in the high byte of the index.
SetFlowCtrl ==
    \E flowctrl \in {0, 256, 512, 1024} :
      Setting("setflowctrl", <<flowctrl>>, "SET_FLOW_CTRL", 0,
              FlowIndex(flowctrl, ftdi.index), -1, -2)

\* The line in the low byte, the mask that says it is meant in the high one.
Dtr(state) == 256 + state
Rts(state) == 512 + 2 * state

SetDtr == \E state \in {0, 1} :
    Setting("setdtr", <<state>>, "SET_MODEM_CTRL", Dtr(state), ftdi.index, -1, -2)

SetRts == \E state \in {0, 1} :
    Setting("setrts", <<state>>, "SET_MODEM_CTRL", Rts(state), ftdi.index, -1, -2)

SetDtrRts == \E dtr, rts \in {0, 1} :
    Setting("setdtr_rts", <<dtr, rts>>, "SET_MODEM_CTRL", Dtr(dtr) + Rts(rts), ftdi.index, -1, -2)

\* The latency is checked before the device is.
SetLatencyTimer ==
    \E latency \in Chars :
      \/ latency < 1 /\ Returns("set_latency_timer", -1)
      \/ /\ latency >= 1
         /\ Setting("set_latency_timer", <<latency>>, "SET_LATENCY_TIMER", latency,
                    ftdi.index, -2, -3)

Marked(c, enable) == c + 256 * enable

SetEventChar == \E c \in Chars, enable \in {0, 1} :
    Setting("set_event_char", <<c, enable>>, "SET_EVENT_CHAR", Marked(c, enable), ftdi.index, -1, -2)

SetErrorChar == \E c \in Chars, enable \in {0, 1} :
    Setting("set_error_char", <<c, enable>>, "SET_ERROR_CHAR", Marked(c, enable), ftdi.index, -1, -2)

\* The calls that ask the chip and change nothing.
ReadPins         == Setting("read_pins", <<>>, "READ_PINS", 0, ftdi.index, -1, -2)
GetLatencyTimer  == Setting("get_latency_timer", <<>>, "GET_LATENCY_TIMER", 0, ftdi.index, -1, -2)
PollModemStatus  == Setting("poll_modem_status", <<>>, "POLL_MODEM_STATUS", 0, ftdi.index, -1, -2)

Next == \/ Open \/ Close \/ SetBaudrate \/ SetBitmode \/ DisableBitbang
        \/ SetLineProperty \/ SetFlowCtrl \/ SetDtr \/ SetRts \/ SetDtrRts
        \/ SetLatencyTimer \/ SetEventChar \/ SetErrorChar
        \/ ReadPins \/ GetLatencyTimer \/ PollModemStatus

Spec == Init /\ [][Next]_vars

-----------------------------------------------------------------------------
\* Type invariant: every value and index of a request fits 16 bits.
TypeOK == /\ ftdi \in [open : BOOLEAN, type : Types, index : 1 .. 4,
                       bitbang_enabled : {0, 1}, bitbang_mode : Modes \cup {1}]
          /\ mode \in Modes
          /\ told \in Modes
          /\ request.value \in Nat /\ request.value < 65536
          /\ request.index \in Nat /\ request.index < 65536
          /\ last.result \in -7 .. 0

\* "bitbang mode. 0: normal mode 1: any of the bitbang modes enabled": the flag the
\* context multiplies rates by is not what the interface is in.
Stale == ~(ftdi.bitbang_enabled = 0 <=> mode = BITMODE_RESET)

\* The flag goes stale in two ways only: a request for a mode is reported as failed
\* although the chip took it, or a context that was closed in a bitbang mode opens a
\* device that is in none.  No other call and no close does it, and the next call on the
\* mode that returns 0 ends it.
StaleFrom ==
    [][/\ (Stale' /\ ~Stale) =>
            \/ last'.call \in {"set_bitmode", "disable_bitbang"} /\ last'.result = -1
            \/ last'.call = "open" /\ ftdi.bitbang_enabled = 1 /\ mode' = BITMODE_RESET
       /\ (last'.call \in {"set_bitmode", "disable_bitbang"} /\ last'.result = 0) => ~Stale'
      ]_vars

RateIsSet == last.call \in {"open", "set_baudrate"} /\ last.result = 0

\* In an int.
FourfoldFits(baudrate) == -536870912 <= baudrate /\ baudrate < 536870912

\* The rate the chip is to run at: four times the rate asked for if the last mode that
\* was set is a bitbang mode.
Asked  == last.args[1]
Wanted == IF told = BITMODE_RESET THEN Asked ELSE 4 * Asked

\* An int holds it.
Exact == told = BITMODE_RESET \/ FourfoldFits(Asked)

Divisor == ChipDivisor(ftdi.type, request.value, request.index)
Base    == Clock(ftdi.type, request.index)

\* When ftdi_set_baudrate or an open returns 0, the chip, by the way it reads the
\* request, runs within 5% of the rate that was asked for, or of four times that rate
\* if a bitbang mode was the last to be set.  In a bitbang mode the rates whose
\* fourfold overflows an int are the exception: 2^30 + 2400 sets 9600.
RateNear == (RateIsSet /\ Exact) => WithinTolerance(ChipRate(Base, Divisor), Wanted)

\* No chip is ever given a divisor it does not have: nothing between 1 and 2 but
\* 1.5, at most 14 bits, four of the eighths only on an AM, and 12 MHz and the
\* interface only on an H chip.
Encodable == RateIsSet => Readable(ftdi.type, request.value, request.index, ftdi.index)

Neighbours(divisor) == {d \in divisor - 8 .. divisor + 8 : Supported(ftdi.type, d)}

\* "Nearest supported baud rate": of the divisors next to the one chosen none is
\* nearer to what was asked, both counted in divisors and in rates.
Nearest == (RateIsSet /\ Exact) =>
    \A d \in Neighbours(Divisor) :
      \/ Distance(8 * Base, d * Wanted) >= Distance(8 * Base, Divisor * Wanted)
      \/ Distance(ChipRate(Base, d), Wanted) >= Distance(ChipRate(Base, Divisor), Wanted)

\* All chips but the AM are asked for the next lower rate when the exact divisor is
\* between two of 1, 1.5 and 2: a rate just below the clock, or below two thirds
\* of it, is not rounded up.
JustBelow(type, base, d, wanted) ==
    type # "AM" /\ d \in {8, 12} /\ wanted < ChipRate(base, d)

\* A rate is refused only if no divisor of the chip makes a rate within 5% of it, other
\* than the divisors 1 and 1.5 for rates just below theirs.
Refused == (last.call = "set_baudrate" /\ last.result = -1 /\ Asked > 0 /\ Exact) =>
    \A base \in {3000000} \cup (IF ftdi.type \in HighSpeed THEN {12000000} ELSE {}) :
      LET exact == (8 * base) \div Wanted
      IN  ~\E d \in exact - 8 .. exact + 8 :
             /\ Supported(ftdi.type, d)
             /\ WithinTolerance(ChipRate(base, d), Wanted)
             /\ ~JustBelow(ftdi.type, base, d, Wanted)

\* What the chip reads from the fields of an accepted request is what the client
\* asked for, and the request is for the interface of the context.
Meaning ==
    LET v == request.value
    IN  CASE request.code = "SET_DATA" ->
               <<v % 256, (v \div 256) % 8, (v \div 2048) % 8, (v \div 16384) % 2>>
          [] request.code = "SET_FLOW_CTRL" -> <<256 * (request.index \div 256)>>
          [] last.call = "setdtr" -> <<v % 2>>
          [] last.call = "setrts" -> <<(v \div 2) % 2>>
          [] last.call = "setdtr_rts" -> <<v % 2, (v \div 2) % 2>>
          [] request.code = "SET_BITMODE" /\ last.args # <<>> -> <<v \div 256>>
          [] request.code = "SET_LATENCY_TIMER" -> <<v>>
          [] request.code \in {"SET_EVENT_CHAR", "SET_ERROR_CHAR"} -> <<v % 256, v \div 256>>
          [] OTHER -> last.args

Applied == (request.code # "none" /\ ~RateIsSet) =>
    /\ Meaning = last.args
    /\ request.index % 256 = ftdi.index
=============================================================================
