---------------------------- MODULE EepromImage ----------------------------
(***************************************************************************)
(* The EEPROM image: what ftdi_eeprom_build makes of struct ftdi_eeprom,   *)
(* what ftdi_eeprom_decode makes of an image, and the defaults.  Pure      *)
(* operators.                                                              *)
(*                                                                         *)
(* A structure is a record with the C names; the numbered members are      *)
(* sequences (channel_type, driver and rs485 by channel A to D; drive,     *)
(* schmitt and slew by pin group; cbus by pin), a string is the sequence   *)
(* of its characters and NULL is the empty one, which is built the same.   *)
(* An image is a function from the addresses of buf to bytes.              *)
(***************************************************************************)
EXTENDS Integers, Sequences, FiniteSetsExt

Byte    == {n \in Nat : n < 256}
Word    == {n \in Nat : n < 65536}
Address == 0 .. 255                 \* FTDI_MAX_EEPROM_SIZE
Older   == {"AM", "BM"}
Dual    == {"2232H", "4232H"}       \* with four pin groups
Types   == Older \cup Dual \cup {"2232C", "R", "232H"}

Low(n)          == n % 256
High(n)         == (n \div 256) % 256
When(cond, bits) == IF cond THEN bits ELSE 0
Bits(n, mask)   == mask * ((n \div mask) % 2)      \* n & mask, for one bit

\* Module TLC has these two; the provers do not know those.
a :> b == [x \in {a} |-> b]
f @@ g == [x \in DOMAIN f \cup DOMAIN g |-> IF x \in DOMAIN f THEN f[x] ELSE g[x]]

-----------------------------------------------------------------------------
(* The checksum: xor and rotate over all words but the last.               *)

XorNibble == [n \in (0 .. 15) \X (0 .. 15) |->
                LET bit(m) == When((n[1] \div m) % 2 # (n[2] \div m) % 2, m)
                IN  bit(8) + bit(4) + bit(2) + bit(1)]
Xor(a, b) == 16 * XorNibble[<<a \div 16, b \div 16>>] + XorNibble[<<a % 16, b % 16>>]

\* One word into the checksum: w[1] is the sum, w[2] the word.
Folded == [w \in Nat \X Nat |->
    LET x == 256 * Xor(High(w[1]), High(w[2])) + Xor(Low(w[1]), Low(w[2]))
    IN  ((2 * x) % 65536) + (x \div 32768)]

\* The checksum after the first n words.
Sums(image) ==
    LET sum[n \in Nat] == IF n = 0 THEN 43690
                          ELSE Folded[<<sum[n-1], image[2*n - 2] + 256 * image[2*n - 1]>>]
    IN  sum

Checksum(image, size) == Sums(image)[IF size < 2 THEN 0 ELSE (size \div 2) - 1]

-----------------------------------------------------------------------------
(* Building.                                                               *)

\* The size build assumes, and the room it counts for the strings.
BuildSize(chip) == IF chip \in {86, 102} THEN 256 ELSE 128

UserArea(type) == CASE type \in Older   -> 96
                    [] type = "2232C"   -> 90
                    [] type = "R"       -> 88
                    [] type \in Dual    -> 86
                    [] type = "232H"    -> 80

\* The lengths are kept in an unsigned char.
Kept(s) == SubSeq(s, 1, Len(s) % 256)

Room(type, e) ==
    UserArea(type) - 2 * (Len(Kept(e.manufacturer)) + Len(Kept(e.product)) + Len(Kept(e.serial)))

Release(type) == CASE type = "AM"    -> 2 [] type = "BM"    -> 4 [] type = "2232C" -> 5
                   [] type = "R"     -> 6 [] type = "2232H" -> 7 [] type = "4232H" -> 8
                   [] type = "232H"  -> 9

StringStart(type) == CASE type \in Older -> 148 [] type = "2232C" -> 150 [] type = "R" -> 152
                       [] type \in Dual  -> 154 [] type = "232H"  -> 156

\* A USB string descriptor: length, type, 16-bit characters.
Descriptor(s) == <<2 * Len(s) + 2, 3>>
                 \o [k \in 1 .. 2 * Len(s) |-> IF k % 2 = 1 THEN s[(k + 1) \div 2] ELSE 0]

PnP(type, e) == IF type \in Older THEN <<>> ELSE <<2, 3, Low(e.is_not_pnp)>>

Text(type, e) == Descriptor(Kept(e.manufacturer)) \o Descriptor(Kept(e.product))
                 \o Descriptor(Kept(e.serial)) \o PnP(type, e)

Entry(address, offset, s) == (address :> offset) @@ (address + 1 :> 2 * Len(s) + 2)

\* Where the strings are and how long; 128 is already in the first offset.
Directory(type, e) ==
    LET start(n) == Low(StringStart(type) + n)
        m == Kept(e.manufacturer)
        p == Kept(e.product)
        after == 2 * Len(m) + 2
        with128(n) == n + When(n < 128, 128)
    IN  Entry(14, start(0), m) @@ Entry(16, with128(start(after)), p)
        @@ Entry(18, with128(start(after + 2 * Len(p) + 2)), Kept(e.serial))

Placed(type, size, text) ==
    [a \in {(StringStart(type) + k - 1) % size : k \in DOMAIN text} |->
        text[1 + ((a - StringStart(type)) % size)]]

\* Address 0A
ChipConfig(type, e) ==
    IF type = "AM" THEN 0
    ELSE When(e.in_is_isochronous = 1, 1) + When(e.out_is_isochronous = 1, 2)
         + When(type # "BM" /\ type # "232H" /\ e.suspend_pull_downs = 1, 4)
         + When(e.use_serial # 0, 8)
         + When(type \in {"BM", "2232C"} /\ e.use_usb_version = 16, 16)

General(type, e) ==
    (2 :> Low(e.vendor_id)) @@ (3 :> High(e.vendor_id))
    @@ (4 :> Low(e.product_id)) @@ (5 :> High(e.product_id)) @@ (7 :> Release(type))
    @@ (8 :> 128 + When(e.self_powered = 1, 64) + When(e.remote_wakeup = 1, 32))
    @@ (9 :> Low(e.max_power \div 2)) @@ (10 :> ChipConfig(type, e))

\* type2bit
TypeBits(type, mode) ==
    When(mode \in {1, 2, 4} \/ (type = "232H" /\ mode = 8), mode)

\* CHANNEL_IS_..., DRIVER_VCP and HIGH_CURRENT_DRIVE of one channel.
Channel(type, mode, driver, current) ==
    TypeBits(type, mode) + When(driver = 8, 8) + When(current = 16, 16)

\* drive, IS_SCHMITT and SLOW_SLEW of one pin group
Group(e, g) == (IF e.drive[g] > 3 THEN 3 ELSE e.drive[g])
               + When(e.schmitt[g] = 8, 8) + When(e.slew[g] = 4, 4)

UsbVersion(e) == (12 :> Low(e.usb_version)) @@ (13 :> High(e.usb_version))

FourGroups(e) == (12 :> Group(e, 1) + 16 * Group(e, 2)) @@ (13 :> Group(e, 3) + 16 * Group(e, 4))

\* The function of a CBUS pin, or its default when there is no such function.
Cbus(e, pin, last, default) == IF e.cbus[pin] > last THEN default ELSE e.cbus[pin]

\* set_ft232h_cbus: pins 2i and 2i+1 of byte 18+i.  The odd pin gets the even
\* pin's function.
AcbusPair(e, i) ==
    When(e.cbus[2*i + 1] <= 12, e.cbus[2*i + 1])
    + When(e.cbus[2*i + 2] <= 12, Low(16 * e.cbus[2*i + 1]))

\* The bytes that only some types have.
Bytes2232C(e) ==
    (0 :> Channel("2232C", e.channel_type[1], e.driver[1], e.high_current_a))
    @@ (1 :> Channel("2232C", e.channel_type[2], e.driver[2], e.high_current_b))
    @@ UsbVersion(e) @@ (20 :> Low(e.chip))

BytesR(e) ==
    (0 :> When(e.high_current = 4, 4)) @@ (1 :> 64) @@ (11 :> Low(e.invert))
    @@ UsbVersion(e)
    @@ (20 :> Cbus(e, 1, 13, 3) + 16 * Cbus(e, 2, 13, 2))
    @@ (21 :> Cbus(e, 3, 13, 0) + 16 * Cbus(e, 4, 13, 1))
    @@ (22 :> Cbus(e, 5, 9, 5))

Bytes2232H(e) ==
    (0 :> Channel("2232H", e.channel_type[1], e.driver[1], 0))
    @@ (1 :> Channel("2232H", e.channel_type[2], e.driver[2], 0) + When(e.suspend_dbus7 = 128, 128))
    @@ FourGroups(e) @@ (24 :> Low(e.chip))

Bytes4232H(e) ==
    (0 :> When(e.driver[1] = 8, 8) + 16 * When(e.driver[3] = 8, 8))
    @@ (1 :> When(e.driver[2] = 8, 8) + 16 * When(e.driver[4] = 8, 8))
    @@ (11 :> LET bit(k, m) == When(e.rs485[k] # 0, m)
              IN  bit(1, 16) + bit(2, 32) + bit(3, 64) + bit(4, 128))
    @@ FourGroups(e) @@ (24 :> Low(e.chip))

Bytes232H(e) ==
    (0 :> TypeBits("232H", e.channel_type[1]) + When(e.driver[1] = 8, 16))
    @@ (1 :> When(e.powersave # 0, 128) + When(e.clock_polarity # 0, 1)
             + When(e.data_order # 0, 2) + When(e.flow_control # 0, 4))
    @@ (12 :> Group(e, 1)) @@ (13 :> Group(e, 2))
    @@ [a \in 24 .. 28 |-> AcbusPair(e, a - 24)] @@ (30 :> Low(e.chip))

Specific(type, e) ==
    CASE type = "AM"    -> <<>>
      [] type = "BM"    -> UsbVersion(e)
      [] type = "2232C" -> Bytes2232C(e)
      [] type = "R"     -> BytesR(e)
      [] type = "2232H" -> Bytes2232H(e)
      [] type = "4232H" -> Bytes4232H(e)
      [] type = "232H"  -> Bytes232H(e)

Body(type, e) ==
    Specific(type, e) @@ Placed(type, BuildSize(e.chip), Text(type, e))
    @@ Directory(type, e) @@ General(type, e) @@ [a \in Address |-> 0]

\* The image build leaves in buf: zero everywhere else, the checksum in the
\* last word of the size.
Image(type, e) ==
    LET size == BuildSize(e.chip)
        sum  == Checksum(Body(type, e), size)
    IN  (size - 2 :> Low(sum)) @@ (size - 1 :> High(sum)) @@ Body(type, e)

-----------------------------------------------------------------------------
(* Decoding.  Bytes past the end of buf, which damaged lengths and offsets *)
(* reach, are the parameter beyond; so are those before it.                *)

\* A C string ends at its first NUL.
CString(s) ==
    LET nul == {k \in DOMAIN s : s[k] = 0}
    IN  IF nul = {} THEN s ELSE SubSeq(s, 1, Min(nul) - 1)

\* buf[address] & (eeprom_size - 1)
Offset(b, size) == IF size > 0 THEN b % size ELSE IF size = 0 THEN b ELSE b - (b % 2)

DecodedString(buf, size, address, beyond) ==
    LET from == Offset(buf[address], size)
    IN  CString([j \in 1 .. (buf[address + 1] \div 2) - 1 |->
                   IF from + 2*j \in Address THEN buf[from + 2*j] ELSE beyond])

\* What decode has set when it comes to the checksum.
DecodedCommon(e, buf, beyond) ==
    [e EXCEPT !.vendor_id  = buf[2] + 256 * buf[3],
              !.product_id = buf[4] + 256 * buf[5],
              !.self_powered = Bits(buf[8], 64), !.remote_wakeup = Bits(buf[8], 32),
              !.max_power = buf[9],
              !.in_is_isochronous  = Bits(buf[10], 1), !.out_is_isochronous = Bits(buf[10], 2),
              !.suspend_pull_downs = Bits(buf[10], 4), !.use_serial = Bits(buf[10], 8) \div 8,
              !.use_usb_version    = Bits(buf[10], 16),
              !.usb_version  = buf[12] + 256 * buf[13],
              !.manufacturer = DecodedString(buf, e.size, 14, beyond),
              !.product      = DecodedString(buf, e.size, 16, beyond),
              !.serial       = DecodedString(buf, e.size, 18, beyond)]

\* Mutant: a wrong checksum is only reported.
ChecksumRight_Always(buf, size) == TRUE

\* Mutant: the checksum's own word is counted.
ChecksumRight_Own(buf, size) ==
    size > 0 /\ Checksum(buf, size + 2) = buf[size - 2] + 256 * buf[size - 1]

\* A size of 0 or -1 compares with bytes before buf, which are those of chip
\* and never AAAA.
ChecksumRight(buf, size) ==
    size > 0 /\ Checksum(buf, size) = buf[size - 2] + 256 * buf[size - 1]

\* bit2type
BitType(bits) == When(bits \in {1, 2, 4, 8}, bits)

\* The pin groups of the bytes 0C and 0D, each kept in a nibble.
Decoded4(e, nibble) ==
    [e EXCEPT !.drive   = [g \in 1 .. 4 |-> nibble[g] % 4],
              !.schmitt = [g \in 1 .. 4 |-> Bits(nibble[g], 8)],
              !.slew    = [g \in 1 .. 4 |-> Bits(nibble[g], 4)]]

Nibbles(buf) == <<buf[12] % 16, buf[12] \div 16, buf[13] % 16, buf[13] \div 16>>

\* The fields of the type, set when the checksum is right.
Decoded2232C(e, buf) ==
    [e EXCEPT !.channel_type[1] = BitType(buf[0] % 8), !.channel_type[2] = buf[1] % 8,
              !.driver[1] = Bits(buf[0], 8), !.driver[2] = Bits(buf[1], 8),
              !.high_current_a = Bits(buf[0], 16), !.high_current_b = Bits(buf[1], 16),
              !.chip = buf[20]]

DecodedR(e, buf) ==
    [e EXCEPT !.driver[1] = 8 - Bits(buf[0], 8), !.high_current = Bits(buf[0], 4),
              !.chip = buf[22], !.invert = buf[11],
              !.cbus[1] = buf[20] % 16, !.cbus[2] = buf[20] \div 16,
              !.cbus[3] = buf[21] % 16, !.cbus[4] = buf[21] \div 16,
              !.cbus[5] = buf[22] % 16]

Decoded2232H(e, buf) ==
    [Decoded4(e, Nibbles(buf)) EXCEPT
              !.driver[1] = Bits(buf[0], 8), !.driver[2] = Bits(buf[1], 8),
              !.channel_type[1] = BitType(buf[0] % 8), !.channel_type[2] = BitType(buf[1] % 8),
              !.suspend_dbus7 = Bits(buf[1], 128), !.chip = buf[24]]

Decoded4232H(e, buf) ==
    [Decoded4(e, Nibbles(buf)) EXCEPT
              !.driver = <<Bits(buf[0], 8), Bits(buf[1], 8),
                           Bits(buf[0] \div 16, 8), Bits(buf[1] \div 16, 8)>>,
              !.rs485 = <<Bits(buf[11], 16), Bits(buf[11], 32),
                          Bits(buf[11], 64), Bits(buf[11], 128)>>, !.chip = buf[24]]

\* The 232H has two groups.
FirstTwo(new, old) == [g \in 1 .. 4 |-> IF g <= 2 THEN new[g] ELSE old[g]]

Decoded232H(e, buf) ==
    LET groups == Decoded4(e, <<buf[12], buf[13], 0, 0>>)
        acbus  == [p \in 1 .. 10 |-> buf[24 + (p - 1) \div 2]]
    IN  [e EXCEPT !.channel_type[1] = buf[0] % 16, !.driver[1] = Bits(buf[0], 16) \div 2,
              !.clock_polarity = Bits(buf[1], 1), !.data_order = Bits(buf[1], 2),
              !.flow_control = Bits(buf[1], 4), !.powersave = Bits(buf[1], 128),
              !.drive   = FirstTwo(groups.drive, e.drive),
              !.schmitt = FirstTwo(groups.schmitt, e.schmitt),
              !.slew    = FirstTwo(groups.slew, e.slew),
              !.cbus = [p \in 1 .. 10 |-> IF p % 2 = 1 THEN acbus[p] % 16 ELSE acbus[p] \div 16],
              !.chip = buf[30]]

DecodedSpecific(type, old, buf) ==
    LET e == [old EXCEPT !.channel_type[1] = 0]
    IN  CASE type \in Older -> [e EXCEPT !.chip = -1]
          [] type = "2232C" -> Decoded2232C(e, buf)
          [] type = "R"     -> DecodedR(e, buf)
          [] type = "2232H" -> Decoded2232H(e, buf)
          [] type = "4232H" -> Decoded4232H(e, buf)
          [] type = "232H"  -> Decoded232H(e, buf)

-----------------------------------------------------------------------------
(* Defaults and setting.                                                   *)

Four(x) == <<x, x, x, x>>

\* The structure as ftdi_init leaves it.
Blank == [vendor_id |-> 0, product_id |-> 0, self_powered |-> 0, remote_wakeup |-> 0,
          is_not_pnp |-> 0, suspend_dbus7 |-> 0, in_is_isochronous |-> 0,
          out_is_isochronous |-> 0, suspend_pull_downs |-> 0, use_serial |-> 0,
          usb_version |-> 0, use_usb_version |-> 0, max_power |-> 0,
          manufacturer |-> <<>>, product |-> <<>>, serial |-> <<>>,
          channel_type |-> <<0, 0>>, driver |-> Four(0), rs485 |-> Four(0),
          cbus |-> [p \in 1 .. 10 |-> 0], high_current |-> 0, high_current_a |-> 0,
          high_current_b |-> 0, invert |-> 0, drive |-> Four(0), schmitt |-> Four(0),
          slew |-> Four(0), powersave |-> 0, clock_polarity |-> 0, data_order |-> 0,
          flow_control |-> 0, size |-> 0, chip |-> 0, initialized |-> FALSE]

ProductId(type) == CASE type \in {"AM", "BM", "R"} -> 24577 [] type = "4232H" -> 24593
                     [] type = "232H" -> 24596 [] type \in {"2232C", "2232H"} -> 24592

\* ftdi_eeprom_initdefaults; default stands for the type's product name.
Defaults(type, manufacturer, product, serial) ==
    [Blank EXCEPT !.vendor_id = 1027, !.use_serial = 1, !.product_id = ProductId(type),
                  !.usb_version = IF type = "AM" THEN 257 ELSE 512,
                  !.max_power = IF type = "R" THEN 90 ELSE 100,
                  !.manufacturer = manufacturer, !.product = product, !.serial = serial,
                  !.cbus = IF type = "R" THEN <<3, 2, 0, 1, 5, 0, 0, 0, 0, 0>> ELSE @,
                  !.size = IF type = "R" THEN 128 ELSE -1, !.initialized = TRUE]

\* The fields a client sets, of each channel, group or pin.
Numbers   == DOMAIN Blank \ ({"manufacturer", "product", "serial", "channel_type", "driver",
                               "rs485", "cbus", "drive", "schmitt", "slew",
                               "size", "chip", "initialized"})
Quads     == {"driver", "rs485", "drive", "schmitt", "slew"}
Settable  == Numbers \cup Quads \cup {"channel_type", "cbus", "chip"}

\* Values for some of them.  That of the chip's type may be -1, as it is when
\* nothing is known of the chip.

Settings(values) ==
    /\ DOMAIN values \subseteq Settable
    /\ \A f \in DOMAIN values :
         /\ f \in Numbers => values[f] \in Nat
         /\ f \in Quads => values[f] \in [1 .. 4 -> Nat]
         /\ f = "channel_type" => values[f] \in [1 .. 2 -> Nat]
         /\ f = "cbus" => values[f] \in [1 .. 10 -> Nat]
         /\ f = "chip" => values[f] \in Int

\* ftdi_set_eeprom_value for each field in values.  It takes the name of any,
\* CHIP_TYPE too, but refuses CHIP_SIZE.
WithValues(e, values) == [f \in DOMAIN e |-> IF f \in DOMAIN values THEN values[f] ELSE e[f]]

-----------------------------------------------------------------------------
(* What a round through the image keeps: d is the structure decoded from   *)
(* the image built from s.  Flags come back as their bit, whatever made    *)
(* build set it, and numbers if they fit the bytes there are for them.     *)

SameFlag(s, d, value) == (d # 0) = (s = value)
SameTruth(s, d)       == (d # 0) = (s # 0)
OneOf(s, d, values)   == s \in values => d = s

GroupsBack(s, d, n) == \A g \in 1 .. n : /\ OneOf(s.drive[g], d.drive[g], 0 .. 3)
                                         /\ SameFlag(s.schmitt[g], d.schmitt[g], 8)
                                         /\ SameFlag(s.slew[g], d.slew[g], 4)

ChannelsBack(s, d, n) == \A c \in 1 .. n : /\ OneOf(s.channel_type[c], d.channel_type[c], {0, 1, 2, 4})
                                           /\ SameFlag(s.driver[c], d.driver[c], 8)

CommonBack(type, s, d) ==
    /\ OneOf(s.vendor_id, d.vendor_id, Word) /\ OneOf(s.product_id, d.product_id, Word)
    /\ OneOf(s.max_power \div 2, d.max_power, Byte)
    /\ SameFlag(s.self_powered, d.self_powered, 1)
    /\ SameFlag(s.remote_wakeup, d.remote_wakeup, 1)
    /\ type # "AM" => /\ SameFlag(s.in_is_isochronous, d.in_is_isochronous, 1)
                      /\ SameFlag(s.out_is_isochronous, d.out_is_isochronous, 1)
                      /\ SameTruth(s.use_serial, d.use_serial)
    /\ type \in {"BM", "2232C", "R"} => OneOf(s.usb_version, d.usb_version, Word)
    /\ type \in {"BM", "2232C"} => SameFlag(s.use_usb_version, d.use_usb_version, 16)
    /\ type \in {"2232C", "R", "2232H", "4232H"} =>
          SameFlag(s.suspend_pull_downs, d.suspend_pull_downs, 1)

StringsBack(s, d) ==
    (Len(s.manufacturer) < 256 /\ Len(s.product) < 256 /\ Len(s.serial) < 256)
        => <<d.manufacturer, d.product, d.serial>> = <<s.manufacturer, s.product, s.serial>>

\* Of the type's own fields all but the odd CBUS pins of the 232H (see
\* AcbusPair).
SpecificBack(type, s, d) ==
    CASE type \in Older  -> TRUE
      [] type = "2232C" -> /\ ChannelsBack(s, d, 2)
                           /\ SameFlag(s.high_current_a, d.high_current_a, 16)
                           /\ SameFlag(s.high_current_b, d.high_current_b, 16)
                           /\ OneOf(s.chip, d.chip, Byte)
      [] type = "R"     -> /\ SameFlag(s.high_current, d.high_current, 4)
                           /\ OneOf(s.invert, d.invert, Byte)
                           /\ \A p \in 1 .. 4 : OneOf(s.cbus[p], d.cbus[p], 0 .. 13)
                           /\ OneOf(s.cbus[5], d.cbus[5], 0 .. 9)
      [] type = "2232H" -> /\ ChannelsBack(s, d, 2) /\ GroupsBack(s, d, 4)
                           /\ SameFlag(s.suspend_dbus7, d.suspend_dbus7, 128)
                           /\ OneOf(s.chip, d.chip, Byte)
      [] type = "4232H" -> /\ GroupsBack(s, d, 4) /\ OneOf(s.chip, d.chip, Byte)
                           /\ \A c \in 1 .. 4 : /\ SameFlag(s.driver[c], d.driver[c], 8)
                                                /\ SameTruth(s.rs485[c], d.rs485[c])
      [] type = "232H"  -> /\ OneOf(s.channel_type[1], d.channel_type[1], {0, 1, 2, 4, 8})
                           /\ SameFlag(s.driver[1], d.driver[1], 8)
                           /\ SameTruth(s.clock_polarity, d.clock_polarity)
                           /\ SameTruth(s.data_order, d.data_order)
                           /\ SameTruth(s.flow_control, d.flow_control)
                           /\ SameTruth(s.powersave, d.powersave)
                           /\ GroupsBack(s, d, 2) /\ OneOf(s.chip, d.chip, Byte)
                           /\ \A p \in {1, 3, 5, 7, 9} : OneOf(s.cbus[p], d.cbus[p], 0 .. 12)

GivesBack(type, s, d) == CommonBack(type, s, d) /\ StringsBack(s, d) /\ SpecificBack(type, s, d)
=============================================================================
