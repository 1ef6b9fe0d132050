------------------------------- MODULE Eeprom -------------------------------
(***************************************************************************)
(* A context's EEPROM structure and the EEPROM of the device it has open:  *)
(* reading, writing and erasing the chip word by word, detecting its size  *)
(* by where addresses wrap around, building and decoding the image (module *)
(* EepromImage), and the failures between any two words.                   *)
(*                                                                         *)
(* The chip is a 93x46, 93x56 or 93x66 of 64, 128 or 256 words, or the     *)
(* memory inside an R chip, of 128 words here.  It is modelled from how    *)
(* the library uses it.                                                    *)
(***************************************************************************)
EXTENDS EepromImage

CONSTANTS Chips,        \* pairs of a chip type and its number of words
          Names,        \* per type, <<manufacturer, product, serial>> given to initdefaults
          Values,       \* per type, the sets of values a client sets
          Cuts,         \* the words at which a transfer may fail
          Addresses,    \* of single words
          Data,         \* what is written there
          MaxFaults,    \* bound on failed transfers
          MaxCalls      \* bound on the calls

\* The names are C strings.
CStrings == Seq(Byte \ {0})

ASSUME EepromAssumption ==
    /\ Chips \subseteq Types \X {64, 128, 256}
    /\ \A c \in Chips : /\ c[1] = "R" => c[2] = 128
                        /\ Names[c[1]] \subseteq CStrings \X CStrings \X CStrings
                        /\ \A values \in Values[c[1]] : Settings(values)
    /\ Cuts \subseteq Nat /\ Addresses \subseteq Int /\ Data \subseteq Word
    /\ MaxFaults \in Nat /\ MaxCalls \in Nat

VARIABLES
    type,      \* ftdi->type
    words,     \* the number of words of the chip
    chip,      \* the words in it
    eeprom,    \* the structure without buf
    buf,
    images,    \* the images built so far, each with what it was built from
    claimed,   \* the types of chip that the client has set itself
    faults,    \* the transfers that have failed
    calls,     \* the calls made
    last       \* the last call and what it returned, of the Observed ones

vars == <<type, words, chip, eeprom, buf, images, claimed, faults, calls, last>>

\* The calls and results that properties are about; all others are told by Other.
Observed == {<<"read", 0>>, <<"decode", 0>>, <<"decode", -1>>, <<"erase", 0>>,
             <<"write_location", 0>>}
Other    == <<"other", 0>>

All  == 0 .. words - 1

DefaultsOf(t) == {Defaults(t, n[1], n[2], n[3]) : n \in Names[t]}

Kind == IF type = "R" THEN 0
        ELSE CASE words = 64 -> 70 [] words = 128 -> 86 [] words = 256 -> 102

ImageOf(e) == LET sized == [e EXCEPT !.size = BuildSize(e.chip)]
              IN  [of |-> sized, buf |-> Image(type, sized)]

\* The type of chip among the values v.
Claims(v) == IF "chip" \in DOMAIN v THEN {v.chip} ELSE {}

ByteWord(b, i) == b[2*i] + 256 * b[2*i + 1]

\* A context that has just opened a device with an empty EEPROM, or has also
\* initialised the structure.
InitFresh == /\ chip = [w \in All |-> 65535]
             /\ eeprom \in {Blank} \cup DefaultsOf(type)
             /\ buf = [a \in Address |-> 0]
             /\ images = {}
             /\ claimed = {}

\* One that has detected the chip, written the image of the defaults d, and
\* built another with the values v since.
Programmed(d, v) ==
    LET e       == [d EXCEPT !.chip = Kind]
        written == ImageOf(e)
        built   == ImageOf(WithValues(e, v))
    IN  /\ Room(type, e) >= 0 /\ built.of.chip # -1
        /\ eeprom = built.of
        /\ buf = built.buf
        /\ images = {written, built}
        /\ claimed = Claims(v)
        /\ chip = [w \in All |-> IF w < written.of.size \div 2 THEN ByteWord(written.buf, w)
                                 ELSE 65535]

InitProgrammed == \E d \in DefaultsOf(type), v \in Values[type] : Programmed(d, v)

Init == /\ \E c \in Chips : type = c[1] /\ words = c[2]
        /\ InitFresh \/ InitProgrammed
        /\ faults = 0
        /\ calls = 0
        /\ last = Other

-----------------------------------------------------------------------------
(* Calls on the structure.                                                 *)

Returns(call, result) ==
    last' = IF <<call, result>> \in Observed THEN <<call, result>> ELSE Other

\* One of the calls that the bound is about.
Call == calls < MaxCalls /\ calls' = calls + 1

\* A call that changes nothing.
Refused(call, result) ==
    /\ Returns(call, result)
    /\ UNCHANGED <<type, words, chip, eeprom, buf, images, claimed, faults, calls>>

OnDevice == UNCHANGED <<type, words, claimed>>

InitDefaults ==
    /\ Call
    /\ eeprom' \in DefaultsOf(type)
    /\ buf' = [a \in Address |-> 0]
    /\ Returns("initdefaults", 0)
    /\ OnDevice /\ UNCHANGED <<chip, images, faults>>

SetValues ==
    /\ Call
    /\ \E v \in Values[type] : /\ eeprom' = WithValues(eeprom, v)
                              /\ claimed' = claimed \cup Claims(v)
    /\ Returns("set_value", 0)
    /\ UNCHANGED <<type, words, chip, buf, images, faults>>

BuildUnknown == eeprom.chip = -1 /\ Refused("build", -6)

BuildTooLong ==
    /\ Call
    /\ eeprom.chip # -1 /\ Room(type, eeprom) < 0
    /\ eeprom' = [eeprom EXCEPT !.size = BuildSize(eeprom.chip)]
    /\ Returns("build", -1)
    /\ OnDevice /\ UNCHANGED <<chip, buf, images, faults>>

Build ==
    /\ Call
    /\ eeprom.chip # -1 /\ Room(type, eeprom) >= 0
    /\ LET image == ImageOf(eeprom)
       IN  /\ eeprom' = image.of
           /\ buf' = image.buf
           /\ images' = images \cup {image}
    /\ Returns("build", Room(type, eeprom))
    /\ OnDevice /\ UNCHANGED <<chip, faults>>

\* Memory around buf is read when the lengths in it are not those of an image.
Decode ==
    /\ Call
    /\ LET common == {DecodedCommon(eeprom, buf, beyond) : beyond \in {0, 255}}
       IN  IF ChecksumRight(buf, eeprom.size)
           THEN /\ eeprom' \in {DecodedSpecific(type, e, buf) : e \in common}
                /\ Returns("decode", 0)
           ELSE eeprom' \in common /\ Returns("decode", -1)
    /\ OnDevice /\ UNCHANGED <<chip, buf, images, faults>>

\* ftdi_set_eeprom_buf with an image that was built before.
SetBuf ==
    /\ Call
    /\ \E i \in images :
         buf' = [a \in Address |-> IF a < i.of.size THEN i.buf[a] ELSE buf[a]]
    /\ Returns("set_buf", 0)
    /\ OnDevice /\ UNCHANGED <<chip, eeprom, images, faults>>

-----------------------------------------------------------------------------
(* Calls on the chip.                                                      *)

Fails == faults < MaxFaults /\ faults' = faults + 1

\* buf after the first k words have been read into it.
BufRead(k) == [a \in Address |-> IF a >= 2*k THEN buf[a]
                                 ELSE LET w == chip[(a \div 2) % words]
                                      IN  IF a % 2 = 0 THEN Low(w) ELSE High(w)]

SameHalves(b, n) == \A a \in 0 .. n - 1 : b[a] = b[a + n]

\* Mutant: the halves are not compared.
SizeGuess_NoWrap(b, beyond) == IF type = "R" THEN 128 ELSE 256

\* Mutant: all of a 93x66.
SizeGuess_Full(b, beyond) ==
    IF type = "R" THEN 128 ELSE IF SameHalves(b, 128) THEN 128 ELSE 512

\* strrchr finds the last FF before the first NUL, wherever that is.
SizeGuess(b, beyond) ==
    IF type = "R" THEN 128
    ELSE IF b[255] = 255 /\ beyond # 255 /\ (\A a \in Address : b[a] # 0) THEN -1
    ELSE IF SameHalves(b, 128) THEN 128
    ELSE IF SameHalves(b, 64)  THEN 64
    ELSE 256

ReadEeprom ==
    /\ Call
    /\ buf' = BufRead(128)
    /\ \E size \in {SizeGuess(buf', beyond) : beyond \in {0, 255}} :
         eeprom' = [eeprom EXCEPT !.size = size]
    /\ Returns("read", 0)
    /\ OnDevice /\ UNCHANGED <<chip, images, faults>>

ReadFails ==
    /\ Call
    /\ Fails
    /\ \E k \in Cuts : buf' = BufRead(k)
    /\ Returns("read", -1)
    /\ OnDevice /\ UNCHANGED <<chip, eeprom, images>>

\* The chip after words 0 to k-1 of buf have been written to it in this order;
\* an address past its end wraps around.
ChipWritten(k) ==
    [w \in All |-> IF w >= k THEN chip[w]
                   ELSE ByteWord(buf, w + words * ((k - 1 - w) \div words))]

WordsToWrite == IF eeprom.size > 0 THEN eeprom.size \div 2 ELSE 0

\* Also when the size is not known: it then writes nothing.
WriteEeprom ==
    /\ Call
    /\ eeprom.initialized
    /\ chip' = ChipWritten(WordsToWrite)
    /\ Returns("write", 0)
    /\ OnDevice /\ UNCHANGED <<eeprom, buf, images, faults>>

WriteFails ==
    /\ Call
    /\ eeprom.initialized
    /\ Fails
    /\ \E k \in Cuts : k < WordsToWrite /\ chip' = ChipWritten(k)
    /\ Returns("write", -1)
    /\ OnDevice /\ UNCHANGED <<eeprom, buf, images>>

\* No mark, or the reset, status or latency request before the words fails.
WriteRefused ==
    Refused("write", IF eeprom.initialized THEN -1 ELSE -3)

\* The byte of an image that says which chip it is for.
ChipTypeLocation == CASE type \in {"BM", "2232C"} -> 20
                      [] type \in Dual -> 24 [] type = "232H" -> 30 [] OTHER -> -1

\* Mutant: any chip will do.
Is66_Any == ChipTypeLocation # -1

Is66 == /\ ChipTypeLocation # -1
        /\ Low(chip[ChipTypeLocation \div 2]) = 102

\* The address is only compared with 80; one past the end of the chip wraps
\* around, also if the library is wrong about the chip.
WriteLocationAt(a, data) ==
    /\ Call
    /\ a >= 128 /\ Is66
    /\ chip' = [chip EXCEPT ![a % words] = data]
    /\ Returns("write_location", 0)
    /\ OnDevice /\ UNCHANGED <<eeprom, buf, images, faults>>

WriteLocation == \E a \in Addresses, data \in Data : WriteLocationAt(a, data)

LocationRefused ==
    \E a \in Addresses :
      /\ a < 128 \/ ~Is66
      /\ Refused("write_location", CASE a < 128 -> -2 [] ChipTypeLocation = -1 -> -4 [] OTHER -> -6)

-----------------------------------------------------------------------------
(* Erasing and detecting the chip.                                         *)

Magic  == 21930
Erased == [w \in All |-> 65535]
Marked == [Erased EXCEPT ![192 % words] = Magic]

\* Mutant: the probes in the other order.
Probed_Other == IF Marked[64 % words] = Magic THEN 86
                ELSE IF Marked[0] = Magic THEN 70 ELSE 102

\* Where the magic is seen.
Probed == IF Marked[0] = Magic THEN 70
          ELSE IF Marked[64 % words] = Magic THEN 86
          ELSE IF Marked[192 % words] = Magic THEN 102 ELSE -1

EraseInternal ==
    /\ Call
    /\ type = "R"
    /\ eeprom' = [eeprom EXCEPT !.chip = 0]
    /\ Returns("erase", 0)
    /\ OnDevice /\ UNCHANGED <<chip, buf, images, faults>>

Erase ==
    /\ Call
    /\ type # "R"
    /\ chip' = Erased
    /\ eeprom' = [eeprom EXCEPT !.chip = Probed]
    /\ Returns("erase", 0)
    /\ OnDevice /\ UNCHANGED <<buf, images, faults>>

EraseRefused == type # "R" /\ Refused("erase", -1)

\* Writing the magic fails, or a probe, or the second erasing.
EraseFails ==
    /\ Call
    /\ type # "R"
    /\ Fails
    /\ \/ Returns("erase", -3) /\ chip' = Erased /\ UNCHANGED eeprom
       \/ Returns("erase", -4) /\ chip' = Marked /\ UNCHANGED eeprom
       \/ /\ Returns("erase", -1) /\ chip' = Marked
          /\ eeprom' = [eeprom EXCEPT !.chip = Probed]
    /\ OnDevice /\ UNCHANGED <<buf, images>>

-----------------------------------------------------------------------------
Next == \/ InitDefaults \/ SetValues \/ Build \/ BuildUnknown \/ BuildTooLong \/ Decode \/ SetBuf
        \/ ReadEeprom \/ ReadFails \/ WriteEeprom \/ WriteFails \/ WriteRefused
        \/ WriteLocation \/ LocationRefused
        \/ Erase \/ EraseInternal \/ EraseRefused \/ EraseFails

Spec == Init /\ [][Next]_vars

-----------------------------------------------------------------------------
(* Properties.                                                             *)

\* The two agree on the first n bytes.
Agree(b, c, n) == \A a \in 0 .. n - 1 : b[a] = c[a]

TypeOK == /\ chip \in [All -> Word]
          /\ buf \in [Address -> Byte]
          /\ DOMAIN eeprom = DOMAIN Blank
          /\ eeprom.size \in {-1, 0, 64, 128, 256}
          /\ faults \in 0 .. MaxFaults
          /\ calls \in 0 .. MaxCalls

\* decode returned 0 for a buffer that holds one of the images that were built,
\* whole, and it has given back what that image was built from, as far as back
\* says.
Decoded(back(_, _)) ==
    last = <<"decode", 0>> =>
        \E i \in images : Agree(buf, i.buf, eeprom.size) /\ back(i.of, eeprom)

DetectedFirst == \A i \in images : i.of.chip = Kind

\* Whatever was read or written in part before, what decode accepts is an image
\* that was built, and it gives back all of it, as long as images are built for
\* the chip that is there, and for a 232H only on chips with 256 bytes (see
\* StringsSurvive).
DecodeFaithful ==
    (DetectedFirst /\ (type = "232H" => Kind # 70))
        => Decoded(LAMBDA built, decoded : GivesBack(type, built, decoded))

\* decode accepts every image that build made, with the size it was built for.
BuiltDecodes ==
    (/\ last[1] = "decode"
     /\ \E i \in images : eeprom.size = i.of.size /\ Agree(buf, i.buf, eeprom.size))
        => last[2] = 0

\* An image built for the chip that is there and written to it whole is read
\* back with the size it was built for, though read only guesses it.
SizeGuessed ==
    last = <<"read", 0>> =>
        \A i \in images :
            (/\ i.of.chip = Kind
             /\ \A w \in 0 .. i.of.size \div 2 - 1 : chip[w] = ByteWord(i.buf, w))
            => eeprom.size = i.of.size /\ Agree(buf, i.buf, i.of.size)

\* What the client has said of the chip, and what an image keeps of that.
Said == claimed \cup {Low(c) : c \in claimed}

\* erase finds the chip that is there, whatever was said of it, and no sequence of
\* calls ends with the structure naming one that is neither there nor said.
Detected ==
    /\ last = <<"erase", 0>> => eeprom.chip = Kind
    /\ type # "R" => eeprom.chip \in {0, -1, Kind} \cup Said

\* The types of chips with more words than n.
Larger(n) == CASE n = 64 -> {86, 102} [] n = 128 -> {102} [] OTHER -> {}

\* The client has not said that the chip is a larger one.
Honest == \A c \in claimed : Low(c) \notin Larger(words)

\* As long as the client has not said that the chip is a larger one, writing a
\* location inside a 93x66 never touches the words that the checksum protects,
\* whatever chip is there and though the address is not compared with its size.
AreasApart ==
    [][\A a \in Addresses, data \in Data :
           (WriteLocationAt(a, data) /\ a < 256 /\ Honest)
               => \A w \in All \cap (0 .. 127) : chip'[w] = chip[w]]_vars

-----------------------------------------------------------------------------
\* The comment on the strings in ftdi_eeprom_build: they start where the bytes of
\* the chip type have ended ("0xa0 (TYPE_232H)"), so that the strings of an image
\* built for the chip that is there survive it.
StringsSurvive == DetectedFirst => Decoded(StringsBack)
=============================================================================
