# A verification of libftdi in TLA+

libftdi drives FTDI's USB-to-serial chips through libusb 1.0. This directory
models the parts of it that keep state across calls, checks the models with TLC
and proves the most important results with TLAPS. Paths are those of the
repository, as `PROJECT.json` writes them (`src/src/ftdi.c` is the library's
`src/ftdi.c`).

## 1. The system

| Component | State | Operations | Hard behaviour |
|---|---|---|---|
| **Packet format, status stripping** (`ftdi.c` 1398-1428, 1789-1821) | the bytes of one transfer, rearranged in place | the memmove loop inside both readers | off-by-one at full, partial and empty last packets; old bytes beyond the transfer |
| **Read path** (`ftdi.c` 1392-1471, 1578-1691, 1745-1896, 877-968) | `readbuffer`, `_offset`, `_remaining`, `_chunksize`; a transfer control block | `ftdi_read_data`, `_submit`, callback, `ftdi_transfer_data_done`, reset, purge, chunk size | leftover between reads of different sizes; callbacks between submit and done; failures half way; cancellation |
| **Write path** (`ftdi.c` 1368-1390, 1474-1562, 1657-1710) | `writebuffer_chunksize`; a control block per write | `ftdi_write_data`, `_submit`, callback, done, chunk size | overlapping writes, partial transfers, failed resubmission |
| **Streaming read** (`ftdi_stream.c`) | `FTDIStreamState` on the stack, a pool of transfers | `ftdi_readstream`, its callback | many transfers in flight, one `result`, a silence watchdog, clean-up |
| **Context and device life cycle** (`ftdi.c` 62-271, 405-756, 981-995, 2289-2394) | `usb_dev`, interface and index, chip type, packet size, EEPROM mark; libusb's handles and claims | init, deinit, open in five forms, get_strings, set_usbdev, set_interface, close | nine failing steps in one call; reuse of a context |
| Device finding (`ftdi.c` 307-378) | a list owned by the client | find_all, list_free | none that outlives the call |
| **Line settings, bit modes, latency, modem status** (`ftdi.c` 1298-1355, 1928-2275) | `bitbang_enabled`, `bitbang_mode` | one control transfer each | the flag multiplies every later rate and outlives a close; it is stored only after the transfer succeeded |
| **Baud rate** (`ftdi.c` 1009-1264) | `baudrate`, which nothing reads | conversion to a divisor, setting | rounding, overflow, gaps between divisors, three layouts of one index |
| **EEPROM on the chip** (`ftdi.c` 3829-4105) | the chip's words; `eeprom->size`, `->chip` | read, write, erase, location access | partial reads and writes, a guessed size, detection by wrap-around |
| **EEPROM image** (`ftdi.c` 2289-3256, 3594-3816) | `struct ftdi_eeprom` and its 256-byte image | initdefaults, build, decode, set value, set buf | string layout, checksum, round trip |
| **C++ wrapper** (`ftdipp/ftdi.cpp`) | open flag, device pointer, strings | Context, Eeprom, List | three library calls in one open, reopening on an open context, a remembered device, flags numbered 0 and 1, a shared context pointer |
| ftdi_eeprom tool, examples, bindings | none of interest | sequences of library calls | |

The components interact through `struct ftdi_context`: the life cycle gives the
readers a handle, a claimed interface and a packet size and empties their
buffer (`ftdi_usb_reset` inside `ftdi_usb_open_dev`); both readers, purge and
reset share the readbuffer; libusb calls the callbacks from whatever call
handles events. There is no lock.

What makes each correct: the strip loop leaves the data bytes and nothing else;
the read path is a byte stream with accounted losses; each write goes out in
order and is truthfully reported; the pool of the streaming read is never lost
track of; after a successful open everything in the context is about the device
that is open; a rate that was set is one the chip has, near the one asked for;
an EEPROM image that decode accepts gives back what it was built from.

## 2. The modules

| Module | Models | Extends / uses |
|---|---|---|
| `Packets` | packet format, as pure operators | |
| `StatusStrip` | the strip loop, statement group by statement group | `Packets` |
| `ByteStream` | abstract: bytes queue up and leave from the front, some are forgotten | |
| `ReadPath` | reading, synchronous and asynchronous | `Packets`, implements `ByteStream` |
| `WritePath` | writing, synchronous and asynchronous | |
| `StreamRead` | `ftdi_readstream` | `Packets`, implements `ByteStream` |
| `Device` | a context's life | |
| `Baudrate` | rate to divisor, as pure operators; what the chips make of it | |
| `LineSettings` | the settings of an open device, the bitbang flag | `Baudrate` |
| `EepromImage` | building and decoding an image, as pure operators; what a round keeps | |
| `Eeprom` | the structure, the chip, and the calls on both | `EepromImage` |
| `Wrapper` | class `Context` of the C++ wrapper | `Device` |
| `StatusStripProofs`, `ByteStreamProofs`, `ReadPathProofs`, `StreamReadProofs`, `WritePathProofs`, `DeviceProofs` (also about `Wrapper`), `LineSettingsProofs`, `EepromProofs` | lemmas and proofs | TLAPS |
| `MC*` | constants for TLC | the module of that name |

**StatusStrip.** The variables are the locals `packet_size`, `actual_length`,
`num_of_chunks`, `chunk_remains`, `i` and the readbuffer with its offset. A
byte is represented by the cell it was received in, so the final contents say
where every byte came from. `SkipStatus`, `MoveChunk`, `MoveTail`/`DropTail`
are the statement groups of lines 1410-1427 (the same as 1797-1814).

**ReadPath.** Data bytes are numbered as the chip sends them. `ReadFromBuffer`
and `ReadStart` are the head of `ftdi_read_data`; `ReadShort`, `ReadMore`,
`ReadExact`, `ReadPart`, `ReadFails` are the ways a round of its loop ends.
`SubmitFromBuffer`, `Submit`, `SubmitFails` are `ftdi_read_data_submit`;
`CbMore`, `CbExact`, `CbPart` the callback; `Done`, `EventsFail`,
`DoneCancelled`, `Abandon` the exits of `ftdi_transfer_data_done`; `PurgeRx`
every call that empties the buffer on the client's demand. A transfer brings
between 0 and chunk-size raw bytes, chosen freely; stripping them is one step
here, because `StatusStrip` shows what it does for a transfer that starts at
offset 0, and `BufferAligned` shows that every transfer does. `delivered`,
`sent` and `discarded` are history. The model's client runs one read at a time
and changes the chunk size only between reads: the two readers share one buffer
without a check, and what happens otherwise is undefined.

**WritePath.** `tc[w]` is the control block of write w, or the locals of
`ftdi_write_data`; `queue` is what libusb has, first in first out on one
endpoint; `wire` is what reached the chip. A transfer that fails may have sent
any part of its bytes. Writes overlap freely, and so may the synchronous ones
(several threads), as they share nothing but the endpoint and the chunk size.

**StreamRead.** `Start` to `SyncFF` is the set-up, `Completed`/`Failed`,
`Packet` and `Finish` are `ftdi_readstream_cb` (begin, one round of the packet
loop, after the loop), `EventsReturn` is one round of the event loop.
Callbacks also run inside the control transfer that switches the mode on, which
handles events while it waits. A transfer that lands after the return writes to
a stack frame that is gone; the model ends at the return.

**Device.** A call is composed of steps on a state (`Opened`, `Claimed`,
`Reset`, `Prepared`, `Closed`), as the C functions are composed of calls;
`OpenDevResults` is the set of states `ftdi_usb_open_dev` can leave, one for
each way out. `careful`, chosen at the start, says whether the client opens
only with a context that has no handle. A rival handle's claim may or may not
give way: libusb's kernel-driver detachment does both, depending on its
version. `ready`, `initFor` and `careful` are not in the program.

**Baudrate.** Two independent parts. The first is the code: `ClkBitsAM` for
`ftdi_to_clkbits_AM`, `ClkBits` for `ftdi_to_clkbits`, `Conversions` for
`ftdi_convert_baudrate`. `FastClock` is the one comparison that overflows
(`baudrate*10`), and then goes either way. The second is the chip: which
divisors it has (`Supported`), how it reads value and index (`ChipDivisor`,
`Readable`) and what rate that makes (`ChipRate`), from the comments and
`test/baudrate.cpp`. The properties compare the two.

**LineSettings.** `Setting` is the shape most setters share: no device, a
request the chip takes, or a transfer that fails. `SetBitmode` and
`DisableBitbang` also change the chip's `mode`, and a failing request may have
changed it or not. `Open` is `ftdi_set_interface` and the part of
`ftdi_usb_open_dev` from the chip type on, with its first rate; the rest of
opening is in `Device`. A device is new, or in the mode the last session left.
`told` is history: the mode the client set last, with success, whatever it has
opened since. Every stale state of the flag is reachable, by either way
`StaleFrom` names.

**EepromImage.** `Image` is `ftdi_eeprom_build` for the seven types: `General`,
`Directory`, `Text` placed modulo the size, then `Specific`, then the checksum
over what is there. `DecodedCommon` is `ftdi_eeprom_decode` up to the checksum,
`DecodedSpecific` what follows. `@@` is read from the left: the left operand was
written last. `GivesBack` says what a round through the image keeps; it is not
in the program.

**Eeprom.** `chip` holds the words, `eeprom` the structure, `buf` the image.
Addresses past the end of the chip wrap around, in reading, in writing and in
the detection (`Probed`). A failing read or write stops at any word of `Cuts`.
`WriteLocationAt` takes any address from 0x80 on, as the code does, and the chip
takes it modulo its words: 266 is word 10 of a 93x66. `SetValues` sets any field
a client can, `chip` (by CHIP_TYPE) among them; only CHIP_SIZE is refused.
`images` and `claimed` are history: every image that was built, with what it was
built from, and every type of chip that the client has set itself. The chip is
blank at first, or holds an image this library wrote; `SetBuf` gives back an
image built before. Bytes made elsewhere are not modelled.
Bytes outside `buf`, which decode reads when lengths are wrong and `strrchr`
when nothing stops it, are 0 or 255.

**Wrapper.** Extends `Device`, composing `Context::Private` with its actions: an
operation of the class (`ClassNext` has them) conjoins the library call it makes with what it does to
`open`, `dev` and `strings`. An open is two or three calls of the library:
`OpenSearch` or `OpenDevice`, `StringsRead`/`StringsFail`, `Reattach`; `at` is the
place inside it, and nothing else can happen until it is through. The
constructor of a List goes through `StringsRead` as well (`NewListed`). `asked`
(what the client wants) and `tidy` (whether it closes between two opens) are not
in the program. `Device`'s `careful` is FALSE: the wrapper calls
`ftdi_usb_get_strings` and `ftdi_usb_open_dev` on a context that has a handle.

## 3. What the runs check

| Run | Shows |
|---|---|
| `status_strip` | `Stripped` (exactly the data bytes, in order), `LengthExact`, `MovesInside` (no read beyond the transfer) |
| `read_path` | `Conservation` (every byte is in one place), `BufferAligned`, `NeverReached` (never -127), `ReadProgress`, `StreamSpec` (implements `ByteStream`) |
| `write_path` | `PrefixOnWire`, `InsideBuffer`, `OneTransferEach`, `ReturnExact`, `WriteEnds` |
| `stream_read` | `Accounting`, `OnePlaceEach`, `SilenceEnds`, `StreamSpec` |
| `device` | `NoHandleLost`, `ReadyToTransfer`, `LeftoverOfThisDevice`, `MarkKept` |
| `line_settings` | `StaleFrom` (what makes the bitbang flag stale, and what ends it), `RateNear` (the chip runs within 5% of the rate), `Encodable` (only divisors the chip has), `Nearest` (no neighbour is nearer), `Refused` (only what the chip cannot do, or is just below divisor 1 or 1.5), `Applied` (the chip reads what the client asked) |
| `eeprom` | `DecodeFaithful` (what decode accepts is an image that was built, and gives it back), `BuiltDecodes` (decode accepts every image built), `SizeGuessed` (the guess is right for every image read back), `Detected` (erase finds the chip that is there, and none but it, or what the client said, is named), `AreasApart` (a location write inside a 93x66 never touches the checksummed words, if the client has claimed no larger chip) |
| `wrapper` | `OpenAsAsked` (`is_open()` means a claimed handle on the device asked for, and its strings) |
| `stream_callback_stops` | violated: the callback goes on being called after a nonzero answer |
| `stream_nothing_outstanding` | violated: clean-up cancels nothing |
| `done_waits` | violated: done frees a transfer in flight when event handling fails twice |
| `eeprom_strings` | violated: the strings of a 232H start four bytes before where the comment says, under the CBUS bytes |

The four violations are disagreements between a document or comment and the
code; `PROJECT.json` quotes them under "findings".

**Bounds.** `status_strip`: packets of 3, 4, 5, 8 bytes, transfers up to 24, so
that one to eight packets end in every way; the proof covers the rest.
`read_path`: packets of four bytes (two of data), chunk sizes 4, 7 and 9 cut by
a limit of 8, reads of 0, 1, 2, 3, 5, seven data bytes: a read can be smaller
than, equal to and larger than one transfer and than the leftover, and the
buffer goes through several reads. `write_path`: two writes of 0, 1 or 3 bytes
in chunks of 1 or 2: no, one, several and cut chunks. `stream_read`: two
transfers of two packets, five bytes, so that each transfer is used again with
data. `device`: three devices (dual, single, unknown chip), three handles, two
interfaces; a lost handle, its rival and a free one fit. `wrapper`: two devices,
three handles, so that one is lost and an open follows that needs two
(`Room`). `line_settings`: rates
next to every half-way point between the divisors from 7 to 20 eighths of both
clocks, where rounding and the gaps bite, at the ends of the tolerance, at the
switch of clocks, and where a product overflows; normal, bitbang and one other
mode; one or two interfaces per type. The theorems cover all other rates. `eeprom`: each chip type once, the 232H with the
smallest and the largest EEPROM, names that leave room, fill the area for
strings to the last character and exceed it by one, and two sets of values, each
flag on in one and off in the other, and for two types a CHIP_TYPE, of a smaller chip
than the one there is on the 2232C and of a larger one on the 4232H, where the words
that write_location then reaches are protected ones; addresses below 0x80, inside a
93x66 and past its end; up to four calls and one failed transfer
from an empty EEPROM, and from one that holds an image while another has been
built (so four calls reach: write part of it, read, decode). `MaxSent`,
`MaxLength`, `MaxCalls`, `MaxFaults`, `Cuts`, `Addresses`, `Data`, `Handles` and the sets
of sizes, rates and values are the only bounds; all are guards or constants,
none is a state constraint.

**Fairness.** `StreamRead`: the function runs in one thread, so it goes on when
it can, the client's callback returns, and `libusb_handle_events_timeout`
returns at its timeout (weak fairness of `EventsReturn(0)`, the packet loop and
`Finish`). No error, and no data, is assumed to come. `WritePath`: strong
fairness of a transfer being accepted: a chip that refuses transfers for ever
lets a write be resubmitted for ever, as the callback does not look at the
status; and a client that submitted a write waits for it. The other modules
state no fairness and only safety.

Deadlock is checked where the system goes on for ever (`write_path`, `device`,
`wrapper`, `line_settings`); the others end: the loop is over, the function has returned, a
transfer was freed in flight after which nothing is defined, or, in `eeprom`,
the calls are used up.

**Hypotheses of the properties.** `RateNear`, `Nearest` and `Refused` hold in
every state, those with a stale flag included: the rate they expect is four
times the one asked for if the last mode set with success is a bitbang mode, which is
what the context goes by. That the interface may be in another mode is `StaleFrom`.
In a bitbang mode they are about rates from -2^29 to 2^29 - 1, whose fourfold an
int holds: `ftdi_set_baudrate` multiplies by four in an int, so that 2^30 + 2400
sets 9600 and returns 0, and so does -2^30 + 2400, a rate below zero (the proof of
`RateNear` showed that a bound on one side is not enough). In the normal mode they
are about all rates. `Refused` leaves out two divisors, 1 and 1.5, and for
them only the rates just below theirs, on all chips but the AM: `ftdi_to_clkbits`
only tries the lower of the two neighbours there, and the rates from 1.905 to 2 MHz
and from 2.86 to 3 MHz are refused although 2 and 3 MHz are within 5% (the comment
at `ftdi.c` 1155 says "nearest supported"). `Nearest` allows a neighbour that is
nearer in divisors to be as far in rates, and the reverse.
`AreasApart` is about addresses below 256 and clients that have not said by
CHIP_TYPE that the chip is larger than it is (`Honest`); it fails without either
(see below). `Detected` excepts the types the client has set, and their low
bytes, which are what an image keeps of them.
`DecodeFaithful` is about images built for the chip that is there: `chip` is 0
until erase or decode has set it, and build then assumes 128 bytes; and for a
232H not with a 93x46, which is `eeprom_strings`. `SpecificBack` leaves out the
odd CBUS pins of the 232H, to which `set_ft232h_cbus` (2409) gives the even
pin's function.
`OpenAsAsked` is about a tidy client. Without a `close()` after
a failed open, `open(vendor, product)` opens the device the failed one left in
`dev` (`ftdi.cpp` 320), and after a failed second open `is_open()` still says
true (86). No document tells the client to call `close()`.

**Other observations**, modelled as they are, with no document to disagree with:

* `bitbang_enabled` is described (95) as "0: normal mode 1: any of the bitbang modes
  enabled". A context closed in a bitbang mode keeps it at 1, so the next
  `ftdi_usb_open`, of a device in the normal mode, sets 38400 for 9600 and returns 0,
  and every later rate is four times what was asked for until a mode is set. The
  same after a request for a mode whose transfer failed but reached the chip.
* `ftdi_write_eeprom_location` compares the address with 0x80 only (3955): 256 is
  word 0 of a 93x66, which the checksum protects.
* `ftdi_set_eeprom_value(CHIP_TYPE, 0x66)` (3745) on a small chip, built and
  written, makes `ftdi_write_eeprom_location` take that chip for a 93x66, and its
  addresses wrap into the protected words.
* The index of a 2232C's baud rate carries no interface (1206).
* Decode gives flags as masks (`buf & 0x40`) and build tests `== 1`: building
  what was decoded loses them, and halves `max_power` again. Decoding an AM or BM
  sets `chip` to -1, after which build returns -6.
* `ftdi_write_eeprom` with a size of -1, which initdefaults sets, writes nothing
  and returns 0.
* Nothing puts 0x66 where `ftdi_write_eeprom_location` looks for it on a BM (0x14):
  the call is refused there unless a string happens to.
* Lengths of strings are kept in an unsigned char: a name of 256 characters
  passes the check of the size as an empty one.
* `initialized_for_connected_device` stays set when another device is opened
  without closing the first, or set with `ftdi_set_usbdev`: `MarkKept` is about a
  careful client.
* The comment in `get_strings_and_reopen` (`ftdi.cpp` 325) says that getting the
  strings closes the device. The handle `ftdi_usb_open` took is overwritten
  instead, and stays open with its claim: after `OpenSearch`, `StringsRead` the
  model has a handle that no context knows.
* The flags of `flush()` and `set_modem_control()` (`ftdi.hpp` 56-68) are
  combined with `|` but numbered 0 and 1: by default `flush` does not purge the
  readbuffer, and `set_modem_control` clears DTR. `flush` returns the bitwise and
  of 1 and the results: 0 for success and 1 for a failure with -1.
* `ftdi_get_eeprom_value` gives the ninth pin for `CBUS_FUNCTION_9` (3508), and
  the ftdi_eeprom tool sets `USE_USB_VERSION` and `HIGH_CURRENT` to 1
  (`main.c` 279-283), where build compares with 0x10 and 4. Neither is modelled.

## 4. What is proved

All for every value of the constants that satisfies the module's assumption
(packet size above two; chunk sizes above zero; interface 0 exists).
`PROJECT.json` lists the theorems with the properties they state.

* `StatusStripProofs`: `StripTypeCorrect`, `StripCorrect`, `StripLengthExact`,
  `StripMovesInside`. The inductive invariant adds to the type what the loop has
  done so far: packets 0..i-1 are packed (`PackedUpTo`), all cells from packet i
  on are as received, and the length is the received one less 2.
* `ByteStreamProofs`: `StreamInOrder`, the abstract stream delivers each byte at
  most once and in order; and, as both readers are proved to implement it, the
  lemmas on concatenation, stretches and cuts of sequences the three share.
* `ReadPathProofs`: `ReadTypeCorrect`, `ReadConserves`, `ReadAligned`,
  `ReadNeverReached`, `ReadProgresses`. None is inductive by itself. `ReadInv`
  adds: while bytes are left the readbuffer is long enough to hold them; a read
  in progress has gathered less than its size, unless its transfer has completed;
  which combinations of mode, completed, transfer and status occur. One lemma
  per action. Then `ReadImplementsStream`, the refinement `queue <- Held` (the
  read in progress followed by the leftover), one lemma per action under
  `ReadInv`; and `ReadInOrder`, the stream's invariant carried over it.
* `StreamReadProofs`: `PoolTypeCorrect`, `StreamAccounts` (`Accounting`),
  `TransfersPlaced` (`OnePlaceEach`), for any number of transfers and of packets
  in each. `OnePlaceEach` counts; what is inductive is `Placed`: the queue
  has no transfer twice, and queue, callback, freed and dead are disjoint and
  together all there are. It is stated for any queue and sets, so that a step
  that takes the first transfer, and one that submits it again, are each one
  lemma. `StreamInv` adds to it that the packets of the transfer in the callback
  are what is pending (`Handled`), on which `Accounting` rests. Then
  `StreamReadImplementsStream` (`queue <- pending`) and `StreamReadInOrder`.
* `DeviceProofs`: `TypeCorrect`, `NoHandleIsLost`, `OpenedIsReady`,
  `LeftoverIsOwn`, `MarkIsKept`, for any devices, handles and interfaces. The
  inductive invariant joins the four and adds that the context's handle is open
  (`Linked`); `ready` and the mark only mean something through it. As the
  calls are composed of steps on one record, so is the proof: each step keeps
  `Basic`, which also holds in the middle of a call, and each call ends in a
  `Sound` state at every point where it may fail. An open that succeeds has
  opened the device it was called for, whatever it has looked at on the way.
  `ClassUsesLibrary`: the class is a client `Device` has, each of its steps being
  a call of the library or none (`ClassSpec => Spec`), which needs that an open
  under way goes for a device (`Targeted`). With it `Device`'s invariant holds
  below the class, and `OpenAsAskedAlways` follows by a second invariant,
  `AsAsked`: with a tidy client the remembered device is none or the one asked
  for, at each of the places inside an open too, and `is_open()` is false
  throughout.
* `WritePathProofs`: `WriteTypes`, `BytesInOrder`, `TransfersInside`,
  `TransfersUnique`, `ResultsTruthful`, for any number of writes, any sizes and
  chunk sizes. One inductive invariant, `WriteInv`: `QueueRight` (the queue holds
  one transfer of each busy write, where that write has got to, and no other),
  `WireRight` (the wire holds a prefix of each write, in order), and what the
  fields of a record have to do with each other. Both are stated for any queue,
  wire and records, so that a step that takes a transfer and puts the next one is
  two applications of lemmas (`Taken`, `Added`) with a record in between in which
  the write is not busy.
* `LineSettingsProofs`: `EveryConversionReadable`: whatever the rate above zero, the
  type and the interface, the request is for a divisor the chip has. The divisor
  is bounded step by step, from the quotient through rounding and clamping
  (`TryDivisor`, `RoundedDivisor`); then what `Encoded` packs `ChipDivisor`
  unpacks, case by case of the eighth, since the solver does not find a division
  and a remainder at once. From it `RatesEncodable`, for an open and for a
  setter. `EveryConversionTrue`: the rate the code holds against the one asked for
  is the one the chip makes of the request; `ftdi_to_clkbits` rounds a quotient
  with one bit more, the chip adds half the divisor, and `RoundedBothWays` shows
  that they agree. `StaleFlags` (`StaleFrom`) and `LineTypes`, for any rates,
  modes and interfaces, go call by call under `FlagInv`: the types of the context's
  fields and of the mode, and that the flag is for the mode that was told last,
  which outlives every close and failed request. On them rest `RatesNear`, `NearestChosen` and `RefusedRightly`
  (`RateNear`, `Nearest`, `Refused`), through one invariant: the last rate was
  set by a conversion of it that is within the tolerance, or refused for one that
  is not (`Converted`, `Rejected`). That the divisor is the nearest of all the chip
  has, not only of its neighbours, is `Chosen`: for `ftdi_to_clkbits` it is off by
  half an eighth at most (`HalfAnEighth`), hence within 5% from 2 on
  (`SmallError`), or one of the first three or the last; for `ftdi_to_clkbits_AM`
  the two divisors it tries are neighbours among those it has
  (`NeighboursTried`), and when the nearer is not within the tolerance the other is
  not either, as they are either close together or far apart (`TenthApart`):
  the tolerance is not symmetric, so this is not obvious. `RequestsApplied`
  (`Applied`) goes call by call: each packs its arguments into fields that
  `Meaning` unpacks.

* `EepromProofs`: `Inductive`, and from it `TypeCorrect`, `NeverNamesLarger`,
  `LocationsApart` (`AreasApart`), `BuiltAccepted` (`BuiltDecodes`), `SizeFound`
  (`SizeGuessed`), `EraseFinds`, `RoundTrips`, `DecodesBack` (`DecodeFaithful`) and
  `ChipsDetected` (`Detected`). The constants may be any devices of the seven
  types with 64, 128 or 256 words (128 in an R), any C strings (bytes without
  NUL, which is what the `char *` parameters of `ftdi_eeprom_initdefaults` can
  hold), any non-negative values for any fields that `ftdi_set_eeprom_value` sets and any
  integer for CHIP_TYPE, any cuts, addresses and data. That the images
  consist of bytes is not enough for an induction: a failed write leaves a mixture
  of images on the chip and a failed read one in `buf`, so all one can say of either
  is said byte by byte. What `IInv` says of them is that no byte at the place
  where the type's images name their chip (`TypeAddress`) names a larger chip than
  the one there is (`Forbidden`), unless the client has said that it is larger (`Limit` is
  then that of a 93x66): build puts the structure's there, or on a BM, where
  the strings of a small chip start, an even length of at most 98 (`TypeByte`);
  addresses that wrap bring other words there only where they are of the same kind.
  So decode, which trusts that byte when the checksum happens to be right, never
  makes the structure name a larger chip (`NeverNamesLarger`), and
  `ftdi_write_eeprom_location` never takes a small chip for a 93x66, which is why
  an address inside a 93x66, which it does not compare with the size, cannot wrap into
  the checksummed words (`LocationsApart`). Both are about clients that have not
  said by CHIP_TYPE that the chip is a larger one.
  `SizeFound` needs that an image of 256 bytes never has equal halves or quarters by
  accident, nor an image of any size no zero at all: the byte at 06 is 0, the release
  number at 07 is not, and build puts nothing at 47 and 87 (`BodyMarks`).
  `BuiltAccepted` needs that the checksum only depends on the bytes before it (`SumsAgree`): the sum is a recursive function, and that it
  is what its definition says (`PartialAgree`, `PartialExists`) and the equality of
  two are shown by the least number at which they would differ (`Least`, from the
  library's well-foundedness of the naturals; its induction theorem is out of the
  provers' reach).

  `RoundTrips` says what a round through the image keeps, after any calls: if
  decode returns 0 and `buf` holds one of the images built (`Holding`), whole and of
  the structure's size, it gives back what that image was built from. Its core,
  `ImageRound`, is about the two operators alone. Build lays pieces over each other
  (`@@`), so the proof first finds which piece each address shows (`Has`, `Misses`,
  `HeldSpecific`, `HeldGeneral`, `HeldDirectory`, `HeldText`), for which no two
  pieces may meet below the checksum (`SpecificBelow`: they do on a 232H with 128
  bytes, the finding above, and only there). Then it is a matter of bytes: a bit comes
  back out of a sum of bits (`BitsOfSum`), a nibble out of two (`NibblesApart`), the
  fields of each type out of its bytes (`Round2232C` to `Round232H`), and the strings
  from where the directory says they are, though the offset loses its upper bits on
  an image of 128 bytes (`StringRound`). The strings come back because they have no
  NUL inside; that no call ever puts one there, not even a decode of damaged
  bytes, is an invariant of its own (`NamesKept`). To be exact about which values
  come back, `CommonBack` and `SpecificBack` say it for each field: vendor,
  product and USB version up to 16 bits, the power as the byte holds it (half of what
  was set, up to 255), flags by their bit.

**What a checksum can do.** `DecodeFaithful` and `Detected` are not true of all values
a client may set: a transfer that fails half way leaves a mixture of two images,
and for some values its 16-bit checksum is right by chance. The run shows that
this does not happen with its values and cuts. For all values the theorems say that
nothing else can go wrong:

* `DecodesBack`: `DecodeFaithful` holds in every state in which decode has not
  just accepted something that is no image (`Recognised`: if it returned 0, `buf` agrees
  with an image that was built, of that size, on all its bytes). No assumption is
  made about what is in `buf` when decode refuses, nor about earlier decodes.
* `ChipsDetected`: `Detected` holds in every behaviour in which no decode has
  accepted anything but an image (`NoCollision`, which asks nothing of the sizes: the
  size that read guesses may be wrong when images were built for another chip).
  Here earlier states count: the wrong chip of a collision stays in the structure
  until the next erase or decode, and in the images built from it. The invariant is `OneChip`: the structure and
  all images name the chip that is there, one the client has set, or 0, or, the
  structure only, none.
  Without any hypothesis `EraseFinds` gives the first half of `Detected`, and the
  second for an AM and a BM, whose images name no chip (so CHIP_TYPE alone can make
  the structure do so), and `NeverNamesLarger` that
  the wrong chip of a collision is never a larger one.

Out of the prover's reach and left to TLC: the liveness properties `SilenceEnds`
and `WriteEnds`. What the run alone shows of decode is that with its values no
mixture of images has a checksum that is right by chance.

## 5. What is not modelled, and what is left

Not modelled:

* device lists (`ftdi_usb_find_all`): filtered from libusb's and owned by the
  client; they leave no state in the context;
* getters that change nothing (`ftdi_get_eeprom_value`, `ftdi_get_eeprom_buf`,
  `ftdi_read_chipid`), progress rates of the streaming read, error strings,
  allocation failures in `ftdi_init`, timeouts, decode's printing;
* of the C++ wrapper the operations that only pass a call on (the calls are those
  of the library's modules), the containers of `List`, and the protected
  `set_context`, which frees a context that an `Eeprom` still points to;
* the ftdi_eeprom tool, examples, bindings and tests: sequences of calls that
  are modelled.

Left: the two unmodelled observations on `ftdi_get_eeprom_value` and the tool in
section 3.
