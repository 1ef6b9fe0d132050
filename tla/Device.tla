------------------------------- MODULE Device -------------------------------
(***************************************************************************)
(* The life of a ftdi_context: initialising it, choosing the interface,    *)
(* opening and closing devices with it in every way the library offers,    *)
(* and what the calls that need a device rely on: the handle, the claimed  *)
(* interface, the chip type and packet size, the bytes left in the         *)
(* readbuffer and the mark that the EEPROM structure is for this device.   *)
(*                                                                         *)
(* A client may be careful, that is open nothing with a context that still *)
(* has a handle (also one a failed call left behind), or not: the library  *)
(* does not check it.  libusb's side (handles, claims) is modelled from    *)
(* how the library uses it.                                                *)
(***************************************************************************)
EXTENDS Integers

CONSTANTS Devices,
          Handles,      \* bound on the handles open at a time
          Interfaces,   \* of a device, from 0
          Chip,         \* what a device's descriptor says it is, or "unknown"
          None

Types     == {"AM", "BM", "2232C", "R", "2232H", "4232H", "232H"}
HighSpeed == {"2232H", "4232H", "232H"}

ASSUME DeviceAssumption == /\ Chip \in [Devices -> Types \cup {"unknown"}]
                           /\ None \notin Devices \cup Handles
                           /\ 0 \in Interfaces /\ Interfaces \subseteq Nat

VARIABLES
    ftdi,     \* the fields of ftdi_context named in Fresh
    device,   \* per handle, the device it is open on, or None
    claim,    \* per handle, the interface claimed with it, or None
    ready,    \* the last call that opens returned 0, and nothing was closed since
    initFor,  \* the device ftdi_eeprom_initdefaults was last called for
    careful   \* whether the client is

vars == <<ftdi, device, claim, ready, initFor, careful>>

\* What ftdi_init leaves; the device list, timeouts and the rest are the same
\* for every device.
Fresh == [usb_dev |-> None, interface |-> 0, type |-> "BM", max_packet_size |-> 0,
          leftover |-> None, initialized |-> FALSE]

Init == /\ ftdi = Fresh
        /\ device = [h \in Handles |-> None]
        /\ claim = [h \in Handles |-> None]
        /\ ready = FALSE
        /\ initFor = None
        /\ careful \in BOOLEAN

-----------------------------------------------------------------------------
(* The calls are composed of steps that turn one state of the context and  *)
(* of libusb into another.                                                 *)

State == [ftdi |-> ftdi, device |-> device, claim |-> claim, ready |-> ready]

Becomes(s) == /\ ftdi' = s.ftdi
              /\ device' = s.device
              /\ claim' = s.claim
              /\ ready' = s.ready
              /\ UNCHANGED <<initFor, careful>>

Failed(s)    == [s EXCEPT !.ready = FALSE]
Succeeded(s) == [s EXCEPT !.ready = TRUE]

\* libusb_open
Opened(s, h, d) == [s EXCEPT !.ftdi.usb_dev = h, !.device[h] = d]

\* Mutant: the mark survives.
Closed_KeepsMark(s) ==
    LET h == s.ftdi.usb_dev
    IN  IF h = None THEN s
        ELSE [s EXCEPT !.ftdi.usb_dev = None, !.device[h] = None, !.claim[h] = None]

\* Mutant: the handle is forgotten, not closed.
Closed_ForgetsHandle(s) == [s EXCEPT !.ftdi.usb_dev = None, !.ftdi.initialized = FALSE]

\* ftdi_usb_close_internal
Closed(s) ==
    LET h == s.ftdi.usb_dev
    IN  IF h = None THEN s
        ELSE [s EXCEPT !.ftdi.usb_dev = None, !.ftdi.initialized = FALSE,
                       !.device[h] = None, !.claim[h] = None]

\* libusb_claim_interface, after an attempt to detach the driver that has the
\* interface, which, when it succeeds, also takes another handle's claim away.
Rivals(s) == {h \in Handles : /\ h # s.ftdi.usb_dev
                              /\ s.device[h] = s.device[s.ftdi.usb_dev]
                              /\ s.claim[h] = s.ftdi.interface}

Claimed(s) == [s EXCEPT !.claim = [h \in Handles |->
                 IF h = s.ftdi.usb_dev THEN s.ftdi.interface
                 ELSE IF h \in Rivals(s) THEN None ELSE s.claim[h]]]

\* Mutant: the readbuffer is not emptied.
Reset_KeepsBuffer(s) == s

\* ftdi_usb_reset, when the chip accepts the request.
Reset(s) == [s EXCEPT !.ftdi.leftover = None]

\* The endpoint's descriptor says 64 (full speed, or behind a slow hub) or 512;
\* without a descriptor the type decides.
PacketSizes(type) == {64, 512} \cup (IF type \in HighSpeed THEN {512} ELSE {64})

\* Mutant: so does none.
Recognised_Always(s, d) == [s EXCEPT !.ftdi.type = Chip[d]]

\* A chip that is not recognised keeps the type the context had.
Recognised(s, d) == [s EXCEPT !.ftdi.type = IF Chip[d] = "unknown" THEN @ ELSE Chip[d]]

Prepared(s, d) == LET r == Recognised(s, d)
                  IN  {[r EXCEPT !.ftdi.max_packet_size = p] : p \in PacketSizes(r.ftdi.type)}

\* ftdi_usb_open_dev: libusb_open fails; a descriptor or the configuration
\* cannot be read (and the handle stays open); the configuration or the claim
\* fails; the reset fails; the baud rate fails; or all is fine.
OpenDevResults(s, h, d) ==
    LET opened   == Opened(s, h, d)
        prepared == Prepared(Reset(Claimed(opened)), d)
    IN  {Failed(s), Failed(opened), Failed(Closed(opened)), Failed(Closed(Claimed(opened)))}
          \cup {Failed(Closed(p)) : p \in prepared}
          \cup {Succeeded(p) : p \in prepared}

\* The search of ftdi_usb_open_desc_index: a device that matches the vendor is
\* opened and closed again to read its strings.
Probed(s, h, d) == Failed(Closed(Opened(s, h, d)))

-----------------------------------------------------------------------------
(* The calls.                                                              *)

MayOpen == careful => ftdi.usb_dev = None
Free    == {h \in Handles : device[h] = None}

\* ftdi_usb_open_dev, and ftdi_usb_open_string with a bus address.
OpenDev(d) == /\ MayOpen
              /\ \E h \in Free : \E s \in OpenDevResults(State, h, d) : Becomes(s)

\* ftdi_usb_open, _open_desc, _open_desc_index and the other open_strings: the
\* search ends on the way (not found, or an error), or with the device.
OpenDesc(d) == /\ MayOpen
               /\ \E h \in Free :
                    \/ Becomes(Failed(State))
                    \/ \E e \in Devices : Becomes(Probed(State, h, e))
                    \/ \E s \in OpenDevResults(Probed(State, h, d), h, d) : Becomes(s)

\* ftdi_usb_get_strings: libusb_open fails; the descriptor cannot be read (and
\* the handle stays open); or the strings are read, or not, and all is closed.
GetStrings(d) == /\ MayOpen
                 /\ \E h \in Free :
                      \/ UNCHANGED vars
                      \/ Becomes(Failed(Opened(State, h, d)))
                      \/ Becomes(Failed(Closed(Opened(State, h, d))))

\* ftdi_set_usbdev with a handle the client has opened and claimed nothing with.
SetUsbdev(d) == /\ MayOpen
                /\ \E h \in Free : Becomes(Failed(Opened(State, h, d)))

\* Mutant: the interface may change on an open device.
MaySetInterface_Always(i) == TRUE

MaySetInterface(i) == ftdi.usb_dev # None => i = ftdi.interface

\* INTERFACE_ANY is interface 0.
SetInterface(i) == /\ MaySetInterface(i)
                   /\ ftdi' = [ftdi EXCEPT !.interface = i]
                   /\ UNCHANGED <<device, claim, ready, initFor, careful>>

Close == Becomes(Failed(Closed(State)))

\* ftdi_deinit or ftdi_free, then a new context in its place.
Reinit == /\ LET closed == Closed(State)
             IN  Becomes(Failed([closed EXCEPT !.ftdi = Fresh]))

\* ftdi_eeprom_initdefaults; the structure is cleared before anything is checked.
InitDefaults ==
    /\ ftdi' = [ftdi EXCEPT !.initialized = ftdi.usb_dev # None]
    /\ initFor' = IF ftdi.usb_dev # None THEN device[ftdi.usb_dev] ELSE None
    /\ UNCHANGED <<device, claim, ready, careful>>

\* A read leaves bytes of this device behind or none, as do reset and purge.
Read == /\ ftdi.usb_dev # None
        /\ \E d \in {None, device[ftdi.usb_dev]} : ftdi' = [ftdi EXCEPT !.leftover = d]
        /\ UNCHANGED <<device, claim, ready, initFor, careful>>

Next == \/ \E d \in Devices : OpenDev(d) \/ OpenDesc(d) \/ GetStrings(d) \/ SetUsbdev(d)
        \/ \E i \in Interfaces : SetInterface(i)
        \/ Close \/ Reinit \/ InitDefaults \/ Read

Spec == Init /\ [][Next]_vars

-----------------------------------------------------------------------------
\* Type invariant: the ftdi_context, libusb's handles and claims.
TypeOK == /\ ftdi \in [usb_dev : Handles \cup {None}, interface : Interfaces, type : Types,
                       max_packet_size : {0, 64, 512}, leftover : Devices \cup {None},
                       initialized : BOOLEAN]
          /\ device \in [Handles -> Devices \cup {None}]
          /\ claim \in [Handles -> Interfaces \cup {None}]
          /\ ready \in BOOLEAN
          /\ initFor \in Devices \cup {None}
          /\ careful \in BOOLEAN

\* With a careful client no handle is ever lost: whatever fails at whichever
\* point, each open handle is the context's.
NoHandleLost == careful => \A h \in Handles : device[h] # None => h = ftdi.usb_dev

\* After an open that returned 0 the interface the endpoints and wIndex belong
\* to is claimed with the context's handle, and the packet size is one the
\* readers can work with (ReadPath and StreamRead assume more than two).
ReadyToTransfer == ready => /\ ftdi.usb_dev # None
                            /\ claim[ftdi.usb_dev] = ftdi.interface
                            /\ ftdi.max_packet_size > 2

\* What is left in the readbuffer after an open that returned 0 came from the
\* device that is open, never from the one before.
LeftoverOfThisDevice == ready => ftdi.leftover \in {None, device[ftdi.usb_dev]}

MarkedForConnected ==
    ftdi.initialized => ftdi.usb_dev # None /\ initFor = device[ftdi.usb_dev]

\* With a careful client the mark ftdi_write_eeprom relies on says that the
\* EEPROM structure was initialised for the device that is connected now, however
\* many devices were opened, closed and only looked at in between.
MarkKept == careful => MarkedForConnected
=============================================================================
