------------------------------ MODULE Wrapper ------------------------------
(***************************************************************************)
(* The C++ class Ftdi::Context on top of the library: the flag is_open()   *)
(* answers from, the device it remembers, the strings it has read, and the *)
(* calls of the library, as module Device has them, that each of its       *)
(* operations makes.  An open reads the strings in between, in three calls *)
(* of the library, and each may fail.                                      *)
(*                                                                         *)
(* A client may be tidy: it calls close() between two opens, failed ones   *)
(* too, and opens a context from a list with open().  The class does not   *)
(* ask for it, and is itself not a careful client of the library.          *)
(***************************************************************************)
EXTENDS Device

VARIABLES
    open, dev,     \* of Context::Private
    strings,       \* the device that vendor, description and serial are of
    at,            \* how far an open has got
    asked,         \* the device the client wants, since it last closed
    tidy           \* whether the client is

wrapper   == <<open, dev, strings, asked>>
classVars == <<vars, wrapper, at, tidy>>

\* "get_strings" and "reattach" are inside get_strings_and_reopen, "listing" inside the
\* constructor of a List.
Outside == at = "outside"

ClassInit == /\ Init /\ ~careful
             /\ open = FALSE /\ dev = None /\ strings = None /\ asked = None
             /\ at = "outside"
             /\ tidy \in BOOLEAN

-----------------------------------------------------------------------------
(* Opening.                                                                *)

\* Bound: the handles last for the call.
Room == \E g, h \in Free : g # h

\* ftdi_usb_open, _desc_index or _string, for device d; when it fails its error is
\* returned and nothing else happens.
OpenSearch(d) ==
    /\ Outside /\ Room
    /\ tidy => asked = None
    /\ OpenDesc(d)
    /\ asked' = d
    /\ at' = IF ready' THEN "get_strings" ELSE "outside"
    /\ UNCHANGED <<open, dev, strings, tidy>>

\* open(dev), from which get_strings_and_reopen follows at once.
OpenDevice(d) ==
    /\ Outside /\ Room
    /\ tidy => asked = None
    /\ dev' = d /\ asked' = d
    /\ at' = "get_strings"
    /\ UNCHANGED <<vars, open, strings, tidy>>

\* open() without a device: the one the context has, or an error.
OpenKnown ==
    /\ Outside /\ Room
    /\ tidy => ~open
    /\ at' = IF dev = None THEN "outside" ELSE "get_strings"
    /\ UNCHANGED <<vars, wrapper, tidy>>

Target == IF dev = None THEN device[ftdi.usb_dev] ELSE dev

\* get_strings succeeds.
StringsRead ==
    /\ at \in {"get_strings", "listing"}
    /\ dev' = Target /\ strings' = Target
    /\ \E h \in Free :
          LET opened == Opened(State, h, Target)
          IN  Becomes(Failed(Closed(opened)))
    /\ at' = IF at = "get_strings" THEN "reattach" ELSE "outside"
    /\ UNCHANGED <<open, asked, tidy>>

\* It fails, in any of the ways of ftdi_usb_get_strings.
StringsFail ==
    /\ at \in {"get_strings", "listing"}
    /\ dev' = Target
    /\ GetStrings(Target)
    /\ open' = FALSE
    /\ at' = "outside"
    /\ UNCHANGED <<strings, asked, tidy>>

Reattach ==
    /\ at = "reattach"
    /\ OpenDev(dev)
    /\ open' = ready'
    /\ at' = "outside"
    /\ UNCHANGED <<dev, strings, asked, tidy>>

-----------------------------------------------------------------------------
(* The other operations.                                                   *)

\* Mutant: the device is remembered.
Forgotten_Not == dev

Forgotten == None

ClassClose == /\ Outside
              /\ Close
              /\ open' = FALSE /\ dev' = Forgotten /\ asked' = None
              /\ UNCHANGED <<strings, at, tidy>>

\* set_usb_device with a handle the client has opened: is_open() stays as it was.
SetUsbDevice(d) == /\ Outside
                   /\ tidy => asked = None
                   /\ SetUsbdev(d)
                   /\ dev' = d /\ asked' = d
                   /\ UNCHANGED <<open, strings, at, tidy>>

\* The context is destroyed and another takes its place: a new one, or one that a List
\* has made for the device d it has found, whose strings it then reads.
NewContext == /\ Outside
              /\ Reinit
              /\ open' = FALSE /\ dev' = None /\ strings' = None /\ asked' = None
              /\ UNCHANGED <<at, tidy>>

NewListed(d) == /\ Outside /\ Room
                /\ Reinit
                /\ open' = FALSE /\ strings' = None
                /\ dev' = d /\ asked' = d
                /\ at' = "listing"
                /\ UNCHANGED tidy

\* set_interface, read and the Eeprom class's init_defaults only pass the call on.
\* flush() never purges the readbuffer: its flag Input is 0.
PassOn == /\ Outside
          /\ \/ \E i \in Interfaces : SetInterface(i)
             \/ Read
             \/ InitDefaults
          /\ UNCHANGED <<wrapper, at, tidy>>

ClassNext ==
    \/ \E d \in Devices : OpenSearch(d) \/ OpenDevice(d) \/ SetUsbDevice(d) \/ NewListed(d)
    \/ OpenKnown \/ StringsRead \/ StringsFail \/ Reattach
    \/ ClassClose \/ NewContext \/ PassOn

ClassSpec == ClassInit /\ [][ClassNext]_classVars

-----------------------------------------------------------------------------
\* With a tidy client is_open() is true only while the library's context has a handle on
\* the device asked for, never on one that an earlier open, a list or a handle left in
\* the context; its interface is claimed; and vendor(), description() and serial() are
\* of that device: although an open gives the handle up and takes another, and each of
\* its three calls may fail with the handle open, closed or lost.
OpenAsAsked == tidy /\ open => /\ ready
                               /\ device[ftdi.usb_dev] = asked
                               /\ dev = asked /\ strings = asked
                               /\ claim[ftdi.usb_dev] = ftdi.interface
=============================================================================
