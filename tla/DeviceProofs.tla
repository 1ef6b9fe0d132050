---------------------------- MODULE DeviceProofs ----------------------------
(***************************************************************************)
(* Proofs about Device, and about the C++ class on top of it.  The steps a *)
(* call is composed of turn one state into another, and so do the lemmas:  *)
(* each says what a step keeps of a sound state; the calls then follow     *)
(* from their steps.  Whatever the class does it does by these calls, so   *)
(* that what is proved of Device holds below it; and is_open() tells a     *)
(* tidy client the truth.                                                  *)
(***************************************************************************)
EXTENDS Wrapper, TLAPS

Context == [usb_dev : Handles \cup {None}, interface : Interfaces, type : Types,
            max_packet_size : {0, 64, 512}, leftover : Devices \cup {None},
            initialized : BOOLEAN]

States == [ftdi : Context, device : [Handles -> Devices \cup {None}],
           claim : [Handles -> Interfaces \cup {None}], ready : BOOLEAN]

\* The context's handle is open.
Linked(s) == s.ftdi.usb_dev # None => s.device[s.ftdi.usb_dev] \in Devices

\* No other one is, if the client c is careful.
OnlyOne(s, c) == c => \A h \in Handles : s.device[h] # None => h = s.ftdi.usb_dev

\* What the client may rely on after a successful open.
Usable(s) == /\ s.ftdi.usb_dev # None
             /\ s.claim[s.ftdi.usb_dev] = s.ftdi.interface
             /\ s.ftdi.max_packet_size > 2
             /\ s.ftdi.leftover \in {None, s.device[s.ftdi.usb_dev]}

\* The mark is for device f, and that is the one that is open.
Marked(s, c, f) == c /\ s.ftdi.initialized =>
                     s.ftdi.usb_dev # None /\ f = s.device[s.ftdi.usb_dev]

\* What every state keeps, also in the middle of a call.
Basic(s, c, f) == s \in States /\ Linked(s) /\ OnlyOne(s, c) /\ Marked(s, c, f)

Sound(s, c, f) == Basic(s, c, f) /\ (s.ready => Usable(s))

Inv == /\ careful \in BOOLEAN
       /\ initFor \in Devices \cup {None}
       /\ Sound(State, careful, initFor)

-----------------------------------------------------------------------------
(* The steps.                                                              *)

\* A call that fails promises nothing, and leaves the rest as it was.
LEMMA FailedSound ==
  ASSUME NEW s, NEW c \in BOOLEAN, NEW f, Basic(s, c, f)
  PROVE  Sound(Failed(s), c, f)
BY DEF Basic, Sound, Failed, States, Linked, OnlyOne, Usable, Marked

\* Closing leaves no handle behind, and no mark.
LEMMA ClosedBasic ==
  ASSUME NEW s, NEW c \in BOOLEAN, NEW f, Basic(s, c, f)
  PROVE  Basic(Closed(s), c, f) /\ Closed(s).ftdi.usb_dev = None
<1>1. CASE s.ftdi.usb_dev = None
  BY <1>1 DEF Basic, Closed
<1>2. CASE s.ftdi.usb_dev # None
  <2> DEFINE h == s.ftdi.usb_dev
             t == Closed(s)
  <2>1. h \in Handles /\ h # None
    BY <1>2 DEF Basic, States, Context
  <2>2. /\ t = [ftdi |-> t.ftdi, device |-> t.device, claim |-> t.claim, ready |-> s.ready]
        /\ t.ftdi = [s.ftdi EXCEPT !.usb_dev = None, !.initialized = FALSE]
        /\ t.device = [s.device EXCEPT ![h] = None]
        /\ t.claim = [s.claim EXCEPT ![h] = None]
    BY <1>2 DEF Basic, Closed, States, Context
  <2> HIDE DEF t
  <2>3. t.ftdi \in Context /\ t.ftdi.usb_dev = None /\ ~t.ftdi.initialized
    <3>1. s.ftdi \in Context
      BY DEF Basic, States
    <3>2. t.ftdi = [usb_dev |-> None, interface |-> s.ftdi.interface, type |-> s.ftdi.type,
                    max_packet_size |-> s.ftdi.max_packet_size,
                    leftover |-> s.ftdi.leftover, initialized |-> FALSE]
      <4> DEFINE k == s.ftdi
      <4>1. k = [usb_dev |-> k.usb_dev, interface |-> k.interface, type |-> k.type,
                 max_packet_size |-> k.max_packet_size,
                 leftover |-> k.leftover, initialized |-> k.initialized]
        BY <3>1 DEF Context
      <4>2. t.ftdi = [[k EXCEPT !.usb_dev = None] EXCEPT !.initialized = FALSE]
        BY <2>2
      <4> HIDE DEF k
      <4>3. t.ftdi = [usb_dev |-> None, interface |-> k.interface, type |-> k.type,
                      max_packet_size |-> k.max_packet_size,
                      leftover |-> k.leftover, initialized |-> FALSE]
        BY <4>1, <4>2
      <4> QED BY <4>3 DEF k
    <3>3. /\ s.ftdi.interface \in Interfaces /\ s.ftdi.type \in Types
          /\ s.ftdi.max_packet_size \in {0, 64, 512}
          /\ s.ftdi.leftover \in Devices \cup {None}
      BY <3>1 DEF Context
    <3>4. t.ftdi \in Context
      BY <3>2, <3>3 DEF Context
    <3> QED BY <3>2, <3>4
  <2>4. /\ t.device \in [Handles -> Devices \cup {None}]
        /\ t.claim \in [Handles -> Interfaces \cup {None}]
    BY <2>1, <2>2 DEF Basic, States
  <2>5. t \in States
    BY <2>2, <2>3, <2>4 DEF Basic, States
  <2>6. c => \A k \in Handles : t.device[k] = None
    BY <2>1, <2>2 DEF Basic, States, OnlyOne
  <2>7. Basic(t, c, f)
    BY <2>3, <2>5, <2>6 DEF Basic, Linked, OnlyOne, Marked
  <2> QED BY <2>3, <2>7 DEF t
<1> QED BY <1>1, <1>2

\* A handle that is free is opened; a careful client's context had none.
LEMMA OpenedBasic ==
  ASSUME NEW s, NEW c \in BOOLEAN, NEW f, Basic(s, c, f),
         c => s.ftdi.usb_dev = None,
         NEW h \in Handles, NEW d \in Devices
  PROVE  /\ Basic(Opened(s, h, d), c, f)
         /\ Opened(s, h, d).ftdi.usb_dev = h
         /\ Opened(s, h, d).device[h] = d
<1> DEFINE t == Opened(s, h, d)
<1>0. h # None /\ d # None
  BY DeviceAssumption
<1>1. /\ t = [ftdi |-> t.ftdi, device |-> t.device, claim |-> s.claim, ready |-> s.ready]
      /\ t.ftdi = [s.ftdi EXCEPT !.usb_dev = h]
      /\ t.device = [s.device EXCEPT ![h] = d]
  <2>1. s = [ftdi |-> s.ftdi, device |-> s.device, claim |-> s.claim, ready |-> s.ready]
    BY DEF Basic, States
  <2>2. t = [s EXCEPT !.ftdi = [s.ftdi EXCEPT !.usb_dev = h], !.device = [s.device EXCEPT ![h] = d]]
    BY DEF Opened
  <2> HIDE DEF t
  <2> QED BY <2>1, <2>2
<1> HIDE DEF t
<1>2. t.ftdi \in Context /\ t.ftdi.usb_dev = h /\ t.ftdi.initialized = s.ftdi.initialized
  BY <1>1 DEF Basic, States, Context
<1>3. t.device \in [Handles -> Devices \cup {None}] /\ t.device[h] = d
  BY <1>1 DEF Basic, States
<1>4. t \in States
  BY <1>1, <1>2, <1>3 DEF Basic, States
<1>5. c => \A k \in Handles : t.device[k] # None => k = h
  BY <1>1, DeviceAssumption DEF Basic, States, OnlyOne
<1>6. c => ~s.ftdi.initialized
  BY DEF Basic, Marked
<1>7. Basic(t, c, f)
  BY <1>0, <1>2, <1>3, <1>4, <1>5, <1>6 DEF Basic, Linked, OnlyOne, Marked
<1> QED BY <1>2, <1>3, <1>7 DEF t

\* Claiming changes the claims only, and the context's handle gets its interface.
LEMMA ClaimedBasic ==
  ASSUME NEW s, NEW c \in BOOLEAN, NEW f, Basic(s, c, f), s.ftdi.usb_dev \in Handles
  PROVE  /\ Basic(Claimed(s), c, f)
         /\ Claimed(s).ftdi = s.ftdi
         /\ Claimed(s).device = s.device
         /\ Claimed(s).claim[s.ftdi.usb_dev] = s.ftdi.interface
<1> DEFINE t == Claimed(s)
<1>1. t = [ftdi |-> s.ftdi, device |-> s.device, claim |-> t.claim, ready |-> s.ready]
  BY DEF Basic, Claimed, States
<1>2. t.claim = [k \in Handles |-> IF k = s.ftdi.usb_dev THEN s.ftdi.interface
                                   ELSE IF k \in Rivals(s) THEN None ELSE s.claim[k]]
  BY DEF Basic, Claimed, States
<1>3. t.claim \in [Handles -> Interfaces \cup {None}]
  BY <1>2 DEF Basic, States, Context
<1>4. t \in States
  BY <1>1, <1>3 DEF Basic, States
<1>5. t.claim[s.ftdi.usb_dev] = s.ftdi.interface
  BY <1>2
<1> QED BY <1>1, <1>4, <1>5 DEF Basic, Linked, OnlyOne, Marked

\* A reset empties the readbuffer and touches nothing else.
LEMMA ResetBasic ==
  ASSUME NEW s, NEW c \in BOOLEAN, NEW f, Basic(s, c, f)
  PROVE  /\ Basic(Reset(s), c, f)
         /\ Reset(s).device = s.device /\ Reset(s).claim = s.claim
         /\ Reset(s).ftdi = [s.ftdi EXCEPT !.leftover = None]
BY DEF Basic, Reset, States, Context, Linked, OnlyOne, Marked

\* The last steps of a successful open: chip type and packet size.
LEMMA PreparedBasic ==
  ASSUME NEW s, NEW c \in BOOLEAN, NEW f, Basic(s, c, f), NEW d \in Devices,
         NEW t \in Prepared(s, d)
  PROVE  /\ Basic(t, c, f)
         /\ t.device = s.device /\ t.claim = s.claim
         /\ t.ftdi.usb_dev = s.ftdi.usb_dev
         /\ t.ftdi.interface = s.ftdi.interface
         /\ t.ftdi.leftover = s.ftdi.leftover
         /\ t.ftdi.max_packet_size > 2
<1> DEFINE r == Recognised(s, d)
<1>1. /\ r \in States
      /\ r = [s EXCEPT !.ftdi.type = r.ftdi.type]
  BY DeviceAssumption DEF Basic, Recognised, States, Context
<1>2. PICK p \in PacketSizes(r.ftdi.type) : t = [r EXCEPT !.ftdi.max_packet_size = p]
  BY DEF Prepared
<1>3. p \in {64, 512}
  BY DEF PacketSizes
<1>4. /\ t \in States
      /\ t.device = s.device /\ t.claim = s.claim
      /\ t.ftdi.usb_dev = s.ftdi.usb_dev
      /\ t.ftdi.interface = s.ftdi.interface
      /\ t.ftdi.leftover = s.ftdi.leftover
      /\ t.ftdi.initialized = s.ftdi.initialized
      /\ t.ftdi.max_packet_size = p
  BY <1>1, <1>2, <1>3 DEF Basic, States, Context
<1> QED BY <1>3, <1>4 DEF Basic, Linked, OnlyOne, Marked

\* A call may return 0 once the context can be used.
LEMMA SucceededSound ==
  ASSUME NEW s, NEW c \in BOOLEAN, NEW f, Basic(s, c, f), Usable(s)
  PROVE  Sound(Succeeded(s), c, f)
BY DEF Basic, Sound, Succeeded, States, Linked, OnlyOne, Usable, Marked

-----------------------------------------------------------------------------
(* The calls.                                                              *)

\* However far ftdi_usb_open_dev gets, what it leaves is sound, and when it returns 0
\* the handle is on the device it was called for.
LEMMA OpenDevSound ==
  ASSUME NEW s, NEW c \in BOOLEAN, NEW f, Basic(s, c, f),
         c => s.ftdi.usb_dev = None,
         NEW h \in Handles, NEW d \in Devices, NEW t \in OpenDevResults(s, h, d)
  PROVE  Sound(t, c, f) /\ (t.ready => t.device[t.ftdi.usb_dev] = d)
<1> DEFINE opened == Opened(s, h, d)
           claimed == Claimed(opened)
           emptied == Reset(claimed)
<1>1. Basic(opened, c, f) /\ opened.ftdi.usb_dev = h /\ opened.device[h] = d
  BY OpenedBasic
<1>2. /\ Basic(claimed, c, f) /\ claimed.ftdi = opened.ftdi
      /\ claimed.device = opened.device
      /\ claimed.claim[h] = opened.ftdi.interface
  <2> HIDE DEF opened
  <2> QED BY <1>1, ClaimedBasic
<1>3. /\ Basic(emptied, c, f) /\ emptied.device = claimed.device
      /\ emptied.claim = claimed.claim
      /\ emptied.ftdi = [claimed.ftdi EXCEPT !.leftover = None]
  <2> HIDE DEF claimed
  <2> QED BY <1>2, ResetBasic
<1> HIDE DEF opened, claimed, emptied
<1>4. /\ emptied.ftdi.usb_dev = h
      /\ emptied.claim[h] = emptied.ftdi.interface
      /\ emptied.ftdi.leftover = None
  BY <1>1, <1>2, <1>3 DEF Basic, States, Context
<1>5. \A p \in Prepared(emptied, d) : Basic(p, c, f) /\ Usable(p) /\ p.device[p.ftdi.usb_dev] = d
  <2> TAKE p \in Prepared(emptied, d)
  <2>1. /\ Basic(p, c, f)
        /\ p.device = emptied.device /\ p.claim = emptied.claim
        /\ p.ftdi.usb_dev = emptied.ftdi.usb_dev
        /\ p.ftdi.interface = emptied.ftdi.interface
        /\ p.ftdi.leftover = emptied.ftdi.leftover
        /\ p.ftdi.max_packet_size > 2
    BY <1>3, PreparedBasic
  <2>2. h # None
    BY DeviceAssumption
  <2> QED BY <2>1, <2>2, <1>1, <1>2, <1>3, <1>4 DEF Usable
<1>6. \/ t = Failed(s) \/ t = Failed(opened)
      \/ t = Failed(Closed(opened)) \/ t = Failed(Closed(claimed))
      \/ \E p \in Prepared(emptied, d) : t = Failed(Closed(p)) \/ t = Succeeded(p)
  BY DEF OpenDevResults, opened, claimed, emptied
<1>7. \A q : Basic(q, c, f) => /\ Sound(Failed(q), c, f) /\ ~Failed(q).ready
                              /\ Sound(Failed(Closed(q)), c, f) /\ ~Failed(Closed(q)).ready
  <2>1. \A q : Basic(q, c, f) => Basic(Closed(q), c, f)
    BY ClosedBasic
  <2>2. \A q : Basic(q, c, f) => ~Failed(q).ready
    BY DEF Failed, Basic, States
  <2> QED BY <2>1, <2>2, FailedSound
<1>8. CASE t \in {Failed(s), Failed(opened), Failed(Closed(opened)), Failed(Closed(claimed))}
  BY <1>1, <1>2, <1>7, <1>8
<1>9. CASE \E p \in Prepared(emptied, d) : t = Failed(Closed(p)) \/ t = Succeeded(p)
  <2>1. \A p : Basic(p, c, f) => Succeeded(p).device = p.device /\ Succeeded(p).ftdi = p.ftdi
    BY DEF Succeeded, Basic, States
  <2> QED BY <1>5, <1>7, <1>9, <2>1, SucceededSound
<1> QED BY <1>6, <1>8, <1>9

\* Looking at a device leaves no handle.
LEMMA ProbedSound ==
  ASSUME NEW s, NEW c \in BOOLEAN, NEW f, Basic(s, c, f),
         c => s.ftdi.usb_dev = None,
         NEW h \in Handles, NEW d \in Devices
  PROVE  Sound(Probed(s, h, d), c, f) /\ Probed(s, h, d).ftdi.usb_dev = None
<1> DEFINE q == Closed(Opened(s, h, d))
<1>1. Basic(q, c, f) /\ q.ftdi.usb_dev = None
  BY OpenedBasic, ClosedBasic
<1>2. Probed(s, h, d) = Failed(q)
  BY DEF Probed
<1> HIDE DEF q
<1>3. Failed(q).ftdi = q.ftdi
  BY <1>1 DEF Failed, Basic, States
<1> QED BY <1>1, <1>2, <1>3, FailedSound

\* A call that ends in a sound state keeps the invariant.
LEMMA BecomesInv ==
  ASSUME Inv, NEW s, Sound(s, careful, initFor), Becomes(s)
  PROVE  Inv'
<1>1. s = [ftdi |-> s.ftdi, device |-> s.device, claim |-> s.claim, ready |-> s.ready]
  BY DEF Sound, Basic, States
<1>2. State' = s
  BY <1>1 DEF Becomes, State
<1>3. careful' = careful /\ initFor' = initFor
  BY DEF Becomes
<1>4. Sound(State, careful, initFor)' <=> Sound(State', careful', initFor')
  BY DEF Sound, Basic, Linked, OnlyOne, Marked, Usable, States, State, Context
<1> QED BY <1>2, <1>3, <1>4 DEF Inv

\* So does a step that changes nothing.
LEMMA StutterInv ==
  ASSUME Inv, UNCHANGED vars
  PROVE  Inv'
BY DEF Inv, vars, Sound, Basic, Linked, OnlyOne, Marked, Usable, States, State, Context

-----------------------------------------------------------------------------
(* The invariant.                                                          *)

\* A new context is sound: no handle, no mark, nothing promised.
LEMMA InvInit == Init => Inv
<1> SUFFICES ASSUME Init PROVE Inv
  OBVIOUS
<1>1. Fresh \in Context
  BY DeviceAssumption DEF Fresh, Context, Types
<1>2. State \in States
  BY <1>1 DEF Init, State, States
<1>3. State.ftdi.usb_dev = None /\ ~State.ftdi.initialized /\ ~State.ready
  BY DEF Init, State, Fresh
<1>4. \A h \in Handles : State.device[h] = None
  BY DEF Init, State
<1>5. careful \in BOOLEAN /\ initFor \in Devices \cup {None}
  BY DEF Init
<1> HIDE DEF State
<1> QED BY <1>2, <1>3, <1>4, <1>5 DEF Inv, Sound, Basic, Linked, OnlyOne, Marked

\* ftdi_usb_open_dev: each of its results is sound.
LEMMA OpenDevInv ==
  ASSUME Inv, NEW d \in Devices, OpenDev(d)
  PROVE  Inv'
<1>0. PICK h \in Free : \E s \in OpenDevResults(State, h, d) : Becomes(s)
  BY DEF OpenDev
<1>1. PICK s \in OpenDevResults(State, h, d) : Becomes(s)
  BY <1>0
<1>2. careful => State.ftdi.usb_dev = None
  BY DEF OpenDev, MayOpen, State
<1>3. Basic(State, careful, initFor) /\ careful \in BOOLEAN /\ h \in Handles
  BY DEF Inv, Sound, Free
<1> HIDE DEF State
<1>4. Sound(s, careful, initFor)
  BY <1>1, <1>2, <1>3, OpenDevSound
<1> QED BY <1>1, <1>4, BecomesInv

\* ftdi_usb_open_desc_index: whether the search fails, is left, or ends in an open.
LEMMA OpenDescInv ==
  ASSUME Inv, NEW d \in Devices, OpenDesc(d)
  PROVE  Inv'
<1>1. PICK h \in Free : \/ Becomes(Failed(State))
                        \/ \E e \in Devices : Becomes(Probed(State, h, e))
                        \/ \E s \in OpenDevResults(Probed(State, h, d), h, d) : Becomes(s)
  BY DEF OpenDesc
<1>2. careful => State.ftdi.usb_dev = None
  BY DEF OpenDesc, MayOpen, State
<1>3. Basic(State, careful, initFor) /\ careful \in BOOLEAN /\ h \in Handles
  BY DEF Inv, Sound, Free
<1>4. CASE Becomes(Failed(State))
  BY <1>3, <1>4, FailedSound, BecomesInv
<1>5. CASE \E e \in Devices : Becomes(Probed(State, h, e))
  BY <1>2, <1>3, <1>5, ProbedSound, BecomesInv
<1>6. CASE \E s \in OpenDevResults(Probed(State, h, d), h, d) : Becomes(s)
  <2>1. PICK s \in OpenDevResults(Probed(State, h, d), h, d) : Becomes(s)
    BY <1>6
  <2> DEFINE q == Probed(State, h, d)
  <2>2. Basic(q, careful, initFor) /\ q.ftdi.usb_dev = None
    BY <1>2, <1>3, ProbedSound DEF Sound
  <2> HIDE DEF q
  <2>3. s \in OpenDevResults(q, h, d)
    BY <2>1 DEF q
  <2>4. Sound(s, careful, initFor)
    BY <1>3, <2>2, <2>3, OpenDevSound
  <2> QED BY <2>1, <2>4, BecomesInv
<1> QED BY <1>1, <1>4, <1>5, <1>6

\* ftdi_usb_get_strings: also when it leaves the handle open.
LEMMA GetStringsInv ==
  ASSUME Inv, NEW d \in Devices, GetStrings(d)
  PROVE  Inv'
<1>1. PICK h \in Free : \/ UNCHANGED vars
                        \/ Becomes(Failed(Opened(State, h, d)))
                        \/ Becomes(Failed(Closed(Opened(State, h, d))))
  BY DEF GetStrings
<1>2. careful => State.ftdi.usb_dev = None
  BY DEF GetStrings, MayOpen, State
<1>3. Basic(State, careful, initFor) /\ careful \in BOOLEAN /\ h \in Handles
  BY DEF Inv, Sound, Free
<1>4. CASE UNCHANGED vars
  BY <1>4, StutterInv
<1> DEFINE q == Opened(State, h, d)
<1>5. Basic(q, careful, initFor)
  BY <1>2, <1>3, OpenedBasic
<1> HIDE DEF q
<1>6. Sound(Failed(q), careful, initFor) /\ Sound(Failed(Closed(q)), careful, initFor)
  BY <1>3, <1>5, FailedSound, ClosedBasic
<1> QED BY <1>1, <1>4, <1>6, BecomesInv DEF q

\* ftdi_set_usbdev: the handle is linked but nothing is promised.
LEMMA SetUsbdevInv ==
  ASSUME Inv, NEW d \in Devices, SetUsbdev(d)
  PROVE  Inv'
<1>1. PICK h \in Free : Becomes(Failed(Opened(State, h, d)))
  BY DEF SetUsbdev
<1>2. careful => State.ftdi.usb_dev = None
  BY DEF SetUsbdev, MayOpen, State
<1>3. Basic(State, careful, initFor) /\ careful \in BOOLEAN /\ h \in Handles
  BY DEF Inv, Sound, Free
<1>4. Sound(Failed(Opened(State, h, d)), careful, initFor)
  BY <1>2, <1>3, OpenedBasic, FailedSound
<1> QED BY <1>1, <1>4, BecomesInv

\* ftdi_set_interface: refused on an open device, so what is claimed stays right.
LEMMA SetInterfaceInv ==
  ASSUME Inv, NEW i \in Interfaces, SetInterface(i)
  PROVE  Inv'
<1>1. ftdi' = [ftdi EXCEPT !.interface = i] /\ (ftdi.usb_dev # None => i = ftdi.interface)
  BY DEF SetInterface, MaySetInterface
<1>2. UNCHANGED <<device, claim, ready, initFor, careful>>
  BY DEF SetInterface
<1>3. ftdi \in Context
  BY DEF Inv, Sound, Basic, States, State
<1>4. /\ ftdi' \in Context /\ ftdi'.usb_dev = ftdi.usb_dev /\ ftdi'.interface = i
      /\ ftdi'.max_packet_size = ftdi.max_packet_size /\ ftdi'.leftover = ftdi.leftover
      /\ ftdi'.initialized = ftdi.initialized
  BY <1>1, <1>3 DEF Context
<1> QED BY <1>1, <1>2, <1>4
        DEF Inv, Sound, Basic, States, State, Linked, OnlyOne, Marked, Usable

\* ftdi_eeprom_initdefaults: the mark is for the device that is open.
LEMMA InitDefaultsInv ==
  ASSUME Inv, InitDefaults
  PROVE  Inv'
<1>1. /\ ftdi' = [ftdi EXCEPT !.initialized = ftdi.usb_dev # None]
      /\ initFor' = IF ftdi.usb_dev # None THEN device[ftdi.usb_dev] ELSE None
      /\ UNCHANGED <<device, claim, ready, careful>>
  BY DEF InitDefaults
<1>2. ftdi \in Context
  BY DEF Inv, Sound, Basic, States, State
<1>3. /\ ftdi' \in Context /\ ftdi'.usb_dev = ftdi.usb_dev
      /\ ftdi'.interface = ftdi.interface
      /\ ftdi'.max_packet_size = ftdi.max_packet_size /\ ftdi'.leftover = ftdi.leftover
      /\ ftdi'.initialized = (ftdi.usb_dev # None)
  <2> DEFINE b == ftdi.usb_dev # None
  <2>1. b \in BOOLEAN /\ ftdi' = [ftdi EXCEPT !.initialized = b]
    BY <1>1
  <2> HIDE DEF b
  <2>2. /\ ftdi' \in Context /\ ftdi'.usb_dev = ftdi.usb_dev
        /\ ftdi'.interface = ftdi.interface
        /\ ftdi'.max_packet_size = ftdi.max_packet_size /\ ftdi'.leftover = ftdi.leftover
        /\ ftdi'.initialized = b
    BY <2>1, <1>2 DEF Context
  <2> QED BY <2>2 DEF b
<1>4. ftdi.usb_dev # None => device[ftdi.usb_dev] \in Devices
  BY DEF Inv, Sound, Basic, Linked, State
<1> QED BY <1>1, <1>3, <1>4
        DEF Inv, Sound, Basic, States, State, Linked, OnlyOne, Marked, Usable

\* A read or purge: what is left is the open device's.
LEMMA ReadInv ==
  ASSUME Inv, Read
  PROVE  Inv'
<1>1. PICK d \in {None, device[ftdi.usb_dev]} : ftdi' = [ftdi EXCEPT !.leftover = d]
  BY DEF Read
<1>2. ftdi.usb_dev # None /\ UNCHANGED <<device, claim, ready, initFor, careful>>
  BY DEF Read
<1>3. ftdi \in Context
  BY DEF Inv, Sound, Basic, States, State
<1>4. device[ftdi.usb_dev] \in Devices
  BY <1>2 DEF Inv, Sound, Basic, Linked, State
<1>5. /\ ftdi' \in Context /\ ftdi'.usb_dev = ftdi.usb_dev
      /\ ftdi'.interface = ftdi.interface
      /\ ftdi'.max_packet_size = ftdi.max_packet_size
      /\ ftdi'.leftover \in {None, device[ftdi.usb_dev]}
      /\ ftdi'.initialized = ftdi.initialized
  BY <1>1, <1>3, <1>4 DEF Context
<1> QED BY <1>2, <1>5
        DEF Inv, Sound, Basic, States, State, Linked, OnlyOne, Marked, Usable

\* ftdi_usb_close.
LEMMA CloseInv ==
  ASSUME Inv, Close
  PROVE  Inv'
<1>1. Basic(State, careful, initFor) /\ careful \in BOOLEAN
  BY DEF Inv, Sound
<1>2. Sound(Failed(Closed(State)), careful, initFor)
  BY <1>1, ClosedBasic, FailedSound
<1> QED BY <1>2, BecomesInv DEF Close

\* ftdi_deinit and a new context: the handle is closed before it is forgotten.
LEMMA ReinitInv ==
  ASSUME Inv, Reinit
  PROVE  Inv'
<1> DEFINE q == Closed(State)
           s == [q EXCEPT !.ftdi = Fresh]
<1>1. careful \in BOOLEAN /\ Basic(q, careful, initFor) /\ q.ftdi.usb_dev = None
  BY ClosedBasic DEF Inv, Sound
<1>2. Becomes(Failed(s))
  BY DEF Reinit
<1> HIDE DEF q
<1>3. Fresh \in Context /\ Fresh.usb_dev = None /\ ~Fresh.initialized
  BY DeviceAssumption DEF Fresh, Context, Types
<1>4. s \in States /\ s.ftdi = Fresh /\ s.device = q.device
  BY <1>1, <1>3 DEF Basic, States
<1> HIDE DEF s
<1>5. Basic(s, careful, initFor)
  BY <1>1, <1>3, <1>4 DEF Basic, Linked, OnlyOne, Marked
<1> QED BY <1>1, <1>2, <1>5, FailedSound, BecomesInv

LEMMA InvNext ==
  ASSUME Inv, [Next]_vars
  PROVE  Inv'
<1>1. CASE \E d \in Devices : OpenDev(d) \/ OpenDesc(d) \/ GetStrings(d) \/ SetUsbdev(d)
  BY <1>1, OpenDevInv, OpenDescInv, GetStringsInv, SetUsbdevInv
<1>2. CASE \E i \in Interfaces : SetInterface(i)
  BY <1>2, SetInterfaceInv
<1>3. CASE Close \/ Reinit \/ InitDefaults \/ Read
  BY <1>3, CloseInv, ReinitInv, InitDefaultsInv, ReadInv
<1>4. CASE UNCHANGED vars
  BY <1>4, StutterInv
<1> QED BY <1>1, <1>2, <1>3, <1>4 DEF Next

\* Every reachable state of the context and libusb's handles is sound.
THEOREM InvHolds == Spec => []Inv
BY InvInit, InvNext, PTL DEF Spec

\* What a user of the module needs to know of a sound state.
LEMMA InvSays ==
  ASSUME Inv
  PROVE  /\ ftdi.usb_dev # None => device[ftdi.usb_dev] \in Devices
         /\ ready => ftdi.usb_dev # None /\ claim[ftdi.usb_dev] = ftdi.interface
BY DEF Inv, Sound, Basic, Linked, Usable, State

\* A call that opens the device d and returns 0 has opened that one, however many it has
\* looked at.
LEMMA OpensWhatItShould ==
  ASSUME Inv, NEW d \in Devices, OpenDev(d) \/ OpenDesc(d), ready'
  PROVE  (device[ftdi.usb_dev])' = d
<1>1. Basic(State, careful, initFor) /\ careful \in BOOLEAN /\ (careful => State.ftdi.usb_dev = None)
  BY DEF Inv, Sound, OpenDev, OpenDesc, MayOpen, State
<1>2. ASSUME NEW s, NEW h \in Handles, Basic(s, careful, initFor), careful => s.ftdi.usb_dev = None,
             NEW t \in OpenDevResults(s, h, d), Becomes(t)
      PROVE  (device[ftdi.usb_dev])' = d
  <2>1. t.ready => t.device[t.ftdi.usb_dev] = d
    BY <1>1, <1>2, OpenDevSound
  <2> QED BY <1>2, <2>1 DEF Becomes
<1>3. CASE OpenDev(d)
  <2>1. PICK h \in Free : \E t \in OpenDevResults(State, h, d) : Becomes(t)
    BY <1>3 DEF OpenDev
  <2> QED BY <1>1, <1>2, <2>1 DEF Free
<1>4. CASE OpenDesc(d)
  <2>1. PICK h \in Free : \/ Becomes(Failed(State))
                          \/ \E e \in Devices : Becomes(Probed(State, h, e))
                          \/ \E s \in OpenDevResults(Probed(State, h, d), h, d) : Becomes(s)
    BY <1>4 DEF OpenDesc
  <2>2. h \in Handles
    BY DEF Free
  <2>3. \A s \in States : ~Becomes(Failed(s))
    <3>1. \A s \in States : ~Failed(s).ready
      BY DEF Failed, States
    <3> QED BY <3>1 DEF Becomes
  <2>4. ~Becomes(Failed(State))
    BY <1>1, <2>3 DEF Basic
  <2>5. ASSUME NEW e \in Devices PROVE ~Becomes(Probed(State, h, e))
    <3>1. Closed(Opened(State, h, e)) \in States
      <4>1. Basic(Opened(State, h, e), careful, initFor)
        BY <1>1, <2>2, OpenedBasic
      <4> QED BY <1>1, <4>1, ClosedBasic DEF Basic
    <3> QED BY <2>3, <3>1 DEF Probed
  <2>6. PICK t \in OpenDevResults(Probed(State, h, d), h, d) : Becomes(t)
    BY <2>1, <2>4, <2>5
  <2>7. Basic(Probed(State, h, d), careful, initFor) /\ Probed(State, h, d).ftdi.usb_dev = None
    BY <1>1, <2>2, ProbedSound DEF Sound
  <2> QED BY <1>2, <2>2, <2>6, <2>7
<1> QED BY <1>3, <1>4

-----------------------------------------------------------------------------
(* What the runs check, for any number of devices, handles and interfaces. *)

\* The context's fields, handles and claims always have their types.
THEOREM TypeCorrect == Spec => []TypeOK
<1>1. Inv => TypeOK
  BY DEF Inv, Sound, Basic, States, State, Context, TypeOK
<1> QED BY <1>1, InvHolds, PTL

\* Whatever fails in whichever call, a careful client loses no handle.
THEOREM NoHandleIsLost == Spec => []NoHandleLost
<1>1. Inv => NoHandleLost
  BY DEF Inv, Sound, Basic, OnlyOne, State, NoHandleLost
<1> QED BY <1>1, InvHolds, PTL

\* An open that returned 0 leaves a context that can transfer.
THEOREM OpenedIsReady == Spec => []ReadyToTransfer
<1>1. Inv => ReadyToTransfer
  BY DEF Inv, Sound, Usable, State, ReadyToTransfer
<1> QED BY <1>1, InvHolds, PTL

\* What a read returns came from the device that is open.
THEOREM LeftoverIsOwn == Spec => []LeftoverOfThisDevice
<1>1. Inv => LeftoverOfThisDevice
  BY DEF Inv, Sound, Usable, State, LeftoverOfThisDevice
<1> QED BY <1>1, InvHolds, PTL

\* The mark a careful client's ftdi_write_eeprom relies on is for the device
\* that is connected.
THEOREM MarkIsKept == Spec => []MarkKept
<1>1. Inv => MarkKept
  BY DEF Inv, Sound, Basic, Marked, State, MarkKept, MarkedForConnected
<1> QED BY <1>1, InvHolds, PTL

-----------------------------------------------------------------------------
(* The class uses the library as module Device says a client may.          *)

\* The class is not a careful client; and what an open that is under way goes for is a
\* device: the one the context remembers, or else the one it has a handle on.
Targeted ==
    /\ ~careful
    /\ dev \in Devices \cup {None} /\ asked \in Devices \cup {None}
    /\ at \in {"outside", "get_strings", "reattach", "listing"}
    /\ at \in {"get_strings", "listing"} /\ dev = None => ftdi.usb_dev # None
    /\ at = "reattach" => dev \in Devices

WrapperInv == Inv /\ Targeted

LEMMA LibrarySound ==
    ASSUME WrapperInv
    PROVE  /\ ftdi.usb_dev # None => device[ftdi.usb_dev] \in Devices
           /\ ready => ftdi.usb_dev # None /\ claim[ftdi.usb_dev] = ftdi.interface
BY InvSays DEF WrapperInv

LEMMA TargetIsDevice ==
    ASSUME WrapperInv, at \in {"get_strings", "listing"}
    PROVE  Target \in Devices
BY LibrarySound DEF WrapperInv, Targeted, Target

\* Each step is one call of the library, or none.
LEMMA StepOfLibrary ==
    ASSUME WrapperInv, [ClassNext]_classVars
    PROVE  [Next]_vars
<1>1. CASE \E d \in Devices : OpenSearch(d) \/ SetUsbDevice(d)
  BY <1>1 DEF OpenSearch, SetUsbDevice, Next
<1>2. CASE \E d \in Devices : OpenDevice(d) \/ NewListed(d)
  BY <1>2 DEF OpenDevice, NewListed, Next, vars
<1>3. CASE OpenKnown
  BY <1>3 DEF OpenKnown, vars
<1>4. CASE StringsRead
  <2>1. Target \in Devices /\ MayOpen
    BY <1>4, TargetIsDevice DEF StringsRead, WrapperInv, Targeted, MayOpen
  <2>2. GetStrings(Target)
    BY <1>4, <2>1 DEF StringsRead, GetStrings
  <2> QED
    BY <2>1, <2>2 DEF Next
<1>5. CASE StringsFail
  <2>1. Target \in Devices
    BY <1>5, TargetIsDevice DEF StringsFail
  <2> QED
    BY <1>5, <2>1 DEF StringsFail, Next
<1>6. CASE Reattach
  BY <1>6 DEF Reattach, WrapperInv, Targeted, Next
<1>7. CASE ClassClose \/ NewContext
  BY <1>7 DEF ClassClose, NewContext, Next
<1>8. CASE PassOn
  BY <1>8 DEF PassOn, Next
<1>9. CASE UNCHANGED classVars
  BY <1>9 DEF classVars, vars
<1> QED
  BY <1>1, <1>2, <1>3, <1>4, <1>5, <1>6, <1>7, <1>8, <1>9 DEF ClassNext

LEMMA LibraryKept ==
    ASSUME WrapperInv, [ClassNext]_classVars
    PROVE  Inv'
BY StepOfLibrary, InvNext DEF WrapperInv

\* No call of the library changes what kind of client it has.
LEMMA SameClient ==
    ASSUME WrapperInv, [ClassNext]_classVars
    PROVE  careful' = careful
<1>1. Next => careful' = careful
  BY DEF Next, OpenDev, OpenDesc, GetStrings, SetUsbdev, SetInterface, Close, Reinit,
         InitDefaults, Read, Becomes, vars
<1> QED
  BY <1>1, StepOfLibrary DEF vars

LEMMA TargetedNext ==
    ASSUME WrapperInv, [ClassNext]_classVars
    PROVE  Targeted'
<1> USE DEF Targeted, WrapperInv
<1>1. ~careful'
  BY SameClient
<1>2. ready' => ftdi'.usb_dev # None
  BY LibraryKept DEF Inv, Sound, Usable, State
<1>3. None \notin Devices
  BY DeviceAssumption
<1>4. CASE \E d \in Devices : OpenSearch(d)
  BY <1>1, <1>2, <1>4 DEF OpenSearch, Outside
<1>5. CASE \E d \in Devices : OpenDevice(d) \/ SetUsbDevice(d) \/ NewListed(d)
  BY <1>1, <1>3, <1>5 DEF OpenDevice, SetUsbDevice, NewListed, Outside
<1>6. CASE OpenKnown
  BY <1>1, <1>6 DEF OpenKnown, wrapper, Outside
<1>7. CASE StringsRead \/ StringsFail
  <2>1. Target \in Devices
    BY <1>7, TargetIsDevice DEF StringsRead, StringsFail
  <2> QED
    BY <1>1, <1>7, <2>1 DEF StringsRead, StringsFail
<1>8. CASE Reattach
  BY <1>1, <1>8 DEF Reattach
<1>9. CASE ClassClose \/ NewContext
  BY <1>1, <1>9 DEF ClassClose, NewContext, Outside, Forgotten
<1>10. CASE PassOn
  BY <1>1, <1>10 DEF PassOn, wrapper, Outside
<1>11. CASE UNCHANGED classVars
  BY <1>11 DEF classVars, vars, wrapper
<1> QED
  BY <1>4, <1>5, <1>6, <1>7, <1>8, <1>9, <1>10, <1>11 DEF ClassNext

LEMMA WrapperInit == ClassInit => WrapperInv
BY InvInit DEF ClassInit, WrapperInv, Targeted

LEMMA WrapperAlways == ClassSpec => []WrapperInv
<1>1. WrapperInv /\ [ClassNext]_classVars => WrapperInv'
  BY LibraryKept, TargetedNext DEF WrapperInv
<1> QED
  BY WrapperInit, <1>1, PTL DEF ClassSpec

\* Whatever a client does with the class, tidy or not, the class does by calls of the library
\* that module Device has, and no other: so all that is proved of those holds below it.
THEOREM ClassUsesLibrary == ClassSpec => Spec
<1>1. ClassInit => Init
  BY DEF ClassInit
<1>2. WrapperInv /\ [ClassNext]_classVars => [Next]_vars
  BY StepOfLibrary
<1> QED
  BY <1>1, <1>2, WrapperAlways, PTL DEF ClassSpec, Spec

-----------------------------------------------------------------------------
(* What is_open() says.                                                    *)

\* With a tidy client the context remembers no device but the one that was asked for; an
\* open under way goes for that one, and meanwhile is_open() is false.
AsAsked ==
    tidy => /\ dev \in {None, asked}
            /\ at # "outside" => ~open /\ asked # None
            /\ at # "outside" /\ dev = None => device[ftdi.usb_dev] = asked
            /\ at = "reattach" => strings = asked
            /\ open => /\ asked # None /\ ready
                       /\ device[ftdi.usb_dev] = asked
                       /\ dev = asked /\ strings = asked

\* An open of the library that succeeds has opened the device it was called with.
LEMMA LibraryOpens ==
    ASSUME WrapperInv, NEW d \in Devices, OpenDev(d) \/ OpenDesc(d), ready'
    PROVE  (device[ftdi.usb_dev])' = d
BY OpensWhatItShould DEF WrapperInv

LEMMA PassOnKeeps ==
    ASSUME WrapperInv, PassOn, ready
    PROVE  /\ UNCHANGED <<device, ready>>
           /\ (ftdi.usb_dev)' = ftdi.usb_dev
<1>1. ftdi \in [usb_dev : Handles \cup {None}, interface : Interfaces, type : Types,
                max_packet_size : {0, 64, 512}, leftover : Devices \cup {None}, initialized : BOOLEAN]
  BY DEF WrapperInv, Inv, Sound, Basic, States, State, Context
<1>2. CASE \E i \in Interfaces : SetInterface(i)
  BY <1>1, <1>2 DEF SetInterface
<1>3. CASE Read
  BY <1>1, <1>3 DEF Read
<1>4. CASE InitDefaults
  BY <1>1, <1>4 DEF InitDefaults
<1> QED
  BY <1>2, <1>3, <1>4 DEF PassOn

LEMMA AsAskedNext ==
    ASSUME WrapperInv, AsAsked, [ClassNext]_classVars
    PROVE  AsAsked'
<1> USE DEF AsAsked
<1>1. None \notin Devices
  BY DeviceAssumption
<1>2. tidy' = tidy
  BY DEF ClassNext, classVars, OpenSearch, OpenDevice, SetUsbDevice, NewListed, OpenKnown, StringsRead,
         StringsFail, Reattach, ClassClose, NewContext, PassOn
<1>3. SUFFICES ASSUME tidy PROVE AsAsked'
  BY <1>2
<1>4. ASSUME NEW d \in Devices, OpenSearch(d) PROVE AsAsked'
  <2>1. asked = None /\ ~open /\ dev = None
    BY <1>3, <1>4 DEF OpenSearch
  <2>2. ready' => (device[ftdi.usb_dev])' = d
    BY <1>4, LibraryOpens DEF OpenSearch
  <2> QED
    BY <1>1, <1>4, <2>1, <2>2 DEF OpenSearch
<1>5. ASSUME NEW d \in Devices, OpenDevice(d) PROVE AsAsked'
  BY <1>1, <1>3, <1>5 DEF OpenDevice
<1>6. ASSUME NEW d \in Devices, SetUsbDevice(d) PROVE AsAsked'
  BY <1>1, <1>3, <1>6 DEF SetUsbDevice, Outside
<1>7. ASSUME NEW d \in Devices, NewListed(d) PROVE AsAsked'
  BY <1>1, <1>7 DEF NewListed
<1>8. CASE OpenKnown
  <2>1. ~open
    BY <1>3, <1>8 DEF OpenKnown
  <2> QED
    BY <1>3, <1>8, <2>1 DEF OpenKnown, wrapper, Outside, WrapperInv, Targeted
<1>9. CASE StringsRead \/ StringsFail
  <2>1. Target = asked /\ ~open /\ asked # None
    BY <1>3, <1>9 DEF StringsRead, StringsFail, Target
  <2>2. dev' = asked' /\ asked' # None /\ ~open'
    BY <1>9, <2>1 DEF StringsRead, StringsFail
  <2>3. at' = "reattach" => strings' = asked'
    BY <1>9, <2>1 DEF StringsRead, StringsFail
  <2> QED
    BY <2>2, <2>3
<1>10. CASE Reattach
  <2>1. dev \in Devices /\ dev = asked /\ strings = asked
    BY <1>1, <1>3, <1>10 DEF Reattach, WrapperInv, Targeted
  <2>2. ready' => (device[ftdi.usb_dev])' = dev
    BY <1>10, <2>1, LibraryOpens DEF Reattach
  <2>3. dev' = dev /\ strings' = strings /\ asked' = asked /\ at' = "outside" /\ open' = ready'
    BY <1>10 DEF Reattach
  <2> QED
    BY <1>1, <2>1, <2>2, <2>3
<1>11. CASE ClassClose \/ NewContext
  BY <1>11 DEF ClassClose, NewContext, Outside, Forgotten
<1>12. CASE PassOn
  <2>1. UNCHANGED <<open, dev, strings, asked, at>> /\ at = "outside"
    BY <1>12 DEF PassOn, wrapper, Outside
  <2>2. open => UNCHANGED <<device, ready>> /\ (ftdi.usb_dev)' = ftdi.usb_dev
    BY <1>3, <1>12, PassOnKeeps
  <2> QED
    BY <1>3, <2>1, <2>2
<1>13. CASE UNCHANGED classVars
  BY <1>13 DEF classVars, vars, wrapper
<1> QED
  BY <1>4, <1>5, <1>6, <1>7, <1>8, <1>9, <1>10, <1>11, <1>12, <1>13 DEF ClassNext

\* However the calls of a tidy client and their failures follow each other: when is_open()
\* is true the library has the device that was asked for, with its interface claimed, and
\* the strings are of that device.
THEOREM OpenAsAskedAlways == ClassSpec => []OpenAsAsked
<1>1. ClassInit => AsAsked
  BY DEF ClassInit, AsAsked
<1>2. WrapperInv /\ AsAsked /\ [ClassNext]_classVars => AsAsked'
  BY AsAskedNext
<1>3. WrapperInv /\ AsAsked => OpenAsAsked
  BY LibrarySound DEF AsAsked, OpenAsAsked
<1> QED
  BY <1>1, <1>2, <1>3, WrapperAlways, PTL DEF ClassSpec
=============================================================================
