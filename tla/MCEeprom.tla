------------------------------ MODULE MCEeprom ------------------------------
(* One device of each type, with each chip among them; short names, and for *)
(* the largest and the smallest area for strings names that fill it to the  *)
(* last character, and one more.                                            *)
EXTENDS Eeprom

const_Chips == {<<"AM", 64>>, <<"BM", 128>>, <<"2232C", 256>>, <<"R", 128>>,
                <<"2232H", 128>>, <<"4232H", 64>>, <<"232H", 64>>, <<"232H", 256>>}

Chars(n) == [k \in 1 .. n |-> 64 + (k % 26)]

const_Names == [t \in Types |->
    IF t \in {"BM", "232H"} THEN {<<Chars(3), Chars((UserArea(t) \div 2) - 5), Chars(n)>> : n \in {2, 3}}
    ELSE {<<Chars(2), Chars(4), Chars(1)>>}]

\* Each flag as build wants it and its neighbours off; then the reverse.
OneSide == [vendor_id |-> 1027, product_id |-> 43981, usb_version |-> 272, max_power |-> 300,
            self_powered |-> 1, remote_wakeup |-> 0, is_not_pnp |-> 0, suspend_dbus7 |-> 128,
            in_is_isochronous |-> 1, out_is_isochronous |-> 0, suspend_pull_downs |-> 1,
            use_serial |-> 0, use_usb_version |-> 16, channel_type |-> <<1, 4>>,
            driver |-> <<8, 0, 0, 8>>, rs485 |-> <<1, 0, 0, 1>>, high_current |-> 4,
            high_current_a |-> 16, high_current_b |-> 0, invert |-> 129,
            cbus |-> <<9, 8, 13, 12, 6, 5, 12, 13, 1, 3>>, drive |-> <<1, 2, 3, 7>>,
            schmitt |-> <<8, 0, 0, 8>>, slew |-> <<0, 4, 0, 4>>, powersave |-> 1,
            clock_polarity |-> 0, data_order |-> 1, flow_control |-> 0]

OtherSide == [vendor_id |-> 513, product_id |-> 1027, usb_version |-> 512, max_power |-> 90,
            self_powered |-> 0, remote_wakeup |-> 1, is_not_pnp |-> 1, suspend_dbus7 |-> 0,
            in_is_isochronous |-> 0, out_is_isochronous |-> 1, suspend_pull_downs |-> 0,
            use_serial |-> 1, use_usb_version |-> 1, channel_type |-> <<2, 1>>,
            driver |-> <<0, 8, 8, 0>>, rs485 |-> <<0, 1, 1, 0>>, high_current |-> 0,
            high_current_a |-> 0, high_current_b |-> 16, invert |-> 0,
            cbus |-> <<4, 3, 2, 1, 5, 6, 7, 8, 10, 9>>, drive |-> <<3, 0, 2, 1>>,
            schmitt |-> <<0, 8, 8, 0>>, slew |-> <<4, 0, 4, 0>>, powersave |-> 0,
            clock_polarity |-> 2, data_order |-> 0, flow_control |-> 4]

\* Saying that the chip is a larger one, or a smaller.
Claim(t) == CASE t = "2232C" -> {[chip |-> 70]}
              [] t = "4232H" -> {[chip |-> 102]}
              [] OTHER -> {}

const_Values == [t \in Types |-> {OneSide, OtherSide} \cup Claim(t)]
=============================================================================
