----------------------------- MODULE MCKeyboard -----------------------------
EXTENDS Keyboard

\* Ctrl, Shift, F4, and the Alt key on the right.
MCKey == {[scan |-> 29, ench |-> 0], [scan |-> 42, ench |-> 0],
          [scan |-> 62, ench |-> 0], [scan |-> 56, ench |-> 1]}

Column(high, low) ==
  [c \in {0, 1} \X (0 .. 3) |-> <<high, low + 4 * c[1] + c[2]>>]
F4 == [scan |-> 62, ench |-> 0]
CT == [scan |-> 119, ench |-> 1]

MCKeys == MCKey \cup {CT}

\* Two keys, one of them listed under two names, and a name given to both.
MCLine == {[name |-> "KEY_F4", key |-> F4, codes |-> Column(17, 68)],
           [name |-> "KEY_CT", key |-> CT, codes |-> Column(0, 94)],
           [name |-> "KEY_F4", key |-> CT, codes |-> Column(18, 65)]}

MCBinding == {[modifiers |-> <<"ctrl">>, name |-> "KEY_F4"],
              [modifiers |-> <<"shift", "ctrl">>, name |-> "KEY_CT"]}
=============================================================================
