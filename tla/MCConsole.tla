----------------------------- MODULE MCConsole -----------------------------
(* Instantiation of Console for TLC: the keyboard of MCKeyboard on two    *)
(* terminals with a one-byte line, so that every key either switches,     *)
(* echoes, or is refused.                                                 *)
EXTENDS Console, TLC

CONSTANTS kE, kX, kI, kT, kL, kSpace, kTab, kF1, kF2, kF3

Letter(lo, up) == [m \in 0 .. 3 |-> IF m \in {1, 2} THEN up ELSE lo]
Same(c) == [m \in 0 .. 3 |-> c]
Row == (kE :> Letter("e", "E") @@ kX :> Letter("x", "X") @@ kI :> Letter("i", "I")
        @@ kT :> Letter("t", "T") @@ kL :> Letter("l", "L") @@ kSpace :> Same(" ")
        @@ kTab :> Same("NUL") @@ kF1 :> Same("NUL") @@ kF2 :> Same("NUL")
        @@ kF3 :> Same("NUL"))
MCKeyMap == [m \in 0 .. 3 |-> [k \in DOMAIN Row |-> Row[k][m]]]
MCInRange == DOMAIN Row
MCFn == <<kF1, kF2, kF3>>
MCExitWord == <<"e", "x", "i", "t">>

Modifiers == {CAPS, L_SHIFT_MAKE, L_SHIFT_BREAK}
MCKeysLine == {kE, kSpace, kF1, BKSP, ENTER, CAPS}
MCKeysModes == {kE, kL, kF1, kF2, BKSP, ENTER, CTRL_MAKE, CTRL_BREAK, ALT, ALT_BREAK}
               \cup Modifiers
MCKeysExit == {kE, kX, kI, kT, ENTER}
MCCountsLine == {-1, 1, 3}     \* negative, one byte, more than a line holds
====
