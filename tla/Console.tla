------------------------------ MODULE Console ------------------------------
(***************************************************************************)
(* The keyboard driver composed with the terminals' screens.  Every key   *)
(* is handled by keyboard_handler (Keyboard), and the screen work the     *)
(* handler does on the way happens in the same step (TerminalVideo):      *)
(* Alt+Fn runs terminal_switch, which saves and restores the screens;     *)
(* the echo of a stored character, backspace, Enter's scroll and the     *)
(* Ctrl+L redraw write the foreground screen.  Between keys the running   *)
(* program may write the screen with terminal_write, call vidmap, and     *)
(* store through the page vidmap gave it.                                 *)
(***************************************************************************)
EXTENDS Keyboard

VARIABLES page_table, frame, has_vidmap, ver

screens == <<page_table, frame, has_vidmap, ver>>
allvars == <<vars, screens>>

Screens == INSTANCE TerminalVideo

(* The keys whose handling writes the screen: Enter (scroll), a          *)
(* backspace or a character that changes the line (backspace, putc), and *)
(* Ctrl+L (clear, printf, putc).                                          *)
Echoes(key) ==
    \/ key = ENTER
    \/ buffer' # buffer
    \/ key = L_MAKE /\ key \in InRange /\ ctrl_flag

(* keyboard_handler for one key, with the screen work it does.           *)
KeyStep(key) ==
    /\ Press(key)
    /\ IF curr_terminal' # curr_terminal
       THEN Screens!SwitchScreens(curr_terminal') /\ UNCHANGED <<has_vidmap, ver>>
       ELSE IF Echoes(key) THEN Screens!Putc
       ELSE UNCHANGED screens

ConsoleInit == Init /\ Screens!VideoInit

(* terminal_write(1, buf, n) by the foreground program: putc per byte.    *)
ProgramWrite == Screens!Putc /\ UNCHANGED vars
ProgramVidmap == Screens!Vidmap /\ UNCHANGED vars
ProgramStore == Screens!UserWrite /\ UNCHANGED vars

ConsoleNext ==
    \/ \E key \in Keys : KeyStep(key)
    \/ \E n \in Counts, bufNull \in BOOLEAN :
          KeyboardRead(n, bufNull) /\ UNCHANGED screens
    \/ KeyboardReadReturn /\ UNCHANGED screens
    \/ ProgramWrite
    \/ ProgramVidmap
    \/ ProgramStore

ConsoleSpec == ConsoleInit /\ [][ConsoleNext]_allvars

-----------------------------------------------------------------------------
(* Every terminal's screen holds that terminal's latest write (see         *)
(* TerminalVideo): the Alt+Fn path of keyboard_handler, terminal_switch's *)
(* remap-then-copy order and vidmap's mapping keep the screens apart.     *)
ScreensKept == Screens!ScreensKept
====
