------------------------------ MODULE Keyboard ------------------------------
(***************************************************************************)
(* The keyboard driver and line editor of keyboard.c with the terminal    *)
(* save buffer of terminal.c: the scan-code dispatch of keyboard_handler, *)
(* the per-terminal Shift/Caps mode and the global Ctrl and Alt flags, the *)
(* per-terminal line buffer, Enter copying the line into save_buff        *)
(* (terminal_read) and keyboard_read taking it back (terminal_retrieve).  *)
(* Scan codes are model values; the ASCII table is the constant KeyMap.   *)
(* The rest of terminal_switch (stacks, pages, the lazy shell) is         *)
(* KernelCore's; here a switch only moves curr_terminal.                  *)
(***************************************************************************)
EXTENDS Integers, Sequences, SequencesExt, FiniteSetsExt

CONSTANTS
    MaxTerminal,      \* MAX_TERMINAL
    BufferSize,       \* BUFFER_SIZE = TERM_BUFF_SIZE
    Keys,             \* the scan codes the user may send
    InRange,          \* scan codes in ABC_LOW_SCANS .. ABC_HIGH_SCANS
    KeyMap,           \* kbd_ascii_key_map: mode -> scan code -> character
    CAPS, L_SHIFT_MAKE, L_SHIFT_BREAK, CTRL_MAKE, CTRL_BREAK,
    BKSP, ENTER, ALT, ALT_BREAK, L_MAKE,
    Fn,               \* <<fn1, fn2, fn3>>
    Nul, Space,       \* the characters '\0' and ' '
    ExitWord,         \* "exit"
    Counts            \* nbytes arguments of keyboard_read

NONE_MODE == 0
SHIFT_MODE == 1
CAPS_MODE == 2
SHIFT_CAPS_MODE == 3
MAKE == 0
BREAK == 1
Terms == 0 .. MaxTerminal - 1
None == [k \in 1 .. BufferSize |-> Nul]   \* no snapshot: longer than any line

ASSUME /\ BufferSize \in Nat \ {0} /\ Len(ExitWord) = 4
       /\ Keys \subseteq DOMAIN KeyMap[NONE_MODE] \cup
            {CAPS, L_SHIFT_MAKE, L_SHIFT_BREAK, CTRL_MAKE, CTRL_BREAK,
             BKSP, ENTER, ALT, ALT_BREAK}

VARIABLES
    caps_shift_flag, ctrl_flag, alt_flag,
    buffer,          \* buffer[t][0 .. buffer_index[t] - 1]
    save_buff,       \* save_buff[t] up to its first '\0'
    curr_terminal, kbdr_flag,
    rd, nb, ret,     \* the reader of each terminal: idle/wait, its nbytes, the last result
    snap,            \* ghost: the line of the Enter that released the waiting reader
    caps,            \* ghost: Caps Lock pressed an odd number of times on the terminal
    down             \* ghost: modifier keys physically held

kbd == <<caps_shift_flag, ctrl_flag, alt_flag, buffer, save_buff, curr_terminal, kbdr_flag>>
vars == <<kbd, rd, nb, ret, snap, caps, down>>

(* keyboard_init, terminal init, and kbdr_flag's static initialiser.       *)
Init ==
    /\ caps_shift_flag = [t \in Terms |-> NONE_MODE]
    /\ ctrl_flag = FALSE /\ alt_flag = FALSE
    /\ buffer = [t \in Terms |-> <<>>]
    /\ save_buff = [t \in Terms |-> <<>>]
    /\ curr_terminal = 0 /\ kbdr_flag = 0
    /\ rd = [t \in Terms |-> "idle"] /\ nb = [t \in Terms |-> 0] /\ ret = 0
    /\ snap = [t \in Terms |-> None] /\ caps = [t \in Terms |-> FALSE]
    /\ down = {}

SetMode(m) ==
    /\ caps_shift_flag' = [caps_shift_flag EXCEPT ![curr_terminal] = m]
    /\ UNCHANGED <<ctrl_flag, alt_flag, buffer, save_buff, curr_terminal, kbdr_flag>>

NextCapsModeStuck(m) ==
    CASE m = NONE_MODE -> CAPS_MODE [] m = SHIFT_MODE -> SHIFT_MODE
      [] m = CAPS_MODE -> NONE_MODE [] OTHER -> SHIFT_MODE
NextCapsMode(m) ==
    CASE m = NONE_MODE -> CAPS_MODE [] m = SHIFT_MODE -> SHIFT_CAPS_MODE
      [] m = CAPS_MODE -> NONE_MODE [] OTHER -> SHIFT_MODE

ToggleCaps == SetMode(NextCapsMode(caps_shift_flag[curr_terminal]))

ToggleShift(type) ==
    LET m == caps_shift_flag[curr_terminal] IN
    SetMode(IF type = MAKE
            THEN CASE m = NONE_MODE -> SHIFT_MODE [] m = CAPS_MODE -> SHIFT_CAPS_MODE
                   [] OTHER -> m
            ELSE CASE m = SHIFT_MODE -> NONE_MODE [] m = SHIFT_CAPS_MODE -> CAPS_MODE
                   [] OTHER -> m)

ToggleCtrl(type) ==
    /\ ctrl_flag' = (type = MAKE)
    /\ UNCHANGED <<caps_shift_flag, alt_flag, buffer, save_buff, curr_terminal, kbdr_flag>>

ToggleAlt(type) ==
    /\ alt_flag' = (type = MAKE)
    /\ UNCHANGED <<caps_shift_flag, ctrl_flag, buffer, save_buff, curr_terminal, kbdr_flag>>

SetBuffer(b) ==
    /\ buffer' = [buffer EXCEPT ![curr_terminal] = b]
    /\ UNCHANGED <<caps_shift_flag, ctrl_flag, alt_flag, save_buff, curr_terminal, kbdr_flag>>

HandleBackspace ==
    IF Len(buffer[curr_terminal]) - 1 >= 0 THEN SetBuffer(Front(buffer[curr_terminal]))
    ELSE UNCHANGED kbd

(* handle_enter: raise kbdr_flag, terminal_read copies the line into      *)
(* save_buff (cleared first), clear_buffer empties the line.             *)
HandleEnterNoFlag ==
    /\ UNCHANGED kbdr_flag
    /\ save_buff' = [save_buff EXCEPT ![curr_terminal] = buffer[curr_terminal]]
    /\ buffer' = [buffer EXCEPT ![curr_terminal] = <<>>]
    /\ UNCHANGED <<caps_shift_flag, ctrl_flag, alt_flag, curr_terminal>>
HandleEnter ==
    /\ kbdr_flag' = 1
    /\ save_buff' = [save_buff EXCEPT ![curr_terminal] = buffer[curr_terminal]]
    /\ buffer' = [buffer EXCEPT ![curr_terminal] = <<>>]
    /\ UNCHANGED <<caps_shift_flag, ctrl_flag, alt_flag, curr_terminal>>

(* The part of terminal_switch this module sees.                         *)
TerminalSwitch(n) ==
    IF n = curr_terminal \/ n >= MaxTerminal THEN UNCHANGED kbd
    ELSE /\ curr_terminal' = n
         /\ UNCHANGED <<caps_shift_flag, ctrl_flag, alt_flag, buffer, save_buff, kbdr_flag>>

(* process_key: Ctrl+L redraws, Alt+Fn switches, otherwise the character *)
(* for the terminal's mode is echoed and stored if it leaves room for     *)
(* the terminating '\0'.                                                  *)
ProcessKeyOverfill(key) ==
    LET b == buffer[curr_terminal] IN
    IF key \notin InRange \/ (key = L_MAKE /\ ctrl_flag) THEN UNCHANGED kbd
    ELSE IF \E n \in DOMAIN Fn : key = Fn[n] /\ alt_flag
    THEN \E n \in DOMAIN Fn : key = Fn[n] /\ TerminalSwitch(n - 1)
    ELSE IF Len(b) < BufferSize
    THEN SetBuffer(Append(b, KeyMap[caps_shift_flag[curr_terminal]][key]))
    ELSE UNCHANGED kbd
ProcessKey(key) ==
    LET b == buffer[curr_terminal] IN
    IF key \notin InRange \/ (key = L_MAKE /\ ctrl_flag) THEN UNCHANGED kbd
    ELSE IF \E n \in DOMAIN Fn : key = Fn[n] /\ alt_flag
    THEN \E n \in DOMAIN Fn : key = Fn[n] /\ TerminalSwitch(n - 1)
    ELSE IF Len(b) + 1 < BufferSize
    THEN SetBuffer(Append(b, KeyMap[caps_shift_flag[curr_terminal]][key]))
    ELSE UNCHANGED kbd

KeyboardHandler(key) ==
    CASE key = CAPS                -> ToggleCaps
      [] key = L_SHIFT_MAKE        -> ToggleShift(MAKE)
      [] key = L_SHIFT_BREAK       -> ToggleShift(BREAK)
      [] key = CTRL_MAKE           -> ToggleCtrl(MAKE)
      [] key = CTRL_BREAK          -> ToggleCtrl(BREAK)
      [] key = BKSP                -> HandleBackspace
      [] key = ENTER               -> HandleEnter
      [] key = ALT                 -> ToggleAlt(MAKE)
      [] OTHER                     -> ProcessKey(key)

(* Byte i of a save buffer: terminal_read cleared it to '\0' before       *)
(* copying buffer_index bytes in.                                          *)
SaveByte(s, i) == IF i < Len(s) THEN s[i + 1] ELSE Nul

(***************************************************************************)
(* terminal_retrieve(buf, nbytes): skip leading spaces, then copy up to   *)
(* nbytes bytes, stopping after writing the first '\0' (not counted).     *)
(* Returns the count and the bytes written into buf.                      *)
(***************************************************************************)
TerminalRetrieve(s, n) ==
    LET RECURSIVE Skip(_)
        Skip(i) == IF SaveByte(s, i) = Space /\ i < n /\ i < BufferSize
                   THEN Skip(i + 1) ELSE i
        RECURSIVE Copy(_, _, _)
        Copy(i, cnt, w) ==
            IF cnt < n /\ i < BufferSize
            THEN IF SaveByte(s, i) = Nul THEN [count |-> cnt, buf |-> Append(w, Nul)]
                 ELSE Copy(i + 1, cnt + 1, Append(w, SaveByte(s, i)))
            ELSE [count |-> cnt, buf |-> w]
    IN Copy(Skip(0), 0, <<>>)

(* strncmp(buf, "exit", 4) over the bytes written into buf: "unknown"     *)
(* when it would read past them into whatever the caller's buffer held.   *)
ExitCompare(w) ==
    LET RECURSIVE Cmp(_)
        Cmp(k) == IF k = 4 THEN "equal"
                  ELSE IF k >= Len(w) THEN "unknown"
                  ELSE IF w[k + 1] # ExitWord[k + 1] THEN "differ"
                  ELSE Cmp(k + 1)
    IN Cmp(0)

(* keyboard_read entry: kbdr_flag is cleared before buf is checked, then  *)
(* the reader spins.                                                      *)
KeyboardRead(n, bufNull) ==
    LET t == curr_terminal IN
    /\ rd[t] = "idle"
    /\ kbdr_flag' = 0
    /\ IF bufNull THEN ret' = -1 /\ UNCHANGED <<rd, nb, snap>>
       ELSE /\ rd' = [rd EXCEPT ![t] = "wait"]
            /\ nb' = [nb EXCEPT ![t] = n]
            /\ snap' = [snap EXCEPT ![t] = None]
            /\ UNCHANGED ret
    /\ UNCHANGED <<caps_shift_flag, ctrl_flag, alt_flag, buffer, save_buff,
                   curr_terminal, caps, down>>

(* keyboard_read exit: the spin sees kbdr_flag, terminal_retrieve fills   *)
(* buf, and '\n' is appended (and counted) unless buf starts with "exit". *)
KeyboardReadReturn ==
    LET t == curr_terminal
        r == TerminalRetrieve(save_buff[t], nb[t])
        c == ExitCompare(r.buf)
    IN
    /\ rd[t] = "wait" /\ kbdr_flag = 1
    /\ \E isExit \in CASE c = "equal" -> {TRUE} [] c = "differ" -> {FALSE}
                         [] OTHER -> BOOLEAN :
          ret' = r.count + (IF isExit THEN 0 ELSE 1)
    /\ rd' = [rd EXCEPT ![t] = "idle"]
    /\ UNCHANGED <<kbd, nb, snap, caps, down>>

Modifier(key) ==
    CASE key \in {L_SHIFT_MAKE, L_SHIFT_BREAK} -> "shift"
      [] key \in {CTRL_MAKE, CTRL_BREAK}       -> "ctrl"
      [] OTHER                                 -> "alt"

(* The user presses or releases a key; a release needs the key held.     *)
(* The ghosts record the physical keys, Caps Lock presses and the line a  *)
(* waiting reader is owed.                                                *)
Press(key) ==
    /\ key \in {L_SHIFT_BREAK, CTRL_BREAK, ALT_BREAK} => Modifier(key) \in down
    /\ KeyboardHandler(key)
    /\ down' = CASE key \in {L_SHIFT_MAKE, CTRL_MAKE, ALT} -> down \cup {Modifier(key)}
                 [] key \in {L_SHIFT_BREAK, CTRL_BREAK, ALT_BREAK} -> down \ {Modifier(key)}
                 [] OTHER -> down
    /\ caps' = IF key = CAPS THEN [caps EXCEPT ![curr_terminal] = ~@] ELSE caps
    /\ snap' = IF key = ENTER /\ rd[curr_terminal] = "wait" /\ snap[curr_terminal] = None
               THEN [snap EXCEPT ![curr_terminal] = buffer[curr_terminal]] ELSE snap
    /\ UNCHANGED <<rd, nb, ret>>

Next ==
    \/ \E key \in Keys : Press(key)
    \/ \E n \in Counts, bufNull \in BOOLEAN : KeyboardRead(n, bufNull)
    \/ KeyboardReadReturn

(* The spinning reader runs whenever no interrupt is being handled, so a  *)
(* return that stays enabled is eventually taken.  The user gets no       *)
(* fairness: keys may never come.                                         *)
Spec == Init /\ [][Next]_vars /\ WF_vars(KeyboardReadReturn)

-----------------------------------------------------------------------------
Chars == UNION {Range(KeyMap[m]) : m \in DOMAIN KeyMap}

TypeOK ==
    /\ caps_shift_flag \in [Terms -> NONE_MODE .. SHIFT_CAPS_MODE]
    /\ ctrl_flag \in BOOLEAN /\ alt_flag \in BOOLEAN
    /\ \A t \in Terms : /\ buffer[t] \in Seq(Chars) /\ Len(buffer[t]) < BufferSize
                        /\ save_buff[t] \in Seq(Chars)
    /\ curr_terminal \in Terms /\ kbdr_flag \in {0, 1}
    /\ rd \in [Terms -> {"idle", "wait"}] /\ nb \in [Terms -> Counts \cup {0}]
    /\ down \subseteq {"shift", "ctrl", "alt"}


(* The Caps half of each terminal's mode is on exactly when Caps Lock was *)
(* pressed an odd number of times on that terminal, whatever Shift did in *)
(* between (toggle_caps and toggle_shift).                                *)
CapsParity ==
    \A t \in Terms : (caps_shift_flag[t] >= CAPS_MODE) = caps[t]

(* A reader waiting on the foreground terminal when Enter is pressed      *)
(* returns, unless the user switches away first (handle_enter raises       *)
(* kbdr_flag, which keyboard_read spins on).                              *)
EnterWakesReader ==
    \A t \in Terms : (rd[t] = "wait" /\ snap[t] # None) ~>
                      (rd[t] = "idle" \/ curr_terminal # t)

(* Section 4.4: Alt+F1/F2/F3 switches terminal; the switch needs Alt held. *)
SwitchNeedsAlt ==
    [][curr_terminal' # curr_terminal => "alt" \in down]_vars
====
