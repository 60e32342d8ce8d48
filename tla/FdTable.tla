------------------------------- MODULE FdTable -------------------------------
(***************************************************************************)
(* The file-descriptor table of one process and the system calls that use *)
(* it: open, close, read and write (syscall.c) dispatched through the     *)
(* jump tables (fd_table.c) to the keyboard, terminal, RTC, directory and *)
(* file drivers (keyboard.c, terminal.c, rtc.c, filesystem.c), and the    *)
(* table's life: fd_table_init in execute, close_all_fd in halt.  The RTC *)
(* rate register is shared by every process and is kept here too.         *)
(***************************************************************************)
EXTENDS FileSystem

CONSTANTS
    FdInputs,       \* descriptor arguments a program passes
    Counts,         \* nbytes arguments
    Hz,             \* frequencies a program writes to the RTC
    MaxOpenFiles,   \* MAX_OPEN_FILES
    Names,          \* file names a program may pass to open
    Lookup,         \* read_dentry_by_name: name -> [type, inode] or NotFound
    NotFound,
    EntryNameLen,   \* character_count[] of each directory entry
    NameMax         \* MAX_NAME_CHARACTERS

ASSUME /\ MaxOpenFiles \in Nat /\ MaxOpenFiles > 2
       /\ \A n \in Names : Lookup[n] = NotFound \/
              (Lookup[n].type \in {0, 1, 2} /\ Lookup[n].inode \in Inodes)
       /\ EntryNameLen \in [0 .. NumEntries - 1 -> 0 .. NameMax]
       /\ FdInputs \subseteq Int /\ Counts \subseteq Int /\ Hz \subseteq Nat

Fds == 0 .. MaxOpenFiles - 1
Drivers == {"none", "kbd", "term", "rtc", "dir", "file"}

VARIABLES
    fds,     \* pcb->fd_table: [jump, inode, pos, flags] per slot
    rate,    \* the RTC's periodic rate (low nibble of register A)
    alive,   \* the PCB holds a running process (fd_table_init .. close_all_fd)
    ret,     \* the value the last system call returned
    req,     \* ghost: the frequency last asked of set_frequency
    got,     \* ghost: what the reads through each descriptor returned
    interrupt_flag,  \* rtc.c interrupt_flag, set by rtc_handler
    irq_armed,       \* register C was read since the RTC's last IRQ 8
    in_rtc_read,     \* the process spins in rtc_read's loop
    ticked           \* ghost: IRQ 8 was handled since the pending rtc_read began

vars == <<fds, rate, alive, ret, req, got, interrupt_flag, irq_armed, in_rtc_read,
          ticked>>
rtcvars == <<interrupt_flag, irq_armed, in_rtc_read, ticked>>

ClosedFd == [jump |-> "none", inode |-> -1, pos |-> 0, flags |-> 0]
OpenFd(kind, inode) == [jump |-> kind, inode |-> inode, pos |-> 0, flags |-> 1]

(* fd_table_init: every slot empty, then stdin and stdout.                *)
InitTable ==
    [i \in Fds |-> CASE i = 0 -> OpenFd("kbd", -1)
                     [] i = 1 -> OpenFd("term", -1)
                     [] OTHER -> ClosedFd]

(* frequencies[] of rtc.c: 32768 Hz down to 4 Hz.                          *)
Frequencies == [k \in 0 .. 13 |-> 2 ^ (15 - k)]

(* set_frequency: the table index of the frequency (14 if absent), plus   *)
(* one, clamped to the rates 6..15.                                       *)
SetFrequencyUnclamped(f) ==
    LET found == {k \in DOMAIN Frequencies : Frequencies[k] = f}
    IN (IF found = {} THEN 14 ELSE Min(found)) + 1
SetFrequencyNoIncrement(f) ==
    LET found == {k \in DOMAIN Frequencies : Frequencies[k] = f}
        r     == IF found = {} THEN 14 ELSE Min(found)
    IN IF r > 15 THEN 15 ELSE IF r < 6 THEN 6 ELSE r
SetFrequency(f) ==
    LET found == {k \in DOMAIN Frequencies : Frequencies[k] = f}
        r     == (IF found = {} THEN 14 ELSE Min(found)) + 1
    IN IF r > 15 THEN 15 ELSE IF r < 6 THEN 6 ELSE r

(* check_valid_fd: in range and in use.                                    *)
CheckValidFd(fd) == fd \in Fds /\ fds[fd].flags = 1

(* get_fd_index: the lowest free slot from 2 on, or -1.                    *)
GetFdIndexIgnoringFlags == 2
GetFdIndex ==
    LET free == {i \in 2 .. MaxOpenFiles - 1 : fds[i].flags = 0}
    IN IF free = {} THEN -1 ELSE Min(free)

(* close_fd, which ignores an index outside the table.                    *)
CloseFd(fd) ==
    IF fd \in Fds THEN fds' = [fds EXCEPT ![fd] = ClosedFd] ELSE UNCHANGED fds

(* Whether the driver's close frees the slot: keyboard_close and          *)
(* terminal_close only return -1, rtc_close checks 2 <= fd <= 8, dir_close *)
(* and file_close always free it.                                         *)
DriverClosesAll(kind, fd) == TRUE
DriverCloses(kind, fd) ==
    CASE kind \in {"kbd", "term"} -> FALSE
      [] kind = "rtc"             -> fd >= 2 /\ fd =< MaxOpenFiles
      [] OTHER                    -> TRUE

(* add_offset: the cursor is a uint32_t.                                   *)
AddOffsetTwice(fd, amt) == fds' = [fds EXCEPT ![fd].pos = (@ + 2 * amt) % Word]
AddOffset(fd, amt) == fds' = [fds EXCEPT ![fd].pos = (@ + amt) % Word]

Init ==
    /\ fds = InitTable
    /\ rate = SetFrequency(2)       \* rtc_init: set_frequency(DEFAULT_FREQ)
    /\ alive = TRUE
    /\ ret = 0
    /\ req = 2
    /\ got = [i \in Fds |-> <<>>]
    /\ interrupt_flag = 1           \* rtc_init: interrupt_flag = 1
    /\ irq_armed = TRUE
    /\ in_rtc_read = FALSE
    /\ ticked = FALSE

(* set_fd_info: the slot get_fd_index chose gets the driver's descriptor; *)
(* its read history starts afresh.                                        *)
SetFdInfo(i, kind, inode) ==
    /\ fds' = [fds EXCEPT ![i] = OpenFd(kind, inode)]
    /\ got' = [got EXCEPT ![i] = <<>>]

(* The tail every driver's open shares: get_fd_index, -1 when the table is *)
(* full, else set_fd_info and the index.                                  *)
TakeSlot(kind, inode) ==
    LET i == GetFdIndex IN
    IF i = -1 THEN ret' = -1 /\ UNCHANGED <<fds, got>>
    ELSE SetFdInfo(i, kind, inode) /\ ret' = i

(* rtc_open: set_frequency(2) before looking for a slot.                   *)
RtcOpen == rate' = SetFrequency(2) /\ req' = 2 /\ TakeSlot("rtc", -1)

(* dir_open: no inode.                                                     *)
DirOpen == TakeSlot("dir", -1) /\ UNCHANGED <<rate, req>>

(* file_open: looks the name up again and keeps the dentry's inode.       *)
FileOpen(inode) == TakeSlot("file", inode) /\ UNCHANGED <<rate, req>>

(* open(name): read_dentry_by_name, -1 if absent, then the open of the    *)
(* entry's type: 0 rtc_open, 1 dir_open, anything else file_open.         *)
SysOpen(name) ==
    LET d == Lookup[name] IN
    /\ alive /\ ~in_rtc_read
    /\ CASE d = NotFound -> ret' = -1 /\ UNCHANGED <<fds, got, rate, req>>
         [] d.type = 0   -> RtcOpen
         [] d.type = 1   -> DirOpen
         [] OTHER        -> FileOpen(d.inode)
    /\ UNCHANGED <<alive, rtcvars>>

(* close(fd): check the descriptor, then the driver's close.              *)
SysClose(fd) ==
    /\ alive /\ ~in_rtc_read
    /\ IF ~CheckValidFd(fd) \/ ~DriverCloses(fds[fd].jump, fd)
       THEN ret' = -1 /\ UNCHANGED fds
       ELSE CloseFd(fd) /\ ret' = 0
    /\ UNCHANGED <<rate, alive, req, got, rtcvars>>

(* file_read: read_data at the cursor, then advance the cursor by the     *)
(* uint32_t value of what read_data returned, if that is not 0.           *)
FileRead(fd, n) ==
    LET r   == ReadData(fds[fd].inode, fds[fd].pos, n % Word)
        amt == r.ret % Word
    IN /\ IF amt > 0 THEN AddOffset(fd, amt) ELSE UNCHANGED fds
       /\ got' = [got EXCEPT ![fd] = @ \o r.buf]
       /\ ret' = r.ret

(* dir_read: the name of the entry at the cursor, at most n bytes, and    *)
(* the cursor moves to the next entry; 0 once past the last entry.        *)
DirRead(fd, n) ==
    LET e == fds[fd].pos IN
    IF e >= NumEntries THEN ret' = 0 /\ UNCHANGED <<fds, got>>
    ELSE /\ ret' = Min({EntryNameLen[e], Max({n, 0})})
         /\ AddOffset(fd, 1)
         /\ got' = [got EXCEPT ![fd] = Append(@, e)]

(* rtc_read: clears interrupt_flag and enters its spin loop.             *)
RtcReadNoClear ==
    in_rtc_read' = TRUE /\ ticked' = FALSE /\ UNCHANGED <<ret, irq_armed, interrupt_flag>>
RtcRead ==
    interrupt_flag' = 0 /\ in_rtc_read' = TRUE /\ ticked' = FALSE /\ UNCHANGED <<ret, irq_armed>>

(* The loop of rtc_read sees interrupt_flag set and returns 0.            *)
RtcReadReturn ==
    /\ in_rtc_read /\ interrupt_flag = 1
    /\ in_rtc_read' = FALSE /\ ret' = 0
    /\ ticked' = FALSE
    /\ UNCHANGED <<fds, rate, alive, req, got, interrupt_flag, irq_armed>>

(***************************************************************************)
(* IRQ 8, when the RTC raises it: rtc_handler sends EOI, sets             *)
(* interrupt_flag and reads register C, without which the RTC raises no   *)
(* further interrupt.                                                     *)
(***************************************************************************)
RtcHandlerNoAck ==
    /\ irq_armed
    /\ interrupt_flag' = 1 /\ irq_armed' = FALSE /\ ticked' = in_rtc_read
    /\ UNCHANGED <<fds, rate, alive, ret, req, got, in_rtc_read>>
RtcHandler ==
    /\ irq_armed
    /\ interrupt_flag' = 1 /\ irq_armed' = TRUE /\ ticked' = in_rtc_read
    /\ UNCHANGED <<fds, rate, alive, ret, req, got, in_rtc_read>>

(* rtc_write: the 4-byte frequency in buf goes to set_frequency; 0.        *)
RtcWrite(f) == rate' = SetFrequency(f) /\ req' = f /\ ret' = 0

(* terminal_read (fd 1's read): copies buf into save_buff and returns -1. *)
(* save_buff belongs to the Keyboard model; here only the result shows.   *)
TerminalRead == ret' = -1

(* terminal_write: putc of each of the n characters; returns the count,   *)
(* 0 for n <= 0.                                                           *)
TerminalWrite(n) == ret' = Max({n, 0})

(***************************************************************************)
(* read(fd, buf, n): check the descriptor and buf, then the driver's      *)
(* read.  keyboard_read's count is modelled in KernelCore and KeyboardLine;*)
(* here it is any count it can return.  terminal_read returns -1;         *)
(* rtc_read returns 0 after the next tick.                                *)
(***************************************************************************)
SysRead(fd, n, bufNull) ==
    /\ alive /\ ~in_rtc_read
    /\ IF ~CheckValidFd(fd) \/ bufNull
       THEN ret' = -1 /\ UNCHANGED <<fds, got, rtcvars>>
       ELSE CASE fds[fd].jump = "file" -> FileRead(fd, n) /\ UNCHANGED rtcvars
              [] fds[fd].jump = "dir"  -> DirRead(fd, n) /\ UNCHANGED rtcvars
              [] fds[fd].jump = "rtc"  -> RtcRead /\ UNCHANGED <<fds, got>>
              [] fds[fd].jump = "kbd"  -> /\ ret' \in 0 .. Max({n, 0}) + 1
                                          /\ UNCHANGED <<fds, got, rtcvars>>
              [] fds[fd].jump = "term" -> TerminalRead /\ UNCHANGED <<fds, got, rtcvars>>
    /\ UNCHANGED <<rate, alive, req>>

(***************************************************************************)
(* write(fd, buf, n): check, then the driver's write.  rtc_write reads a  *)
(* frequency f from buf and calls set_frequency; terminal_write prints n  *)
(* characters; the others return -1.                                      *)
(***************************************************************************)
SysWrite(fd, n, f, bufNull) ==
    /\ alive /\ ~in_rtc_read
    /\ IF ~CheckValidFd(fd) \/ bufNull
       THEN ret' = -1 /\ UNCHANGED <<rate, req>>
       ELSE CASE fds[fd].jump = "rtc"  -> RtcWrite(f)
              [] fds[fd].jump = "term" -> TerminalWrite(n) /\ UNCHANGED <<rate, req>>
              [] OTHER                 -> ret' = -1 /\ UNCHANGED <<rate, req>>
    /\ UNCHANGED <<fds, alive, got, rtcvars>>

(* halt: close_all_fd empties every slot, stdin and stdout included.      *)
CloseAllFd ==
    /\ alive /\ ~in_rtc_read
    /\ fds' = [i \in Fds |-> ClosedFd]
    /\ alive' = FALSE
    /\ UNCHANGED <<rate, ret, req, got, rtcvars>>

(* A later execute takes the PCB and runs fd_table_init.                   *)
FdTableInit ==
    /\ ~alive
    /\ fds' = InitTable
    /\ alive' = TRUE
    /\ got' = [i \in Fds |-> <<>>]
    /\ UNCHANGED <<rate, ret, req, rtcvars>>
(***************************************************************************)
(* print_freq(r) (testcases3_2.c), run by the keyboard handler: rtc_open  *)
(* resets the RTC to 2 Hz and borrows the lowest free slot of the         *)
(* foreground process's table; when it got one, rtc_write asks for        *)
(* 32768 >> r Hz and rtc_close frees the slot again, so the table ends as *)
(* it was.                                                                *)
(***************************************************************************)
PrintFreq(r) ==
    LET f == 32768 \div 2 ^ r IN
    IF GetFdIndex = -1 THEN rate' = SetFrequency(2) /\ req' = 2
    ELSE rate' = SetFrequency(f) /\ req' = f

(* Ctrl+4 in process_key: print_freq(CTR4), CTR4 counting down from 14    *)
(* to 5 and starting again.  The counter is not kept: the next press may  *)
(* print any of those rates.  The key comes as an interrupt, whatever the *)
(* process is doing, even spinning in rtc_read.                            *)
DebugRates == 5 .. 14
DebugFreqKey ==
    /\ \E r \in DebugRates : PrintFreq(r)
    /\ UNCHANGED <<fds, alive, ret, got, rtcvars>>

Next ==
    \/ \E name \in Names : SysOpen(name)
    \/ \E fd \in FdInputs : SysClose(fd)
    \/ \E fd \in FdInputs, n \in Counts, bufNull \in BOOLEAN : SysRead(fd, n, bufNull)
    \/ \E fd \in FdInputs, n \in Counts, f \in Hz, bufNull \in BOOLEAN :
          SysWrite(fd, n, f, bufNull)
    \/ CloseAllFd
    \/ FdTableInit
    \/ DebugFreqKey
    \/ RtcReadReturn
    \/ RtcHandler

(* The RTC raises IRQ 8 periodically whenever it is armed, and the spin   *)
(* loop of rtc_read runs whenever no interrupt is being handled: both are *)
(* weakly fair.  Programs get no fairness.                                *)
Spec == Init /\ [][Next]_vars /\ WF_vars(RtcHandler) /\ WF_vars(RtcReadReturn)

-----------------------------------------------------------------------------
(* The frequency the RTC interrupts at for a rate: 32768 >> (rate - 1).   *)
HardwareFrequency(r) == 2 ^ (16 - r)

TypeOK ==
    /\ fds \in [Fds -> [jump : Drivers, inode : {-1} \cup Inodes,
                         pos : 0 .. Word - 1, flags : {0, 1}]]
    /\ rate \in 6 .. 15
    /\ alive \in BOOLEAN
    /\ got \in [Fds -> Seq(Nat \cup {OutOfImage})]
    /\ interrupt_flag \in {0, 1} /\ irq_armed \in BOOLEAN /\ in_rtc_read \in BOOLEAN
    /\ ticked \in BOOLEAN

(* Slots 0 and 1 stay bound to the keyboard and the terminal for the whole *)
(* life of the process: open only takes slots from 2 on, and close of 0   *)
(* or 1 reaches keyboard_close or terminal_close, which refuse.           *)
StdStreamsBound ==
    alive => /\ fds[0].jump = "kbd" /\ fds[0].flags = 1
             /\ fds[1].jump = "term" /\ fds[1].flags = 1

(* A descriptor that stays open keeps its driver and inode, and its cursor *)
(* never moves back: open never hands out a slot in use (get_fd_index),    *)
(* and only file_read and dir_read move a cursor, forward by what they read.*)
DescriptorStable ==
    [][\A i \in Fds :
         fds[i].flags = 1 /\ fds'[i].flags = 1 =>
            /\ fds'[i].jump = fds[i].jump
            /\ fds'[i].inode = fds[i].inode
            /\ fds'[i].pos >= fds[i].pos]_vars

(* Every byte read through a file descriptor is the file's byte at that    *)
(* position, and the cursor is the count of bytes read (file_read with     *)
(* read_data and add_offset); a directory descriptor has returned the      *)
(* entries 0 .. pos - 1 in order and never goes past the last (dir_read).  *)
CursorMatchesData ==
    \A i \in Fds :
        /\ fds[i].jump = "file" =>
              /\ fds[i].pos =< InodeSize[fds[i].inode]
              /\ got[i] = SubSeq(FileContent(fds[i].inode), 1, fds[i].pos)
        /\ fds[i].jump = "dir" =>
              /\ fds[i].pos =< NumEntries
              /\ got[i] = [k \in 1 .. fds[i].pos |-> k - 1]

(* The rate set_frequency programs gives the frequency asked for when it   *)
(* is a power of two from 4 to 1024 Hz, 1024 Hz for one from 2048 to      *)
(* 32768, and the 2 Hz default for anything else.                          *)
RtcRateMatchesRequest ==
    HardwareFrequency(rate) =
        CASE req \in {Frequencies[k] : k \in 5 .. 13} -> req
          [] req \in {Frequencies[k] : k \in 0 .. 4}  -> 1024
          [] OTHER                                    -> 2

(* Section 4.5: rtc_read returns after the next RTC interrupt.  It clears *)
(* interrupt_flag and spins; the wait ends only if rtc_handler keeps the  *)
(* RTC interrupting by reading register C on every IRQ 8.                 *)
RtcReadReturns == in_rtc_read ~> ~in_rtc_read

(* Section 4.5: rtc_read returns only after an IRQ 8 that came after it   *)
(* was called.  The flag rtc_init and every earlier tick leave set must   *)
(* not release it: rtc_read clears interrupt_flag before it spins.        *)
RtcReadWaitsForTick == [][in_rtc_read /\ ~in_rtc_read' => ticked]_vars
====
