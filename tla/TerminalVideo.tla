---------------------------- MODULE TerminalVideo ----------------------------
(***************************************************************************)
(* The screens of the three terminals: the physical text page at VIDEO,   *)
(* the three 4 KiB backing frames BACKUP_VID1..3, and the user page table *)
(* entries for the virtual pages VIRT_VID_TERM1..3 (paging.c paging_init   *)
(* and map_virt_to_phys, syscall.c vidmap, and the screen save and        *)
(* restore of terminal.c terminal_switch).  A frame's contents are        *)
(* abstracted to whose screen they are and which of that screen's writes  *)
(* they hold last: <<t, v>>, where v is the parity of terminal t's writes *)
(* and -1 stands for what the frame held at boot.                         *)
(*                                                                         *)
(* The module has no Next of its own: Console conjoins its operators with *)
(* the keyboard handler that calls them.                                  *)
(***************************************************************************)
EXTENDS Integers

CONSTANT MaxTerminal

VARIABLES
    curr_terminal,  \* curr_terminal (lib.h), the foreground terminal
    page_table,     \* user_page_table entry of VIRT_VID_TERM1 + t * 4 KiB: a frame
    frame,          \* contents of each physical frame
    has_vidmap,     \* a program of terminal t was given VIRT_VID_TERM(t) by vidmap
    ver             \* ghost: parity of the last write made to terminal t's screen

video == <<page_table, frame, has_vidmap, ver>>

Terms  == 0 .. MaxTerminal - 1
Video  == -1                        \* the physical page VIDEO (0xB8000)
Frames == {Video} \cup Terms        \* VIDEO and BACKUP_VID1 + t * 4 KiB

(***************************************************************************)
(* paging_init: the video page is mapped for the kernel and each          *)
(* VIRT_VID_TERM page to its terminal's backing frame.  Terminal 0 runs   *)
(* the boot shell on the screen.                                          *)
(***************************************************************************)
VideoInit ==
    /\ page_table = [t \in Terms |-> t]
    /\ frame = [f \in Frames |-> <<IF f = Video THEN 0 ELSE f, -1>>]
    /\ has_vidmap = [t \in Terms |-> FALSE]
    /\ ver = [t \in Terms |-> -1]

(* map_virt_to_phys(VIRT_VID_TERM1 + t * 4 KiB, f): one page table entry. *)
MapVirtToPhys(pt, t, f) == [pt EXCEPT ![t] = f]

(* memcpy of 4 KiB from frame src to frame dst.                           *)
Memcpy(fr, dst, src) == [fr EXCEPT ![dst] = fr[src]]

(* A write to terminal t's screen that lands in frame f: the next of t's  *)
(* writes.                                                                *)
Bump(v) == IF v = 1 THEN 0 ELSE 1
WriteTo(f, t) ==
    /\ ver' = [ver EXCEPT ![t] = Bump(@)]
    /\ frame' = [frame EXCEPT ![f] = <<t, Bump(ver[t])>>]

(***************************************************************************)
(* putc, printf, clear, scroll and backspace (terminal_write and the      *)
(* keyboard echo) write the physical page through the kernel's own        *)
(* mapping; the only screen written that way is the foreground one.       *)
(***************************************************************************)
Putc ==
    /\ WriteTo(Video, curr_terminal)
    /\ UNCHANGED <<page_table, has_vidmap>>

(***************************************************************************)
(* vidmap(screen_start) with screen_start inside the program page: store   *)
(* VIRT_VID_TERM of curr_terminal and map it to VIDEO.  A NULL or          *)
(* out-of-range pointer returns -1 and changes nothing.                    *)
(***************************************************************************)
VirtVidTerm(t) == t
Vidmap ==
    /\ has_vidmap' = [has_vidmap EXCEPT ![curr_terminal] = TRUE]
    /\ page_table' = MapVirtToPhys(page_table, VirtVidTerm(curr_terminal), Video)
    /\ UNCHANGED <<frame, ver>>

(* The running program stores through the address vidmap gave it; the    *)
(* MMU sends the write to the frame the page table names.                 *)
UserWrite ==
    /\ has_vidmap[curr_terminal]
    /\ WriteTo(page_table[VirtVidTerm(curr_terminal)], curr_terminal)
    /\ UNCHANGED <<page_table, has_vidmap>>

(***************************************************************************)
(* terminal_switch(n), lines 64-76: the outgoing terminal's virtual page  *)
(* is mapped back to its frame, the screen is copied through it into that *)
(* frame, the incoming terminal's frame is copied through its virtual     *)
(* page onto the screen, and that page is mapped to VIDEO.               *)
(***************************************************************************)
SwitchScreensCopyFirst(n) ==
    LET old == curr_terminal
        f1  == Memcpy(frame, page_table[old], Video)
        pt1 == MapVirtToPhys(page_table, old, old)
    IN /\ frame' = Memcpy(f1, Video, pt1[n])
       /\ page_table' = MapVirtToPhys(pt1, n, Video)
SwitchScreens(n) ==
    LET old == curr_terminal
        pt1 == MapVirtToPhys(page_table, old, old)
        f1  == Memcpy(frame, pt1[old], Video)
    IN /\ frame' = Memcpy(f1, Video, pt1[n])
       /\ page_table' = MapVirtToPhys(pt1, n, Video)

-----------------------------------------------------------------------------
(* The frame that shows terminal t: VIDEO in the foreground, else its own. *)
Shown(t) == IF t = curr_terminal THEN Video ELSE t

VideoTypeOK ==
    /\ curr_terminal \in Terms
    /\ page_table \in [Terms -> Frames]
    /\ frame \in [Frames -> Terms \X {-1, 0, 1}]
    /\ has_vidmap \in [Terms -> BOOLEAN]
    /\ ver \in [Terms -> {-1, 0, 1}]

(* Section 8: every terminal's screen, on the display or saved in its     *)
(* backing frame, holds that terminal's latest write, whatever Alt+Fn     *)
(* switches, vidmap calls and writes through the vidmap page came in      *)
(* between: no write is lost to a frame that is later overwritten, and no *)
(* terminal's write shows on another's screen (terminal_switch's remap    *)
(* and copy order, vidmap's mapping).                                     *)
ScreensKept ==
    \A t \in Terms : frame[Shown(t)] = <<t, ver[t]>>
====
