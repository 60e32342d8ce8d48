# TLA+ models of the student-distrib kernel

This directory holds TLA+ models of the small x86 kernel in `src/student-distrib`,
with the TLC configurations that check them. The kernel runs on one CPU, and its
only concurrency is interrupts:

- keyboard and RTC interrupts enter through interrupt gates, so they run with
  interrupts off;
- exceptions abort the user program that raised them;
- system calls enter through vector 0x80, a *trap* gate (`idt.c:85`,
  `reserved3 = 1`), so interrupts stay enabled while a system call runs.

Keyboard interrupts can therefore arrive in the middle of `execute` or `halt`.
The keyboard handler may call `terminal_switch`, which swaps kernel stacks.

## Inventory of the system

| part | source | state | operations | interacts with |
|---|---|---|---|---|
| process control | `syscall.c`, `syscall.h` | `in_use[8]`, `process_array[8]` (PCBs: parent_id, current_esp/ebp, return_esp/ebp, args, fd_table), `exception_flag` | `pc_init`, `execute`, `halt`, `read`/`write`/`open`/`close` dispatch, `getargs`, `vidmap` | terminals, paging, TSS, fd table, file system |
| terminals | `terminal.c`, `terminal.h` | `current_process[3]`, `curr_terminal`, `save_buff[3][128]`, video backups | `terminal_init`, `terminal_switch`, `terminal_read/write/retrieve` | keyboard, process control, paging |
| keyboard | `keyboard.c` | `kbdr_flag`, per-terminal `buffer`, `buffer_index`, caps/shift, ctrl, alt | `keyboard_handler`, `process_key`, `handle_enter`, `handle_backspace`, `keyboard_read` | terminals |
| exceptions | `exceptions.c` | sets `exception_flag` | `exception_handler` | `halt` |
| IDT | `idt.c` | gate types | `idt_init` (boot) | decides what may interrupt what |
| paging | `paging.c` | page directory entry 32 (user program page), video mappings | `add_process`, `map_virt_to_phys`, `paging_init` | execute, halt, terminal_switch |
| fd table | `fd_table.c` | 8 slots per PCB | `fd_table_init`, `set_fd_info`, `close_fd`, `close_all_fd`, `check_valid_fd`, `add_offset` | open/close/read, file system, RTC |
| file system | `filesystem.c` | read-only image (boot block, inodes, data blocks) | `read_dentry_by_name/index`, `read_data`, `file_*`, `dir_*` | execute, fd table |
| RTC | `rtc.c` | `rtc_flag`, current rate | `rtc_handler`, `set_frequency`, `rtc_open/read/write/close` | fd table |
| scheduler | `sched.c` | none | `pit_handler` sends EOI only | none |

The hard behaviours are these:

- a terminal switch can interrupt a system call, because the 0x80 gate is a trap gate;
- the kernel stacks are saved and restored through the PCB fields `current_esp` and `return_esp`;
- the process pool fills up;
- the global `kbdr_flag` and `exception_flag` latches are read by whichever
  process runs next.

## Modules

- **`KernelCore`** models execute, halt, the exception path, `terminal_switch` and
  the `kbdr_flag` hand-off.
  - Its state is the source's variables: `in_use`, `current_process`, `parent_id`,
    `current_esp`, `return_esp`, `curr_terminal`, `tss_esp0`, `exception_flag`
    and `kbdr_flag`.
  - `process_page` stands for the pid whose 4 MiB frame `add_process` installed.
  - A kernel stack pointer is modelled by the *context* whose stack it points
    into. Context 0 is started at boot. Context t is started by the first switch
    to terminal t. `running` is the context on the CPU, and `cpc[c]` is where
    context c stands:
    - `user`: the user program runs;
    - `kbd_wait`: blocked in `keyboard_read`;
    - `exec`: `execute` has been entered;
    - `enter`: `execute` has passed the magic check;
    - `none`: the context has not started.
  - `cmd`, `caller` and `slot` are execute's locals. They are reset when the
    context returns to user mode, where they are dead.
  - Ghost variables record what the code does not keep:
    - `chain`: the user programs stacked on each context;
    - `esp_valid`, `ret_valid`: which saved stack pointers were really written;
    - `line_ready`: a line was entered on a terminal since its read began;
    - `last_exit`: the status of the last halt and whether it was a fault;
    - `ub`: any undefined behaviour reached, such as indexing
      `process_array[-1]` or returning to a stack that was never saved.
  - When undefined behaviour is reached, every action is disabled.
- **Actions of `KernelCore`**, one per handler step:

  | action | models |
  |---|---|
  | `SysExecute(f)` | trap into `execute` |
  | `ExecuteLoad` | `execute` up to and including the magic check |
  | `ExecuteEnter` | the rest of `execute` |
  | `SysHalt` / `Exception` | `halt`, called by the program or by `exception_handler` |
  | `TerminalSwitch(n)` | `terminal_switch` on Alt+Fn |
  | `KeyboardRead` | `keyboard_read` starting its spin |
  | `KeyboardReadReturn` | `keyboard_read` returning |
  | `HandleEnter` | Enter key, `handle_enter` |

  `execute` is split at the magic check. This is the only point inside it where
  the model lets an interrupt in, and it is where the slot and `current_process`
  have changed but the program is not yet entered.
- **`ProcessTree`** is the abstract specification of the process core. Each
  terminal has a stack of pids.
  - `Spawn` pushes the smallest free pid.
  - `Exit` pops.
  - `Restart` replaces a halted shell.
  - `Switch` changes the foreground terminal.

  `KernelCore` maps onto it by following `parent_id` links from
  `current_process[t]` (`Ancestry`). The mapping is checked as the property
  `ProcessTreeSpec`.
- **`FileSystem`** models `read_data` (`filesystem.c`) over a boot image given as
  constants: inode sizes, each inode's data-block indices, and the data blocks.
  `ReadData(inode, offset, length)` returns the bytes copied and the return value,
  walking the blocks as the code's loop does, including the `cdb > D` test and the
  `uint32_t` sum `offset + length` (taken modulo `Word`). `FileContent` is the
  reference: the first `size` bytes of the file's blocks. `MCImage` holds a
  4-inode, 4-block image with 2-byte blocks.
- **`CommandLine`** models the string routines between a shell line and a running
  program: `parse_cmd_args`, execute's copy of the file name (refused at
  `FILE_NAME_LENGTH` characters), `create_char_count` and `read_dentry_by_name`,
  and `getargs`. C arrays are functions on `0 .. size - 1`; the loops are the
  recursive `Scan`, `Skip` and `TrimBack`. `getargs` reports undefined behaviour
  (`ub`) where its loops leave the caller's buffer.
- **`MCAlgorithms`** checks `FileSystem` and `CommandLine` against reference
  definitions written from the specification. Each state is one call: every
  `read_data(inode, offset, length)` with offset and length 0..7, and every line
  of up to three characters over "a", "b" and space for execute, lookup and
  `getargs`. For `getargs` the bytes of `pcb->args` after the copied string
  are any of NUL or "b", because `strcpy` leaves the previous owner's bytes
  there.
- **`FdTable`** (extends `FileSystem`) models one process's file-descriptor table
  and the drivers behind it: `open`, `close`, `read`, `write` as dispatched in
  `syscall.c`, `fd_table.c` (`set_fd_info`, `close_fd`, `close_all_fd`,
  `check_valid_fd`, `add_offset`, `get_fd_index`), the drivers' opens
  (`RtcOpen`, `DirOpen`, `FileOpen`, sharing `TakeSlot`: `get_fd_index` then
  `set_fd_info`), `file_read`/`dir_read`, and the
  RTC's `rtc_open`/`rtc_write`/`set_frequency`, `rtc_read` and `rtc_handler`.
  - The Ctrl+4 debug binding of `process_key` (`DebugFreqKey`) runs
    `print_freq` (`testcases3_2.c`) inside the keyboard handler, at any point
    of the program: `rtc_open` resets the RTC to 2 Hz and borrows a free slot,
    and if it got one, `rtc_write` asks for `32768 >> CTR4` Hz and `rtc_close`
    frees the slot. `CTR4` counts down from 14 to 5 and wraps; the model does
    not keep it and lets each press use any of those values, which covers
    every order the counter produces.
  - RTC interrupt: `interrupt_flag` (rtc.c), `irq_armed` (register C was read
    since the last IRQ 8, so the RTC will interrupt again) and `in_rtc_read`
    (the process spins in `rtc_read`). `RtcRead` clears the flag and enters
    the loop, `RtcReadReturn` leaves it once the flag is set, `RtcHandler` sets
    the flag and reads register C. The ghost `ticked` records that IRQ 8 was
    handled while the read was pending. While the process spins it makes no other
    system call.
  - State: `fds` (jump table, inode, position, flags per slot), `rate` (the RTC rate
    register), `alive` (the table exists: `close_all_fd` ends it).
  - Ghosts: `got` (every byte a descriptor has read), `req` (the last frequency
    written to the RTC), `ret` (the last return value).
  - Directory names are model values looked up in `Lookup`; their lengths in
    `EntryNameLen` include one 32-character name, the case `dir_read` truncates.
- **`Keyboard`** models the line discipline of `keyboard.c` and the terminal side
  of `terminal.c`: `keyboard_init`, `keyboard_handler` with `toggle_caps`,
  `toggle_shift`, `toggle_ctrl`, `toggle_alt`, `process_key`, `handle_backspace`,
  `handle_enter` (with `terminal_read` and `clear_buffer`), the switch of
  `curr_terminal` by Alt+Fn, and `keyboard_read` with `terminal_retrieve`.
  - State: the code's `caps_shift_flag[t]`, `ctrl_flag`, `alt_flag`, `buffer[t]`,
    `save_buff[t]`, `curr_terminal`, `kbdr_flag`; per terminal, whether a
    `keyboard_read` is spinning (`rd`) and its `nbytes` (`nb`).
  - Ghosts: `snap` (the line on the terminal at the last Enter seen by a waiting
    reader), `caps` (parity of Caps Lock presses per terminal), `down` (the
    modifier keys the user holds).
  - The user is modelled by `Press` and `Modifier`: any key of `Keys`, with a break
    code only for a modifier that is held. Each press runs the whole
    `keyboard_handler` as one step; the handler runs with interrupts off.
  - `keyboard_read`'s `strncmp(buf, "exit", 4)` reads bytes of the caller's buffer
    that the copy did not write when the line is shorter than four bytes; the
    model takes either outcome there (`ExitCompare` returns "unknown").
  - `MCKeyboard` gives a scan-code table over a few keys (e, x, i, t, l, space, tab,
    F1-F3) in the code's four modes.

- **`TerminalVideo`** models the three screens.
  - State: the physical page `VIDEO`, the backing frames `BACKUP_VID1..3`, and
    the user page-table entries of `VIRT_VID_TERM1..3`.
  - Operators: `VideoInit` (`paging_init`), `MapVirtToPhys`, `Memcpy`, `Putc`
    (every kernel write to the screen), `Vidmap` (its success path),
    `UserWrite` (a program's store through the vidmap page), and
    `SwitchScreens` (`terminal.c` lines 64-76, in the code's order).
  - A frame's contents are the pair <<terminal, parity of that terminal's
    last write>>, so a write that lands in the wrong frame, or is overwritten
    by a later copy, is told apart.
  - It has no Next of its own.
- **`Console`** extends `Keyboard` and instantiates `TerminalVideo`, sharing
  `curr_terminal`.
  - A key step is `Press` together with the screen work the handler does in
    the same interrupt: `SwitchScreens` when Alt+Fn switched, `Putc` when the
    key is echoed (a stored character, a backspace, Enter's scroll, the
    Ctrl+L redraw).
  - Between keys the foreground program may call `terminal_write`, call
    `vidmap`, or store through its page.
  - `MCConsole` gives it the constants of `MCKeyboard`.
- **`MCKernelCore`** instantiates `KernelCore` for TLC with three files:
  - `shell`;
  - `prog`, a valid executable;
  - `missing`, a name with no directory entry.

  Some runs add `badelf`, a regular file whose magic check fails.

## Runs

| run | expect | what it shows |
|---|---|---|
| `core` | pass | Alt+Fn is taken only in user mode or in `keyboard_read`, and executables are valid. Under those conditions the PCB pool, `current_process`, the user page and the parent chains stay consistent across execute, halt, exceptions and switches: `NoLeakedSlot`, `TerminalsDisjoint`, `RunningIsCurrent`, `PageOfRunning`, `NoUndefinedBehaviour`, and the refinement `ProcessTreeSpec`. |
| `bad_elf_leak` | violation | `execute` on a bad ELF returns -1 but keeps the reserved slot and `current_process` (`syscall.c:236`). The spec (section 7, scenario 4) says the reservation is rolled back. |
| `halt_root_race` | violation | A shell halts, which frees its slot. Alt+Fn to an unvisited terminal then arrives inside the restarting `execute`. The new shell takes the same slot, so two terminals share one process. |
| `stale_exception_latch` | violation | A shell that faults leaves `exception_flag` latched. The next normal halt returns status + 1. |
| `switch_during_load` | violation | A second Alt+Fn while a new terminal's shell is still in `execute` makes `terminal_switch` index `process_array[-1]`. |
| `algorithms` | pass | On a well-formed image, `read_data` returns exactly `min(length, size - offset)` bytes of the file from `offset` (`ReadDataMatchesContent`). execute splits a line into the name and the argument string as section 4.7 says and looks up that name (`ParseMatchesSpec`). `read_dentry_by_name` finds the first entry equal to the clamped name (`LookupMatchesSpec`). The `getargs` calls of this module are checked only by the `getargs_underflow` run. |
| `getargs_underflow` | violation | A program started with no arguments calls `getargs` with a buffer larger than 128 bytes. The trim loop turns NULs into NUL from `buf[nbytes - 1]` down, passes `buf[0]`, and reads and writes below the buffer (`syscall.c:461`). |
| `fd_table` | pass | Any sequence of open, close, read and write calls keeps fds 0 and 1 bound to the keyboard and terminal, never changes the driver or inode of an open descriptor nor moves its cursor back, makes every byte read through a descriptor the file's byte at that position (directories: the entries in order), and programs the RTC rate the table gives for the frequency written; and a process in `rtc_read` always returns (`RtcReadReturns`), because `rtc_handler` re-arms IRQ 8 by reading register C, but only after an IRQ 8 that came after the call (`RtcReadWaitsForTick`), because `rtc_read` clears the flag that `rtc_init` and earlier ticks leave set. All of this holds with Ctrl+4 pressed at any point: its borrowed slot comes back and the rate it programs is the table's. |
| `keyboard_line` | pass | On one terminal, typing with spaces, `'\0'` keys, Caps, backspace and Enter, interleaved with `keyboard_read` calls of negative, small and large `nbytes`: the line stays shorter than the buffer, and a waiting reader is always woken by Enter. |
| `console` | pass | `Keyboard` composed with `TerminalVideo` on two terminals, with all modifiers and switches, program writes, `vidmap` and stores through the vidmap page. Each terminal's Caps state follows the Caps Lock presses made on it (`CapsParity`). Every terminal's screen holds that terminal's latest write, whether it is on the display or saved in its backing frame (`ScreensKept`). That is section 8's round trip, extended to writes through `vidmap`. |
| `kbd_alt_sticks` | violation | There is no case for the Alt break code, so after one Alt press a bare F2 switches terminals. |
| `kbd_lost_wakeup` | violation | Enter on terminal 0, a switch to terminal 1 and a read there clear the global `kbdr_flag`; the reader on terminal 0 then spins forever on a line that was entered. |

Other disagreements met while modelling, recorded as hazards in `PROJECT.json`
without a run of their own:

- Enter on terminal B releases a `keyboard_read` spinning on terminal A, which
  returns A's old `save_buff` (the other face of the global `kbdr_flag`).
- A second Enter before a released reader runs overwrites `save_buff`, so the
  first line is lost; spec section 5 says the snapshot is fixed at Enter.
- `strncmp(buf, "exit", 4)` drops the line feed for any line beginning with exit.
- An inode whose block index equals D passes `read_data`'s `cdb > D` test
  (`filesystem.c:492`), and bytes past the last data block are copied.
- `rtc_write` of 1 Hz programs 2 Hz (rate 15), not the 4 Hz floor of spec
  section 8 scenario 6.
- Ctrl+1 with all six descriptor slots of the foreground program open hangs
  the kernel in the keyboard handler with interrupts off (`filesystem.c:71`).
- `halt` sets `tss.esp0` to the parent's saved `current_esp` rather than the top
  of its kernel stack, so the parent's later traps build frames below
  execute's frame. The model does not track stack depth, so whether many
  execute/halt rounds overrun the 8 kB kernel stack is not checked.
- `keyboard_read` stores the line feed at `buf[nbytes]` and returns
  `nbytes + 1` when a line fills `nbytes`, where `read()`'s header
  (`syscall.c:310-312`) promises as much as fits in the buffer.
- `getargs` fails for every `nbytes <= 128`, where its header
  (`syscall.c:435`) says it fails only when the arguments do not fit.
- `getargs`'s trailing-space trim stops at the first stale byte that an
  earlier process left after the NUL in `pcb->args`, so trailing spaces can
  survive, against the comment at `syscall.c:458-459`.

These last three are not given violation runs: the project keeps at most
twelve runs, and the slots go to the disagreements listed first.

Every property of a passing run has a mutant in `PROJECT.json`: a one-line
change of the code that TLC shows breaks the property, for example:

- the slot scan's full test off by one;
- halt forgetting to free a slot or to move to the parent;
- `terminal_switch` skipping `add_process`;
- `execute` reading the parent after overwriting `current_process`;
- `read_data` copying whole final blocks; `parse_cmd_args` not skipping spaces;
  `read_dentry_by_name` not clamping the name; `add_offset` adding twice;
- `set_frequency` without its clamp or without its `+1`;
- `process_key` filling the last buffer byte; `handle_enter` not raising `kbdr_flag`; `toggle_caps` not
  toggling.

## Bounds

- **`MaxTerminal = 3`** in the core run: this is `MAX_TERMINAL`. The keyboard runs
  use 1 terminal (`keyboard_line`) or 2 (`console` and the cross-terminal
  violations); two is the least that shows a global flag shared by terminals.
- **`MaxProcesses = 4`**, where the code has `MAX_PROCESSES = 8`.
  - Slots 0–2 belong to the shells and slot 3 is the only free slot, so the pool
    fills after a single child.
  - The full-pool path and the slot reuse after a halt or a failed execute both
    happen. A higher bound adds only deeper chains of the same shape.
  - A one-off check of the `core` cfg with `MaxProcesses = 5` also found no
    violation. It reached 6,479,524 distinct states in about 13 minutes, which
    is too slow for a standing run.
- **`Statuses = {0}`**: an ordinary halt status. An exception supplies 255.
- **Command lines**: `TERM_BUFF_SIZE = 4` (128) and `MAX_NAME_CHARACTERS =
  FILE_NAME_LENGTH = 2` (both 32 in the code). Lines of up to three characters
  include a full-length name, a name one character too long, leading, inner and
  trailing spaces, and the empty line. `nbytes` from -1 to 6 covers the negative,
  zero, too small, exact and larger buffers. Four directory entries cover a
  duplicate name (first match wins), a full-length name without NUL, and an
  unused entry.
- **File system**: blocks of 2 bytes (4096 in the code) and a word of 16
  (`2^32`). Files of 0, 3, 4 and 5 bytes cover the empty file, a partial last
  block, an exact block multiple and a file over three blocks; offsets and lengths
  0..7 go past every file, and the 16-wide word makes `offset + length` wrap for
  the fd-table's position arithmetic.
- **Fd table**: `MaxOpenFiles = 4` (8 in the code): slots 2 and 3 can be opened,
  so "table full" is reached after two opens. Fd arguments -1..4 include both
  out-of-range sides. Frequencies {1, 2, 3, 4, 1024, 2048} cover below the table,
  the table's ends, a non-power of two and the clamp.
- **Keyboard**: `BufferSize = 3` in `keyboard_line` (128 in the code), so the
  full-buffer path is reached after two characters; `nbytes` in {-1, 1, 3} covers
  negative, shorter than and equal to the line. `console` uses
  `BufferSize = 1`, since it is about modes and screens, not text; two
  terminals and four frames are enough for a write, a `vidmap`, a switch away
  and back, and a write through a page that a switch has remapped. The exit run uses a
  buffer of 6 so that "exite" fits.

The core run reaches 217,276 distinct states, `fd_table` 74,608, and `console` 1,048,512.

## Fairness

- A user at the keyboard is not fair: Enter and Alt+Fn may never come. No
  fairness is assumed for `Press`, `Modifier`, `KeyboardRead` or any system call.
- `Keyboard` assumes weak fairness of `KeyboardReadReturn`: a `keyboard_read`
  whose flag is set leaves its loop. The loop spins with interrupts enabled and
  the keyboard handler runs only when a key is pressed, so if the flag stays set
  the loop runs and sees it. This is `Keyboard`'s liveness property
  (`EnterWakesReader`), and it is stated with "or the user switched away", since
  then the reader's context does not run at all.
- `FdTable` assumes weak fairness of `RtcHandler` and `RtcReadReturn`. The RTC
  raises IRQ 8 periodically while armed, and IRQ 8 is not masked during system
  calls (the 0x80 gate is a trap gate); the spin loop of `rtc_read` runs
  whenever no interrupt is being handled, and `interrupt_flag` is `volatile`,
  so the loop re-reads it. Under this, `RtcReadReturns` says the wait ends.
- The scheduler is a stub (`sched.c` `pit_handler` only sends EOI), so the
  kernel gives no progress guarantee between terminals.

`HandleEnter` and `Press` are always enabled, because a key can always be
pressed, so every run checks deadlock and none is reported.

## Not modelled yet (plan)

1. `vidmap`'s range check (`syscall.c:501`): a pointer in the last three bytes
   of the user page passes, and the 4-byte store crosses the page end. This
   needs byte addresses, which `TerminalVideo` abstracts away.
2. Composing `TerminalVideo` with `KernelCore`, so that programs that halt,
   or are frozen in another terminal, are tracked with their vidmap pages.
   On its own the product is too large for TLC.
3. `terminal_write`'s cursor arithmetic, which lives in `lib.c`, a file the
   repository does not contain.

The following are not modelled:

- `idt_init`, the PIC, `enablePaging` and `flush_tlb` run once at boot or
  only load control registers. The kernel's identity entries that
  `paging_init` writes never change afterwards.
- The scheduler stub has no behaviour.
- `cmd_args[curr_terminal]`, written by `parse_cmd_args` and copied into the
  PCB at `syscall.c:229`, needs no argument state in `KernelCore`: an
  `execute` interrupted by Alt+Fn between the two resumes only when a switch
  back to its terminal has restored `curr_terminal`, and a shell started on
  the first visit of another terminal writes that terminal's entry.
- `testcases3_2.c` is reached from the Ctrl+1/3/4 bindings of `process_key`.
  `Keyboard` leaves them out, since they touch no keyboard state. Their effects
  on the rest of the kernel differ:
  - Ctrl+4 reprograms the RTC and is modelled in `FdTable`.
  - Ctrl+3 (`test_file_data`) borrows a descriptor slot, reads a file and frees
    the slot, so it leaves no state behind.
  - Ctrl+1 (`print_file_info`) is not modelled. With a free slot it leaves
    nothing behind. With the table full it never returns: `dir_open` fails,
    and `dir_read(-1)` reads `fd_table[-1]` (the last bytes of `pcb->args`)
    as a cursor that `add_offset(-1)` never moves. This is recorded as a
    hazard at `filesystem.c:71`.
- The time-of-day helpers after `rtc_close` (`get_update_flag` to
  `print_time`) are never called; their only caller is commented out in
  `rtc_handler`.
