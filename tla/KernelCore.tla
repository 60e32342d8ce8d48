----------------------------- MODULE KernelCore -----------------------------
(***************************************************************************)
(* The process-control core of the kernel in src/student-distrib:         *)
(* execute and halt (syscall.c), the exception latch (exceptions.c), the  *)
(* Alt+Fn terminal switch (terminal.c), the user-program page and TSS     *)
(* (paging.c add_process, tss.esp0) and the line hand-off between the     *)
(* keyboard interrupt and keyboard_read (keyboard.c).                     *)
(*                                                                         *)
(* One CPU runs one kernel context at a time.  A context is a kernel      *)
(* stack with the user program on top of it: context 0 is started at      *)
(* boot, context t > 0 by the first switch to terminal t.  A context that *)
(* is switched away from is frozen until a switch restores the stack      *)
(* pointer saved in a PCB (return_esp).  Stack pointers are modelled by   *)
(* the context whose stack they point into.                                *)
(***************************************************************************)
EXTENDS Integers, Sequences, SequencesExt, FiniteSets

CONSTANTS
    MaxTerminal,    \* MAX_TERMINAL (lib.h)
    MaxProcesses,   \* MAX_PROCESSES (syscall.h)
    Files,          \* names a command may give to execute
    FileType,       \* dentry file_type per name; -1 when the lookup fails
    MagicOk,        \* possible outcomes of the ELF magic check per name
    Shell,          \* the name "shell"
    Statuses,       \* halt(status) arguments used by user programs
    SwitchInKernel  \* may Alt+Fn arrive while a system call is in progress?

Terms == 0 .. MaxTerminal - 1
Pids  == 0 .. MaxProcesses - 1
Ctxs  == Terms

ASSUME /\ MaxTerminal = 3 /\ MaxProcesses >= 4
       /\ Shell \in Files /\ FileType \in [Files -> {-1, 0, 1, 2}]
       /\ MagicOk \in [Files -> SUBSET BOOLEAN \ {{}}]
       /\ FileType[Shell] = 2 /\ MagicOk[Shell] = {TRUE}
       /\ Statuses \subseteq 0 .. 255 /\ SwitchInKernel \in BOOLEAN

NoCtx == -1             \* a saved stack pointer that was never written
Boot  == -2             \* the boot stack that ran the first execute

VARIABLES
    in_use,           \* in_use[MAX_PROCESSES] (syscall.h)
    current_process,  \* current_process[MAX_TERMINAL] (terminal.h)
    parent_id,        \* pcb->parent_id
    current_esp,      \* pcb->current_esp: stack holding this pid's execute frame
    return_esp,       \* pcb->return_esp: stack saved when its terminal was left
    curr_terminal,    \* curr_terminal (lib.h), the foreground terminal
    process_page,     \* pid mapped at page_directory[PROCESS_IDX]
    tss_esp0,         \* tss.esp0: <<"top", p>> or <<"pcb_esp", p>>
    exception_flag,   \* latched by exception_handler, read by halt
    kbdr_flag,        \* keyboard.c kbdr_flag, one flag for all terminals
    running,          \* the context on the CPU
    cpc,              \* per-context control point
    cmd,              \* per-context local: the file execute was called on
    caller,           \* per-context local: "user" or "kernel" called execute
    slot,             \* per-context local: i, the PCB slot execute reserved
    chain,            \* ghost: pids whose user programs this context stacks
    esp_valid,        \* ghost: pids whose current_esp was written by execute
    ret_valid,        \* ghost: pids whose return_esp holds a live context
    last_exit,        \* ghost: what the last halt returned to a parent
    ub                \* ghost: kinds of undefined behaviour reached

vars == <<in_use, current_process, parent_id, current_esp, return_esp,
          curr_terminal, process_page, tss_esp0, exception_flag, kbdr_flag,
          running, cpc, cmd, caller, slot, chain, esp_valid, ret_valid,
          last_exit, ub>>

ControlPoints == {"none", "user", "kbd_wait", "exec", "enter"}
UserPoints    == {"user", "kbd_wait"}

Top(p) == <<"top", p>>     \* K_STACK_BOTTOM - PROCESS_SIZE * p - 4

(* The index the slot scan of execute stops at: the lowest free slot, or  *)
(* MAX_PROCESSES when every slot is in use.                               *)
FreeSlots == {i \in Pids : in_use[i] = 0}
PoolScan == IF FreeSlots = {} THEN MaxProcesses ELSE Min(FreeSlots)

(* The scan marks the slot it stops at in use.                           *)
ReserveUnmarked(i) == UNCHANGED in_use
Reserve(i) == in_use' = [in_use EXCEPT ![i] = 1]

(* The test after the scan that every slot is taken.                      *)
PoolExhaustedOffByOne(i) == i > MaxProcesses
PoolExhausted(i) == i >= MaxProcesses

(* The parent execute records: none for the three shells, otherwise the  *)
(* terminal's current process, read before it is overwritten.             *)
ParentForSelf(i, t) == IF i < 3 THEN -1 ELSE i
ParentFor(i, t) == IF i < 3 THEN -1 ELSE current_process[t]

(* halt marks the halting process's slot free.                            *)
FreeSlotKept(p) == UNCHANGED in_use
FreeSlot(p) == in_use' = [in_use EXCEPT ![p] = 0]

(* The process halt makes current: the halting process's parent.          *)
ReturnTargetStale(p) == p
ReturnTarget(p) == parent_id[p]

(* The exception flag halt adds to the status; exception_handler sets it  *)
(* just before calling halt(255).                                         *)
LatchedFlag(fault) == IF fault THEN 1 ELSE exception_flag

(***************************************************************************)
(* State after pc_init, terminal_init (slots 1 and 2 held for the shells  *)
(* of terminals 1 and 2) and the boot-time execute("shell"), which takes  *)
(* slot 0 on terminal 0 and enters user mode from the boot stack.          *)
(***************************************************************************)
(* terminal_init: slot 0 left for the boot shell, slots 1 and 2 held for *)
(* the shells of terminals 1 and 2.                                        *)
TerminalInitInUse == [i \in Pids |-> IF i \in {1, 2} THEN 1 ELSE 0]

Init ==
    /\ in_use = [TerminalInitInUse EXCEPT ![0] = 1]      \* the boot execute takes slot 0
    /\ current_process = [t \in Terms |-> IF t = 0 THEN 0 ELSE -1]
    /\ parent_id = [i \in Pids |-> -1]
    /\ current_esp = [i \in Pids |-> IF i = 0 THEN Boot ELSE NoCtx]
    /\ return_esp = [i \in Pids |-> NoCtx]
    /\ curr_terminal = 0
    /\ process_page = 0
    /\ tss_esp0 = Top(0)
    /\ exception_flag = 0
    /\ kbdr_flag = 0
    /\ running = 0
    /\ cpc = [c \in Ctxs |-> IF c = 0 THEN "user" ELSE "none"]
    /\ cmd = [c \in Ctxs |-> Shell]
    /\ caller = [c \in Ctxs |-> "kernel"]
    /\ slot = [c \in Ctxs |-> 0]
    /\ chain = [c \in Ctxs |-> IF c = 0 THEN <<0>> ELSE <<>>]
    /\ esp_valid = {0}
    /\ ret_valid = {}
    /\ last_exit = [got |-> 0, status |-> 0, fault |-> FALSE]
    /\ ub = {}

(* Context c is on the CPU at control point pt and nothing has gone       *)
(* undefined.                                                             *)
At(c, pt) == /\ ub = {} /\ running = c /\ cpc[c] = pt

(* execute returns -1 to whoever called it.  Only a user caller can take  *)
(* the value; the kernel callers (boot, terminal_switch, halt) assume the *)
(* shell always starts.  Back in user mode the locals of execute are dead *)
(* and are reset, so that states differing only in them are not told     *)
(* apart.                                                                 *)
ClearLocals(c) ==
    /\ cmd' = [cmd EXCEPT ![c] = Shell]
    /\ caller' = [caller EXCEPT ![c] = "kernel"]
    /\ slot' = [slot EXCEPT ![c] = 0]

ReturnFailure(c) ==
    IF caller[c] = "user"
    THEN /\ cpc' = [cpc EXCEPT ![c] = "user"] /\ ClearLocals(c)
         /\ UNCHANGED ub
    ELSE /\ ub' = ub \cup {"kernel_execute_failed"}
         /\ UNCHANGED <<cpc, cmd, caller, slot>>

(***************************************************************************)
(* A user program traps into execute(comm) (syscall.c execute, entry).    *)
(***************************************************************************)
SysExecute(f) ==
    /\ At(running, "user")
    /\ cpc' = [cpc EXCEPT ![running] = "exec"]
    /\ cmd' = [cmd EXCEPT ![running] = f]
    /\ caller' = [caller EXCEPT ![running] = "user"]
    /\ UNCHANGED <<in_use, current_process, parent_id, current_esp, return_esp,
                   curr_terminal, process_page, tss_esp0, exception_flag,
                   kbdr_flag, running, slot, chain, esp_valid, ret_valid,
                   last_exit, ub>>

(***************************************************************************)
(* execute up to the magic check: look the name up, reserve the lowest    *)
(* free slot, fill the PCB (parent -1 for slots below 3), make it the     *)
(* terminal's current process, then test the ELF magic.  A failed magic   *)
(* check returns -1 with the slot still reserved and current_process     *)
(* still naming it.  read_data of the 28-byte header cannot fail for a    *)
(* regular file of a well-formed image; for an empty file it reads       *)
(* nothing and the check runs on uninitialised stack bytes (MagicOk).     *)
(***************************************************************************)
ExecuteLoad ==
    LET c == running
        t == curr_terminal
        f == cmd[c]
    IN
    /\ At(c, "exec")
    /\ IF FileType[f] # 2 \/ PoolExhausted(PoolScan)
       THEN /\ ReturnFailure(c)
            /\ UNCHANGED <<in_use, current_process, parent_id,
                           esp_valid, ret_valid>>
       ELSE LET i == PoolScan IN
            /\ Reserve(i)
            /\ parent_id' = [parent_id EXCEPT
                               ![i] = ParentFor(i, t)]
            /\ current_process' = [current_process EXCEPT ![t] = i]
            /\ esp_valid' = esp_valid \ {i}
            /\ ret_valid' = ret_valid \ {i}
            /\ \E ok \in MagicOk[f] :
                   IF ok THEN /\ cpc' = [cpc EXCEPT ![c] = "enter"]
                              /\ slot' = [slot EXCEPT ![c] = i]
                              /\ UNCHANGED <<cmd, caller, ub>>
                         ELSE ReturnFailure(c)
    /\ UNCHANGED <<current_esp, return_esp, curr_terminal, process_page,
                   tss_esp0, exception_flag, kbdr_flag, running,
                   chain, last_exit>>

(***************************************************************************)
(* The rest of execute: add_process(i), load the image, point tss.esp0 at *)
(* the top of the current process's kernel stack, save esp into its PCB  *)
(* and iret to user mode in the new program.                              *)
(***************************************************************************)
ExecuteEnter ==
    LET c == running
        p == current_process[curr_terminal]
    IN
    /\ At(c, "enter")
    /\ IF p \notin Pids
       THEN /\ ub' = ub \cup {"pcb_minus_one"}
            /\ UNCHANGED <<process_page, tss_esp0, current_esp, esp_valid,
                           chain, cpc, cmd, caller, slot>>
       ELSE /\ process_page' = slot[c]
            /\ tss_esp0' = Top(p)
            /\ current_esp' = [current_esp EXCEPT ![p] = c]
            /\ esp_valid' = esp_valid \cup {p}
            /\ chain' = [chain EXCEPT ![c] = Append(@, slot[c])]
            /\ cpc' = [cpc EXCEPT ![c] = "user"]
            /\ ClearLocals(c)
            /\ UNCHANGED ub
    /\ UNCHANGED <<in_use, current_process, parent_id, return_esp,
                   curr_terminal, exception_flag, kbdr_flag, running,
                   ret_valid, last_exit>>

(***************************************************************************)
(* halt(status) of the current process of the foreground terminal.  A     *)
(* process in slot 0..2 frees its slot and calls execute("shell") in      *)
(* place; the exception latch is left as it is.  Any other process        *)
(* returns (status & 0xFF) + exception_flag to the execute frame whose    *)
(* stack its PCB saved, after freeing its slot, making its parent         *)
(* current, mapping the parent's page and setting tss.esp0 to the        *)
(* parent's saved current_esp.  fault says halt(255) came from            *)
(* exception_handler, which sets exception_flag first.                    *)
(***************************************************************************)
HaltWith(s, fault) ==
    LET c    == running
        t    == curr_terminal
        p    == current_process[t]
        par  == ReturnTarget(p)
        r    == current_esp[p]
        flag == LatchedFlag(fault)
    IN
    /\ At(c, "user")
    /\ p \in Pids
    /\ IF p < 3
       THEN /\ FreeSlot(p)
            /\ exception_flag' = flag
            /\ cpc' = [cpc EXCEPT ![c] = "exec"]
            /\ cmd' = [cmd EXCEPT ![c] = Shell]
            /\ caller' = [caller EXCEPT ![c] = "kernel"]
            /\ chain' = [chain EXCEPT ![c] = <<>>]
            /\ UNCHANGED <<current_process, process_page, tss_esp0, running,
                           last_exit, ub>>
       ELSE IF p \notin esp_valid \/ r # c \/ par = -1
       THEN /\ ub' = ub \cup {"halt_to_stale_frame"}
            /\ exception_flag' = flag
            /\ UNCHANGED <<in_use, current_process, process_page, tss_esp0,
                           running, cpc, cmd, caller, chain, last_exit>>
       ELSE /\ exception_flag' = 0
            /\ FreeSlot(p)
            /\ current_process' = [current_process EXCEPT ![t] = par]
            /\ process_page' = par
            /\ tss_esp0' = <<"pcb_esp", par>>
            /\ chain' = [chain EXCEPT ![c] = Front(@)]
            /\ last_exit' = [got |-> s + flag, status |-> s, fault |-> fault]
            /\ UNCHANGED <<running, cpc, cmd, caller, ub>>
    /\ UNCHANGED <<parent_id, current_esp, return_esp, curr_terminal,
                   kbdr_flag, slot, esp_valid, ret_valid>>

SysHalt == \E s \in Statuses : HaltWith(s, FALSE)

(* exception_handler: print, set exception_flag, halt(255).               *)
Exception == HaltWith(255, TRUE)

(***************************************************************************)
(* terminal_switch(n), called by the keyboard handler on Alt+F1..F3 with  *)
(* interrupts off.  The stack of the interrupted context is saved in the  *)
(* PCB of the outgoing terminal's current process.  A terminal with no    *)
(* process yet gets its held slot freed and a new context that runs       *)
(* execute("shell"); otherwise the incoming current process's page and    *)
(* kernel stack top are installed and the stack saved in its PCB resumes. *)
(* The screen copy and video remapping of lines 67-76 are modelled in     *)
(* TerminalVideo.  Keyboard interrupts reach a context in user mode or    *)
(* spinning in keyboard_read, and also inside a system call when          *)
(* SwitchInKernel holds (the 0x80 gate is a trap gate).                   *)
(***************************************************************************)
(* The first visit to terminal n frees the slot terminal_init held for   *)
(* its shell, just before execute("shell").                               *)
ReleaseHeldSlotKept(n) == UNCHANGED in_use
ReleaseHeldSlot(n) == in_use' = [in_use EXCEPT ![n] = 0]

(* Resuming terminal n's current process q: map its program page and     *)
(* point tss.esp0 at the top of its kernel stack.                         *)
InstallProcessNoPage(q) == tss_esp0' = Top(q) /\ UNCHANGED process_page
InstallProcess(q) == process_page' = q /\ tss_esp0' = Top(q)

Interruptible ==
    IF SwitchInKernel THEN ControlPoints \ {"none"} ELSE UserPoints

TerminalSwitch(n) ==
    LET c   == running
        old == curr_terminal
        p   == current_process[old]
        q   == current_process[n]
    IN
    /\ ub = {}
    /\ cpc[c] \in Interruptible
    /\ n # old
    /\ curr_terminal' = n
    /\ IF p \notin Pids \/ (q = -1 /\ cpc[n] # "none")
                        \/ (q # -1 /\ q \notin ret_valid \cup {p})
       THEN /\ ub' = ub \cup {"switch_through_bad_pcb"}
            /\ UNCHANGED <<in_use, return_esp, ret_valid, process_page,
                           tss_esp0, running, cpc, cmd, caller>>
       ELSE /\ return_esp' = [return_esp EXCEPT ![p] = c]
            /\ ret_valid' = ret_valid \cup {p}
            /\ IF q = -1
               THEN /\ ReleaseHeldSlot(n)
                    /\ running' = n
                    /\ cpc' = [cpc EXCEPT ![n] = "exec"]
                    /\ cmd' = [cmd EXCEPT ![n] = Shell]
                    /\ caller' = [caller EXCEPT ![n] = "kernel"]
                    /\ UNCHANGED <<process_page, tss_esp0>>
               ELSE /\ InstallProcess(q)
                    /\ running' = return_esp'[q]
                    /\ UNCHANGED <<in_use, cpc, cmd, caller>>
            /\ UNCHANGED ub
    /\ UNCHANGED <<current_process, parent_id, current_esp, exception_flag,
                   kbdr_flag, slot, chain, esp_valid, last_exit>>

(***************************************************************************)
(* read(0, buf, n) on stdin: the fd checks pass (fd 0 is always open) and *)
(* keyboard_read clears kbdr_flag, then spins until it is set.            *)
(***************************************************************************)
KeyboardRead ==
    /\ At(running, "user")
    /\ kbdr_flag' = 0
    /\ cpc' = [cpc EXCEPT ![running] = "kbd_wait"]
    /\ UNCHANGED <<in_use, current_process, parent_id, current_esp, return_esp,
                   curr_terminal, process_page, tss_esp0, exception_flag,
                   running, cmd, caller, slot, chain, esp_valid, ret_valid,
                   last_exit, ub>>

(* The spin of keyboard_read sees kbdr_flag = 1 and takes the line saved  *)
(* for curr_terminal (terminal_retrieve).                                 *)
KeyboardReadReturn ==
    /\ At(running, "kbd_wait")
    /\ kbdr_flag = 1
    /\ cpc' = [cpc EXCEPT ![running] = "user"]
    /\ UNCHANGED <<in_use, current_process, parent_id, current_esp, return_esp,
                   curr_terminal, process_page, tss_esp0, exception_flag,
                   kbdr_flag, running, cmd, caller, slot, chain, esp_valid,
                   ret_valid, last_exit, ub>>

(* Enter on the foreground terminal: handle_enter sets kbdr_flag and     *)
(* saves the line of curr_terminal (terminal_read).                       *)
HandleEnter ==
    /\ ub = {}
    /\ kbdr_flag' = 1
    /\ UNCHANGED <<in_use, current_process, parent_id, current_esp, return_esp,
                   curr_terminal, process_page, tss_esp0, exception_flag,
                   running, cpc, cmd, caller, slot, chain, esp_valid,
                   ret_valid, last_exit, ub>>

Next ==
    \/ \E f \in Files : SysExecute(f)
    \/ ExecuteLoad
    \/ ExecuteEnter
    \/ SysHalt
    \/ Exception
    \/ \E n \in Terms : TerminalSwitch(n)
    \/ KeyboardRead
    \/ KeyboardReadReturn
    \/ HandleEnter

Spec == Init /\ [][Next]_vars

-----------------------------------------------------------------------------
(* The user program the running context has on top, if it is in user    *)
(* mode or blocked in keyboard_read.                                      *)
InUser == ub = {} /\ cpc[running] \in UserPoints
RunningPid == Last(chain[running])

TypeOK ==
    /\ in_use \in [Pids -> {0, 1}]
    /\ current_process \in [Terms -> Pids \cup {-1}]
    /\ parent_id \in [Pids -> Pids \cup {-1}]
    /\ current_esp \in [Pids -> Ctxs \cup {NoCtx, Boot}]
    /\ return_esp \in [Pids -> Ctxs \cup {NoCtx}]
    /\ curr_terminal \in Terms
    /\ process_page \in Pids \cup {-1}
    /\ tss_esp0 \in {"top", "pcb_esp"} \X (Pids \cup {-1})
    /\ exception_flag \in {0, 1}
    /\ kbdr_flag \in {0, 1}
    /\ running \in Ctxs
    /\ cpc \in [Ctxs -> ControlPoints]
    /\ chain \in [Ctxs -> Seq(Pids)]
    /\ ub = {} => \A c \in Ctxs : Len(chain[c]) =< MaxProcesses

(* While a user program runs, the kernel's idea of the foreground         *)
(* terminal's current process (used by every system call and by halt) is *)
(* the program that actually runs.                                        *)
RunningIsCurrent ==
    InUser => /\ chain[running] # <<>>
              /\ current_process[curr_terminal] = RunningPid

(* While a user program runs, the 128 MiB user page maps that program's   *)
(* own 4 MiB frame (add_process in execute, halt and terminal_switch).    *)
PageOfRunning ==
    InUser => process_page = RunningPid

(* A PCB slot is in use exactly when a live program occupies it, execute  *)
(* has reserved it and not yet entered it, or terminal_init holds it for  *)
(* a terminal whose shell has not started.                                *)
LivePids ==
    UNION {Range(chain[c]) : c \in Ctxs}
        \cup {slot[c] : c \in {d \in Ctxs : cpc[d] = "enter"}}
HeldSlots == {t \in Terms \ {0} : cpc[t] = "none"}

NoLeakedSlot ==
    ub = {} => \A i \in Pids : in_use[i] = 1 <=> i \in LivePids \cup HeldSlots

(* No two terminals claim the same process as their current one.         *)
TerminalsDisjoint ==
    \A t, u \in Terms :
        t # u /\ current_process[t] # -1 => current_process[t] # current_process[u]

(* No path of the code dereferences process_array[-1], returns into a    *)
(* frame that is not on its own stack, or resumes a stack never saved.   *)
NoUndefinedBehaviour == ub = {}


(* execute returns the child's halt status, or 256 if the child died of  *)
(* an exception, and nothing else.                                        *)
ExitStatusExact ==
    last_exit.got = IF last_exit.fault THEN 256 ELSE last_exit.status

-----------------------------------------------------------------------------
(***************************************************************************)
(* Refinement of ProcessTree.  A terminal's process stack is the chain of *)
(* parent_id links from its current process down to its shell, which is   *)
(* how halt finds the process to return to.  A terminal counts as visited *)
(* once a context has been started for it.                                *)
(***************************************************************************)
RECURSIVE Ancestry(_, _)
Ancestry(p, k) ==
    IF p = -1 \/ k = 0 THEN <<>> ELSE Append(Ancestry(parent_id[p], k - 1), p)

Abstract == INSTANCE ProcessTree
    WITH fg      <- curr_terminal,
         started <- {t \in Terms : cpc[t] # "none"},
         procs   <- [t \in Terms |-> Ancestry(current_process[t], MaxProcesses)]

(* Every step of execute, halt, the exception path and terminal_switch    *)
(* is a step of the process-tree specification or leaves it unchanged:    *)
(* processes are created with the smallest free index on the foreground   *)
(* terminal only, halt returns to the parent, a halted shell is replaced.  *)
ProcessTreeSpec == Abstract!Spec
====
