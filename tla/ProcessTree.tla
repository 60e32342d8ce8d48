----------------------------- MODULE ProcessTree -----------------------------
(***************************************************************************)
(* What the process-control core promises (spec.md sections 3, 4.7, 4.8,  *)
(* 4.9): each terminal holds a stack of processes, its shell at the       *)
(* bottom and the program in front at the top.  Programs are started and  *)
(* ended only on the foreground terminal; a new program takes the         *)
(* smallest PCB index no live process holds and that is not held for a   *)
(* terminal whose shell has not started; ending a shell starts a new one  *)
(* in its place; the first visit to a terminal starts its shell.          *)
(***************************************************************************)
EXTENDS Integers, Sequences, SequencesExt, FiniteSetsExt

CONSTANTS MaxTerminal, MaxProcesses

Terms == 0 .. MaxTerminal - 1
Pids  == 0 .. MaxProcesses - 1

VARIABLES
    fg,       \* the foreground terminal
    started,  \* terminals that have been visited
    procs     \* procs[t]: the process stack of terminal t, shell first

vars == <<fg, started, procs>>

(* PCB indices live processes hold, plus those held for unvisited         *)
(* terminals.                                                              *)
Used == UNION {Range(procs[t]) : t \in Terms} \cup (Terms \ started)

Init ==
    /\ fg = 0
    /\ started = {0}
    /\ procs = [t \in Terms |-> IF t = 0 THEN <<0>> ELSE <<>>]

(* The foreground program starts a child, or a visited terminal with no  *)
(* process gets its first shell.                                          *)
Spawn ==
    /\ Pids \ Used # {}
    /\ procs' = [procs EXCEPT ![fg] = Append(@, Min(Pids \ Used))]
    /\ UNCHANGED <<fg, started>>

(* The foreground program, not a shell, ends; its parent is in front.    *)
Exit ==
    /\ Len(procs[fg]) >= 2
    /\ procs' = [procs EXCEPT ![fg] = Front(@)]
    /\ UNCHANGED <<fg, started>>

(* The foreground shell ends and a new shell takes the smallest free     *)
(* index, which may be its own.                                           *)
Restart ==
    LET free == Pids \ (Used \ Range(procs[fg])) IN
    /\ Len(procs[fg]) = 1
    /\ procs' = [procs EXCEPT ![fg] = <<Min(free)>>]
    /\ UNCHANGED <<fg, started>>

(* Another terminal comes to the front.                                   *)
Switch(n) ==
    /\ n # fg
    /\ fg' = n
    /\ started' = started \cup {n}
    /\ UNCHANGED procs

Next == Spawn \/ Exit \/ Restart \/ \E n \in Terms : Switch(n)

Spec == Init /\ [][Next]_vars

(* No process is on two stacks or twice on one.                           *)
Disjoint ==
    /\ \A t \in Terms : IsInjective(procs[t])
    /\ \A t, u \in Terms : t # u => Range(procs[t]) \cap Range(procs[u]) = {}
====
