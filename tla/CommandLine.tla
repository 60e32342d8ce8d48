---------------------------- MODULE CommandLine ----------------------------
(***************************************************************************)
(* The string handling between a shell line and a running program:        *)
(* parse_cmd_args splitting execute's command into the program name and   *)
(* the argument string, execute's copy of the name, create_char_count and *)
(* read_dentry_by_name looking the name up in the directory, and getargs  *)
(* handing the argument string to the program.  C arrays are functions    *)
(* from 0 .. size - 1; characters are a few strings, Nul and Space.      *)
(***************************************************************************)
EXTENDS Integers, Sequences, SequencesExt, FiniteSetsExt

CONSTANTS
    TermBuffSize,     \* TERM_BUFF_SIZE (= MAX_CHARS, the size of pcb->args)
    NameMax,          \* MAX_NAME_CHARACTERS
    FileNameLength,   \* FILE_NAME_LENGTH, the size of execute's file_name
    MaxEntries,       \* MAX_ENTRIES
    EntryNames,       \* dentry index -> file_name[0 .. NameMax - 1]
    Nul, Space

ASSUME /\ TermBuffSize \in Nat \ {0} /\ NameMax \in Nat \ {0}
       /\ FileNameLength \in Nat \ {0}
       /\ DOMAIN EntryNames = 0 .. MaxEntries - 1
       /\ \A d \in DOMAIN EntryNames : DOMAIN EntryNames[d] = 0 .. NameMax - 1

(* The characters of array a before index n, as a sequence.              *)
Chars(a, n) == [k \in 1 .. n |-> a[k - 1]]

(* The first index from i on where a[i] is in stop, or bound.            *)
RECURSIVE Scan(_, _, _, _)
Scan(a, i, stop, bound) ==
    IF i >= bound \/ a[i] \in stop THEN i ELSE Scan(a, i + 1, stop, bound)

(* The same scan, as long as a[i] is in skip.                            *)
RECURSIVE Skip(_, _, _, _)
Skip(a, i, skip, bound) ==
    IF i < bound /\ a[i] \in skip THEN Skip(a, i + 1, skip, bound) ELSE i

(***************************************************************************)
(* parse_cmd_args(buf, comm): buf gets the first word, up to a space or   *)
(* NUL; the spaces after it are skipped and the rest of comm, up to NUL   *)
(* or TERM_BUFF_SIZE, is the argument string cmd_args[curr_terminal].     *)
(***************************************************************************)
SkipSpacesNone(comm, i) == i
SkipSpaces(comm, i) == Skip(comm, i, {Space}, TermBuffSize)

ParseCmdArgs(comm) ==
    LET i    == Scan(comm, 0, {Space, Nul}, TermBuffSize)
        fnl  == SkipSpaces(comm, i)
        last == Scan(comm, fnl, {Nul}, TermBuffSize)
    IN [command |-> Chars(comm, i),
        args    |-> [k \in 1 .. last - fnl |-> comm[fnl + k - 1]]]

(* create_char_count: the length of a directory entry's name, up to NUL   *)
(* or MAX_NAME_CHARACTERS.                                                 *)
CharCount(d) == Scan(EntryNames[d], 0, {Nul}, NameMax)

(* read_dentry_by_name's given_name_len: fname up to a space or NUL,      *)
(* counting at most MAX_NAME_CHARACTERS.                                   *)
GivenNameLenUnclamped(fname) == Scan(fname, 0, {Space, Nul}, Cardinality(DOMAIN fname))
GivenNameLen(fname) == Scan(fname, 0, {Space, Nul}, NameMax)

(***************************************************************************)
(* read_dentry_by_name(fname): -1 for an empty name; otherwise the first  *)
(* of all MAX_ENTRIES entries whose character_count equals the given      *)
(* length and whose first that many characters equal fname's, else -1.    *)
(* fname is a function on 0 .. Len - 1 that ends in Nul.                  *)
(***************************************************************************)
ReadDentryByName(fname) ==
    LET n    == GivenNameLen(fname)
        hits == {d \in 0 .. MaxEntries - 1 :
                    /\ CharCount(d) = n
                    /\ \A k \in 0 .. n - 1 : fname[k] = EntryNames[d][k]}
    IN IF n = 0 \/ hits = {} THEN -1 ELSE Min(hits)

(***************************************************************************)
(* execute: the file name is copied out of the parsed command up to a      *)
(* space, NUL or line feed; a character at index FILE_NAME_LENGTH - 1     *)
(* fails the call, so names of FILE_NAME_LENGTH characters or more are    *)
(* refused.  The copy, NUL-terminated, is then looked up.                  *)
(***************************************************************************)
ExecuteLookup(comm) ==
    LET cmd == ParseCmdArgs(comm).command
        buf == [k \in 0 .. TermBuffSize - 1 |->
                   IF k < Len(cmd) THEN cmd[k + 1] ELSE Nul]
        i   == Scan(buf, 0, {Space, Nul, "\n"}, TermBuffSize)
    IN IF i >= FileNameLength
       THEN -1
       ELSE ReadDentryByName([k \in 0 .. i |-> IF k < i THEN buf[k] ELSE Nul])

(***************************************************************************)
(* getargs(buf, nbytes) on the process's args array: buf is cleared and   *)
(* receives args[0 .. min(nbytes, TERM_BUFF_SIZE) - 1]; if that filled     *)
(* nbytes the call fails; otherwise trailing spaces and NULs are turned    *)
(* into NUL from buf[nbytes - 1] down, and an empty result fails.  The    *)
(* clearing loop compares a uint32_t counter with nbytes, so a negative   *)
(* nbytes writes far past buf; the downward loop that runs past buf[0]    *)
(* reads below buf.  Both are undefined behaviour, reported as ub.        *)
(***************************************************************************)
TrimBack(buf, b) ==
    LET RECURSIVE T(_, _)
        T(x, j) == IF j < 0 THEN [buf |-> x, ub |-> TRUE]
                   ELSE IF x[j] \in {Space, Nul} THEN T([x EXCEPT ![j] = Nul], j - 1)
                   ELSE [buf |-> x, ub |-> FALSE]
    IN T(buf, b)

GetArgs(args, nbytes, bufNull) ==
    LET copied == Min({nbytes, TermBuffSize})
        buf    == [k \in 0 .. nbytes - 1 |-> IF k < copied THEN args[k] ELSE Nul]
        t      == TrimBack(buf, nbytes - 1)
    IN CASE bufNull          -> [ret |-> -1, buf |-> <<>>, ub |-> FALSE]
         [] nbytes < 0       -> [ret |-> -1, buf |-> <<>>, ub |-> TRUE]
         [] copied = nbytes  -> [ret |-> -1, buf |-> buf, ub |-> FALSE]
         [] t.ub             -> [ret |-> -1, buf |-> t.buf, ub |-> TRUE]
         [] OTHER -> [ret |-> IF t.buf[0] = Nul THEN -1 ELSE 0,
                      buf |-> t.buf, ub |-> FALSE]
====
