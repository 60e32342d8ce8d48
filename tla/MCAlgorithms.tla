---------------------------- MODULE MCAlgorithms ----------------------------
(***************************************************************************)
(* The kernel's pure routines checked against reference definitions over  *)
(* bounded inputs.  Each state is one call:                                *)
(*  - read_data(inode, offset, length) over the MCImage image (2-byte      *)
(*    blocks, 4 data blocks, files of 0, 3, 4 and 5 bytes);                *)
(*  - execute's parsing and lookup of a shell line;                        *)
(*  - read_dentry_by_name of a name;                                       *)
(*  - getargs(buf, nbytes) in a process started by a shell line, with the  *)
(*    bytes of pcb->args past the copied string left from before.          *)
(* Lines are every string of up to TERM_BUFF_SIZE - 1 characters over     *)
(* "a", "b" and space, as keyboard_read hands them to the shell.           *)
(***************************************************************************)
EXTENDS FileSystem, CommandLine, MCImage

Offsets == 0 .. 7
Lengths == 0 .. 7                         \* non-negative int32 values of nbytes
Letters == {"a", "b", " "}
Strings == UNION {[1 .. n -> Letters] : n \in 0 .. TermBuffSize - 1}
NBytes  == -1 .. TermBuffSize + 2

(* A string as a NUL-terminated C array of TERM_BUFF_SIZE bytes.          *)
CArray(s) == [k \in 0 .. TermBuffSize - 1 |-> IF k < Len(s) THEN s[k + 1] ELSE Nul]

(* A directory of four entries: "a", "ab" (a full-length name, no NUL),  *)
(* "a" again, and an unused entry.                                         *)
MCEntryNames == (0 :> <<"a", "NUL">>) @@ (1 :> <<"a", "b">>) @@
                (2 :> <<"a", "NUL">>) @@ (3 :> <<"NUL", "NUL">>)
MCEntryNamesFn == [d \in 0 .. 3 |-> [k \in 0 .. 1 |-> MCEntryNames[d][k + 1]]]

Calls ==
    [op : {"read_data"}, inode : 0 .. NumInodes, offset : Offsets, length : Lengths]
    \cup [op : {"execute"}, line : Strings]
    \cup [op : {"lookup"}, line : Strings]
    \cup [op : {"getargs"}, line : Strings, stale : [0 .. TermBuffSize - 1 -> {Nul, "b"}],
          nbytes : NBytes, null : BOOLEAN]

VARIABLE call
vars == <<call>>

Init == call \in Calls
(* Each call is checked on its own; nothing follows it.                   *)
Next == UNCHANGED call
Spec == Init /\ [][Next]_vars

-----------------------------------------------------------------------------
(* References.                                                             *)

(* The longest prefix of s without a space.                                *)
FirstWord(s) == LET sp == {k \in 1 .. Len(s) : s[k] = Space}
               IN IF sp = {} THEN s ELSE SubSeq(s, 1, Min(sp) - 1)

(* s without its leading spaces.                                           *)
DropSpaces(s) == LET ch == {k \in 1 .. Len(s) : s[k] # Space}
                 IN IF ch = {} THEN <<>> ELSE SubSeq(s, Min(ch), Len(s))

(* A directory entry's name: its characters before the first NUL.         *)
EntryString(d) == LET a == EntryNames[d] IN Chars(a, Scan(a, 0, {Nul}, NameMax))

(* Section 4.2's lookup_by_name: the name up to a space, clamped to 32    *)
(* characters, matched against the entries in directory order.            *)
LookupSpec(s) ==
    LET w    == SubSeq(FirstWord(s), 1, Min({Len(FirstWord(s)), NameMax}))
        hits == {d \in DOMAIN EntryNames : EntryString(d) = w}
    IN IF w = <<>> \/ hits = {} THEN -1 ELSE Min(hits)

(* The argument string execute stores in pcb->args for a line, with the   *)
(* bytes after its NUL left over from an earlier process in that slot.    *)
PcbArgs(c) ==
    LET a == ParseCmdArgs(CArray(c.line)).args
    IN [k \in 0 .. TermBuffSize - 1 |->
          CASE k < Len(a) -> a[k + 1] [] k = Len(a) -> Nul [] OTHER -> c.stale[k]]


-----------------------------------------------------------------------------
(* read_data returns min(length, size - offset) bytes of the file from    *)
(* offset on, 0 at or past the end, and -1 for an inode number >= N: the  *)
(* block walk, the end-block offset and the data-block bound test of      *)
(* filesystem.c read_data agree with the file's contents.                 *)
ReadDataMatchesContent ==
    call.op = "read_data" =>
    LET r == ReadData(call.inode, call.offset, call.length) IN
    IF call.inode >= NumInodes THEN r.ret = -1
    ELSE LET n == Min({call.length, InodeSize[call.inode] - call.offset}) IN
         IF call.offset >= InodeSize[call.inode] THEN r = [ret |-> 0, buf |-> <<>>]
         ELSE /\ r.ret = n
              /\ r.buf = SubSeq(FileContent(call.inode), call.offset + 1, call.offset + n)

(* Section 4.7 step 1: execute splits a line into the program name, up to *)
(* the first space, and the argument string, the rest without its leading *)
(* spaces (parse_cmd_args); the program it looks up is the one lookup by  *)
(* name finds for that name, unless the name is FILE_NAME_LENGTH          *)
(* characters or longer, which execute's copy refuses.                    *)
ParseMatchesSpec ==
    call.op = "execute" =>
    LET p == ParseCmdArgs(CArray(call.line)) IN
    /\ p.command = FirstWord(call.line)
    /\ p.args = DropSpaces(SubSeq(call.line, Len(FirstWord(call.line)) + 1, Len(call.line)))
    /\ ExecuteLookup(CArray(call.line)) =
          IF Len(p.command) >= FileNameLength THEN -1 ELSE LookupSpec(call.line)

(* Section 4.2: read_dentry_by_name finds the first entry, in directory   *)
(* order, whose name equals the given name up to a space or NUL clamped   *)
(* to MAX_NAME_CHARACTERS (create_char_count, the length test, strncmp).  *)
LookupMatchesSpec ==
    call.op = "lookup" => ReadDentryByName(CArray(call.line)) = LookupSpec(call.line)


(* getargs stays inside the caller's buffer for every nbytes >= 0: the    *)
(* clearing, copying and trimming loops touch buf[0 .. nbytes - 1] only.  *)
GetArgsInBounds ==
    call.op = "getargs" /\ call.nbytes >= 0 =>
        ~GetArgs(PcbArgs(call), call.nbytes, call.null).ub
====
