------------------------------ MODULE MCFdTable ------------------------------
(***************************************************************************)
(* The descriptor table over the small image of MCImage, with a 4-slot    *)
(* table (slots 2 and 3 free, so it fills after two opens) and five names: *)
(* the directory ".", "rtc", two regular files and a missing name.         *)
(***************************************************************************)
EXTENDS FdTable, MCImage

CONSTANTS dot, rtc, small, frame, missing, notfound

MCNames == {dot, rtc, small, frame, missing}
MCLookup ==
    [n \in MCNames |->
        CASE n = dot   -> [type |-> 1, inode |-> 0]
          [] n = rtc   -> [type |-> 0, inode |-> 0]
          [] n = small -> [type |-> 2, inode |-> 1]
          [] n = frame -> [type |-> 2, inode |-> 3]
          [] OTHER     -> notfound]
MCEntryNameLen == (0 :> 1 @@ 1 :> 3 @@ 2 :> 5 @@ 3 :> 32)

MCFdInputs == -1 .. 4           \* both ends of the table, and past it
MCCounts == {-1, 0, 2, 5}       \* negative, zero, within a block, a whole file
MCHz == {1, 2, 4, 1024, 2048, 3}
====
