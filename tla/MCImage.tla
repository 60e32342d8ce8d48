------------------------------- MODULE MCImage -------------------------------
(***************************************************************************)
(* A small file-system image for the models: 2-byte blocks, 4 data blocks *)
(* and four inodes.  Inode 0 is empty, inode 1 is shorter than two blocks, *)
(* inode 2 is exactly two blocks long and the index after its last block  *)
(* is D (the value read_data's "> D" test lets through), inode 3 spans    *)
(* three blocks stored out of order.  Byte j of data block b is 10b + j.  *)
(***************************************************************************)
EXTENDS Integers, Sequences, TLC

CONSTANTS garbage

MCInodeSize == (0 :> 0 @@ 1 :> 3 @@ 2 :> 4 @@ 3 :> 5)
MCInodeBlocks ==
    (0 :> <<0, 0, 0, 0>> @@ 1 :> <<2, 0, 9, 9>> @@
     2 :> <<1, 3, 4, 0>> @@ 3 :> <<3, 2, 1, 9>>)
MCInodeBlocksFn == [i \in DOMAIN MCInodeBlocks |->
                       [k \in 0 .. 3 |-> MCInodeBlocks[i][k + 1]]]
MCDataBlocks == [b \in 0 .. 3 |-> <<10 * b, 10 * b + 1>>]
====
