----------------------------- MODULE FileSystem -----------------------------
(***************************************************************************)
(* The read-only file system of filesystem.c over a boot image: the       *)
(* counts filesystem_init reads from the boot block, the directory        *)
(* entries, the inodes with their data-block index arrays and the data     *)
(* blocks.  Block size, name length and the machine word are constants so *)
(* that a small image shows the same block boundaries and wrap-around as  *)
(* the 4096-byte blocks and 32-bit words of the code.                      *)
(***************************************************************************)
EXTENDS Integers, Sequences, SequencesExt, FiniteSetsExt

CONSTANTS
    BlockSize,        \* MAX_CHARS_IN_DATA
    MaxInodeBlocks,   \* MAX_INODE_DATA_BLOCKS
    Word,             \* 2^32: uint32_t arithmetic is modulo Word
    NumEntries,       \* boot_block->num_dir_entries
    NumDataBlocks,    \* boot_block->D
    InodeSize,        \* inode -> file_size; its domain has N = boot_block->N inodes
    InodeBlocks,      \* inode -> (0..MaxInodeBlocks-1 -> datablock_idx)
    DataBlocks,       \* data block -> sequence of BlockSize bytes
    OutOfImage        \* a byte read past the last data block

Inodes == DOMAIN InodeSize
NumInodes == Cardinality(Inodes)

ASSUME /\ BlockSize \in Nat \ {0} /\ MaxInodeBlocks \in Nat \ {0}
       /\ Word \in Nat \ {0} /\ NumEntries \in Nat /\ NumDataBlocks \in Nat
       /\ Inodes = 0 .. NumInodes - 1
       /\ DOMAIN DataBlocks = 0 .. NumDataBlocks - 1
       /\ \A b \in DOMAIN DataBlocks : Len(DataBlocks[b]) = BlockSize
       /\ \A i \in Inodes : /\ InodeSize[i] \in 0 .. BlockSize * MaxInodeBlocks - 1
                            /\ DOMAIN InodeBlocks[i] = 0 .. MaxInodeBlocks - 1

(* Byte k of data block b; index D is past the end of the image.          *)
BlockByte(b, k) == IF b < NumDataBlocks THEN DataBlocks[b][k + 1] ELSE OutOfImage

(* Where the copy in block blk stops: end_offset in the last block, the  *)
(* block size in the others.                                              *)
EndOfBlockByteUntrimmed(blk, endBlock, endOffset) == BlockSize
EndOfBlockByte(blk, endBlock, endOffset) ==
    IF blk = endBlock THEN endOffset ELSE BlockSize

(***************************************************************************)
(* read_data(inode, offset, buf, length): the bytes it copies into buf    *)
(* and its return value.  The block loop walks block_loop from the start  *)
(* block to the end block inclusive; a data-block index above D stops the *)
(* copy (-1 if nothing was copied yet); in the end block the copy stops   *)
(* at end_offset, in the others at the block size.  offset + length is a  *)
(* uint32_t sum.                                                           *)
(***************************************************************************)
ReadData(inode, offset, length) ==
    IF inode >= NumInodes THEN [ret |-> -1, buf |-> <<>>]
    ELSE
    LET size        == InodeSize[inode]
        endSearch   == Min({(offset + length) % Word, size})
        startBlock  == offset \div BlockSize
        endBlock    == endSearch \div BlockSize
        endOffset   == endSearch % BlockSize
        RECURSIVE Blocks(_, _, _)
        Blocks(blk, from, buf) ==
            IF blk > endBlock THEN [ret |-> Len(buf), buf |-> buf]
            ELSE
            LET cdb == InodeBlocks[inode][blk]
                upto == EndOfBlockByte(blk, endBlock, endOffset)
            IN IF cdb > NumDataBlocks
               THEN [ret |-> IF buf = <<>> THEN -1 ELSE Len(buf), buf |-> buf]
               ELSE Blocks(blk + 1, 0,
                           buf \o [k \in 1 .. upto - from |-> BlockByte(cdb, from + k - 1)])
    IN IF offset >= size \/ length = 0 THEN [ret |-> 0, buf |-> <<>>]
       ELSE Blocks(startBlock, offset % BlockSize, <<>>)

(* The contents of a file: its size's worth of bytes from its blocks.     *)
FileContent(inode) ==
    [k \in 1 .. InodeSize[inode] |->
        BlockByte(InodeBlocks[inode][(k - 1) \div BlockSize], (k - 1) % BlockSize)]

(* A well-formed image: every block a file's bytes live in is a block of *)
(* the image.                                                              *)
WellFormedImage ==
    \A i \in Inodes : \A blk \in 0 .. (InodeSize[i] - 1) \div BlockSize :
        InodeSize[i] > 0 => InodeBlocks[i][blk] < NumDataBlocks
====
