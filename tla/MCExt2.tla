------------------------------- MODULE MCExt2 -------------------------------
(* Ext2 on a disk of two groups with one old file: a direct block and a    *)
(* block behind a pointer block.                                           *)
EXTENDS Ext2

MCMeta == {1, 2, 6}
MCOldBlocks == {4}
MCNameUnits == [name \in Names \cup {".", ".."} |-> IF name = "long" THEN 2 ELSE 1]

(* The number of a block of metadata, and of no block.                     *)
MCWords == {6, 50}
=============================================================================
