---------------------------- MODULE MCFileBlocks ----------------------------
(***************************************************************************)
(* Model checking of FileBlocks: a plain file and a directory over four    *)
(* blocks, three addresses to an inode and three cells to a block.  The    *)
(* offsets make transfers of two or three cells cross from the direct      *)
(* blocks to the first indirect one (8), from a singly to a doubly         *)
(* indirect one (17), and between two blocks of a doubly indirect one      *)
(* (20).  After the crossing two cells fall into one block, so that a bad  *)
(* address also comes between them.                                        *)
(***************************************************************************)
EXTENDS FileBlocks
=============================================================================
