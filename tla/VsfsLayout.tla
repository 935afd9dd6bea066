------------------------------ MODULE VsfsLayout ------------------------------
(***************************************************************************)
(* What is where on a VSFS disk (vsfs/src/lib.rs): what the tool that      *)
(* makes an image and the kernel that mounts it agree on.  Sizes are       *)
(* counted in directory entries, PerBlock of which fill a block.           *)
(***************************************************************************)
EXTENDS Integers

CONSTANTS
  NBLOCKS,                 \* blocks of the image
  NINODES,                 \* inode numbers are 1 .. NINODES - 1
  DATA_BLOCK_START,        \* the first data block
  DIRECT_BLOCKS,           \* block numbers in an inode
  INDIRECT_BLOCK_ENTRIES,  \* block numbers in an indirect block
  PerBlock,                \* entries in a block
  Dot, DotDot,             \* the entries every directory starts with
  NoName                   \* the name of an empty entry

ROOT_INO == 1
Inums == 1..(NINODES - 1)
Blocks == DATA_BLOCK_START..(NBLOCKS - 1)

NoBlocks == [k \in 0..(DIRECT_BLOCKS - 1) |-> 0]
Blank == [ty |-> "none", sz |-> 0, blocks |-> NoBlocks, indirect |-> 0]
Empty == [inum |-> 0, name |-> NoName]

blocks_needed(size) == (size + PerBlock - 1) \div PerBlock
===============================================================================
