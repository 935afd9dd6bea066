------------------------------ MODULE VsfsImage ------------------------------
(***************************************************************************)
(* The image that vsfs-tool (vsfs/src/bin/vsfs-tool.rs) writes for a       *)
(* layout.  A layout is a tree of [name, kind, size, children].            *)
(***************************************************************************)
EXTENDS VsfsLayout, Sequences, FiniteSets
LOCAL INSTANCE SequencesExt

(* allocate_node_blocks: count blocks in a row from next on, and one more  *)
(* for the numbers of those that the inode has no room for.                *)
allocate_node_blocks(count, next) ==
  LET spill == count > DIRECT_BLOCKS
      end   == next + count + (IF spill THEN 1 ELSE 0)
  IN  [ok       |-> count <= DIRECT_BLOCKS + INDIRECT_BLOCK_ENTRIES /\ end <= NBLOCKS,
       data     |-> [k \in 1..count |-> next + k - 1],
       indirect |-> IF spill THEN next + count ELSE 0,
       next     |-> end]

(* allocate_node: an inode number for the node, then its children, then    *)
(* its own blocks.  acc holds next_inum, next_data_block and the nodes     *)
(* allocated so far.                                                       *)
RECURSIVE allocate_node(_, _, _)
allocate_node(node, parent, acc) ==
  LET inum == acc.inum
      kids == FoldLeft(LAMBDA a, child : allocate_node(child, inum, a),
                       [acc EXCEPT !.inum = @ + 1, !.ok = @ /\ inum < NINODES],
                       node.children)
      size == IF node.kind = "dir" THEN 2 + Len(node.children) ELSE node.size
      b    == allocate_node_blocks(blocks_needed(size), kids.block)
  IN  [ok    |-> kids.ok /\ b.ok,
       inum  |-> kids.inum,
       block |-> b.next,
       nodes |-> kids.nodes \cup
                   {[inum |-> inum, parent |-> parent, name |-> node.name,
                     kind |-> node.kind, size |-> size,
                     data_blocks |-> b.data, indirect_block |-> b.indirect]}]

allocate_layout(layout) ==
  allocate_node(layout, ROOT_INO,
                [ok |-> TRUE, inum |-> ROOT_INO, block |-> DATA_BLOCK_START, nodes |-> {}])

-----------------------------------------------------------------------------
(* The bits of the two bitmaps; those of the data bitmap count from the    *)
(* first data block.  Mutant: the indirect blocks are forgotten.           *)
write_inode_bitmap(nodes) == {n.inum : n \in nodes}

write_data_bitmap_NoIndirect(nodes) ==
  {b - DATA_BLOCK_START : b \in UNION {ToSet(n.data_blocks) : n \in nodes}}

write_data_bitmap(nodes) ==
  {b - DATA_BLOCK_START :
     b \in UNION {ToSet(n.data_blocks) \cup ({n.indirect_block} \ {0}) : n \in nodes}}

direct_blocks(n) ==
  [k \in 0..(DIRECT_BLOCKS - 1) |->
     IF k < Len(n.data_blocks) THEN n.data_blocks[k + 1] ELSE 0]

(* write_dir_inode and write_file: the inode table.                        *)
write_inodes(nodes) ==
  [i \in Inums |->
     IF \E n \in nodes : n.inum = i
     THEN LET n == CHOOSE m \in nodes : m.inum = i
          IN  [ty |-> n.kind, sz |-> n.size, blocks |-> direct_blocks(n),
               indirect |-> n.indirect_block]
     ELSE Blank]

dirent(inum, name) == [inum |-> inum, name |-> name]

(* write_dir_blocks: ".", "..", then the children in order, block by       *)
(* block.  The inode numbers of the children grow in that order.           *)
EntriesOf(n, nodes) ==
  LET kids == {m \in nodes : m.parent = n.inum /\ m.inum # n.inum}
      seq  == SetToSortSeq(kids, LAMBDA x, y : x.inum < y.inum)
  IN  <<dirent(n.inum, Dot), dirent(n.parent, DotDot)>>
        \o [k \in 1..Len(seq) |-> dirent(seq[k].inum, seq[k].name)]

write_dir_blocks(nodes) ==
  [b \in Blocks |-> [k \in 0..(PerBlock - 1) |->
     LET dirs == {n \in nodes : n.kind = "dir" /\ b \in ToSet(n.data_blocks)}
     IN  IF dirs = {} THEN Empty
         ELSE LET n == CHOOSE m \in dirs : TRUE
                  e == EntriesOf(n, nodes)
                  i == PerBlock * (b - n.data_blocks[1]) + k + 1
              IN  IF i <= Len(e) THEN e[i] ELSE Empty]]

(* write_indirect_block: the block numbers beyond the direct ones.         *)
write_indirect_blocks(nodes) ==
  [b \in Blocks |->
     UNION {ToSet(SubSeq(n.data_blocks, DIRECT_BLOCKS + 1, Len(n.data_blocks))) :
              n \in {m \in nodes : m.indirect_block = b}}]

(* write_image, of a layout that is not too large for the image.           *)
write_image(layout) ==
  LET nodes == allocate_layout(layout).nodes
  IN  [inodeBitmap |-> write_inode_bitmap(nodes), dataBitmap |-> write_data_bitmap(nodes),
       itable |-> write_inodes(nodes), dirents |-> write_dir_blocks(nodes),
       pointers |-> write_indirect_blocks(nodes), layout |-> layout]

ImagesOf(layouts) == {write_image(l) : l \in {m \in layouts : allocate_layout(m).ok}}
=============================================================================
