------------------------------- MODULE VsfsFile -------------------------------
(***************************************************************************)
(* Reading, writing and seeking in an open VSFS file: File (vfs/src/lib.rs *)
(* 139-183) over INode::read and INode::write (vsfs/src/lib.rs 127-155 and *)
(* 282-402), one sector per step.  The RwLock of the inode and the lock of *)
(* the open file are held for the whole operation.                         *)
(*                                                                         *)
(* The file's blocks are reached through direct pointers in the inode and  *)
(* one indirect block; a pointer takes one cell of a sector, as a byte     *)
(* does.  A pointer that is 0 is malformed metadata.                       *)
(***************************************************************************)
EXTENDS Integers, Sequences

CONSTANTS
  SECTOR_SIZE, SECTORS_PER_BLOCK, DIRECT_BLOCKS, INDIRECT_BLOCK_ENTRIES,
  NSectors,    \* sectors of the disk
  Size,        \* metadata.sz
  Byte,        \* values of a byte
  Images,      \* set of [direct, indirect, ptrs]: where the blocks are
  Idle,        \* no operation in progress
  MaxReq,      \* bound: bytes asked for at once
  MaxWrites,   \* bound: writes in a behaviour
  MaxSeek      \* bound: distance of a seek

BLOCK_SIZE == SECTOR_SIZE * SECTORS_PER_BLOCK

(* Where an image says the blocks of the file are.                         *)
FileBlocks == {i \div BLOCK_SIZE : i \in 0..(Size - 1)}

BlockOf(image, lb) ==
  IF lb < DIRECT_BLOCKS THEN image.direct[lb]
  ELSE IF image.indirect = 0 \/ lb - DIRECT_BLOCKS >= INDIRECT_BLOCK_ENTRIES THEN 0
  ELSE image.ptrs[lb - DIRECT_BLOCKS]

OnDisk(block) == (block + 1) * SECTORS_PER_BLOCK <= NSectors

(* Blocks are on the disk, and no block has two uses.                      *)
Sound(image) ==
  /\ image.direct \in [0..(DIRECT_BLOCKS - 1) -> Nat]
  /\ image.indirect \in Nat
  /\ image.ptrs \in [0..(INDIRECT_BLOCK_ENTRIES - 1) -> Nat]
  /\ image.indirect # 0 => OnDisk(image.indirect)
  /\ \A lb \in FileBlocks : BlockOf(image, lb) # 0 =>
       /\ OnDisk(BlockOf(image, lb))
       /\ BlockOf(image, lb) # image.indirect
       /\ \A other \in FileBlocks \ {lb} : BlockOf(image, lb) # BlockOf(image, other)

Operations ==
  [kind : {"read", "write"}, pos : Nat, left : Nat, total : Nat, val : Byte,
   mapped : {Idle} \cup (Nat \X Nat)]

(* A pointer takes one cell, so a block holds BLOCK_SIZE of them.  Idle is *)
(* none of the values it stands beside.                                    *)
ASSUME FileAssumption ==
  /\ SECTOR_SIZE \in Nat \ {0} /\ SECTORS_PER_BLOCK \in Nat \ {0}
  /\ DIRECT_BLOCKS \in Nat /\ NSectors \in Nat /\ Size \in Nat /\ MaxReq \in Nat
  /\ INDIRECT_BLOCK_ENTRIES = BLOCK_SIZE
  /\ \A image \in Images : Sound(image)
  /\ Idle \notin Operations \cup (Nat \X Nat)
  /\ Idle \notin [kind : {"read", "write"}, pos : Nat, left : Nat, total : Nat, val : Byte]

VARIABLES disk, inode, off, req, out, res, writes

vars == <<disk, inode, off, req, out, res, writes>>

(* Bytes differ from each other and from what is written; the sectors of   *)
(* the indirect block hold its pointers (inode.ptrs is not used again).    *)
Init ==
  /\ inode \in Images
  /\ disk = [s \in 0..(NSectors - 1) |-> [k \in 0..(SECTOR_SIZE - 1) |->
               IF s \div SECTORS_PER_BLOCK = inode.indirect /\ inode.indirect # 0
               THEN inode.ptrs[(s % SECTORS_PER_BLOCK) * SECTOR_SIZE + k]
               ELSE <<s, k>>]]
  /\ off = 0
  /\ req = Idle
  /\ out = <<>>
  /\ res = [status |-> "none", asked |-> 0, got |-> 0]
  /\ writes = 0

-----------------------------------------------------------------------------
(* INode::data_block: the block number of a file-relative block, 0 if it   *)
(* has none.                                                               *)
Direct(lb) == lb < DIRECT_BLOCKS

DataBlock(lb) ==
  IF Direct(lb) THEN inode.direct[lb]
  ELSE LET idx == lb - DIRECT_BLOCKS
       IN  IF idx >= INDIRECT_BLOCK_ENTRIES \/ inode.indirect = 0 THEN 0
           ELSE disk[inode.indirect * SECTORS_PER_BLOCK + idx \div SECTOR_SIZE][idx % SECTOR_SIZE]

LogicalBlock == req.pos \div BLOCK_SIZE

(* mapped_block: the pointer of the previous sector is used again while    *)
(* the block is the same.  Mutant: it is used for the next block too.      *)
Mapped_Stale == req.mapped # Idle

Mapped == req.mapped # Idle /\ req.mapped[1] = LogicalBlock

Sector == req.mapped[2] * SECTORS_PER_BLOCK + (req.pos % BLOCK_SIZE) \div SECTOR_SIZE

Lesser(a, b) == IF a < b THEN a ELSE b

(* Bytes of the current sector that the operation moves.                   *)
Chunk == Lesser(SECTOR_SIZE - (req.pos % SECTOR_SIZE), req.left)

Result(status, asked, got) == res' = [status |-> status, asked |-> asked, got |-> got]

(* File::read and File::write call the inode with the offset.  A directory *)
(* is an error; at the end of the file, or for no bytes, Ok(0).            *)
Clamp(n) == Lesser(n, Size - off)

Start(kind, n, v) ==
  /\ req = Idle
  /\ kind = "write" => writes < MaxWrites
  /\ IF inode.ty # "File"
     THEN Result("err", 0, 0) /\ UNCHANGED <<req, writes>>
     ELSE IF off >= Size \/ n = 0
     THEN Result("ok", 0, 0) /\ UNCHANGED <<req, writes>>
     ELSE /\ req' = [kind |-> kind, pos |-> off, left |-> Clamp(n), total |-> 0, val |-> v,
                     mapped |-> Idle]
          /\ writes' = IF kind = "write" THEN writes + 1 ELSE writes
          /\ Result("none", 0, 0)
  /\ UNCHANGED <<disk, inode, off, out>>

InLoop == req # Idle /\ req.left > 0

(* The next block is looked up.                                            *)
MapBlock ==
  /\ InLoop /\ ~Mapped
  /\ DataBlock(LogicalBlock) # 0
  /\ req' = [req EXCEPT !.mapped = <<LogicalBlock, DataBlock(LogicalBlock)>>]
  /\ UNCHANGED <<disk, inode, off, out, res, writes>>

(* There is no next block, or the sector with its pointer cannot be read:  *)
(* the operation ends with what was moved so far, or with the error if     *)
(* that is nothing.                                                        *)
NoBlock ==
  /\ InLoop /\ ~Mapped
  /\ DataBlock(LogicalBlock) = 0 \/ (~Direct(LogicalBlock) /\ inode.indirect # 0)
  /\ req' = Idle
  /\ out' = <<>>
  /\ IF req.total > 0
     THEN off' = off + req.total /\ Result("ok", req.left + req.total, req.total)
     ELSE UNCHANGED off /\ Result("err", req.left, 0)
  /\ UNCHANGED <<disk, inode, writes>>

Advance == req' = [req EXCEPT !.pos = @ + Chunk, !.left = @ - Chunk, !.total = @ + Chunk]

ReadSector ==
  /\ InLoop /\ Mapped
  /\ req.kind = "read"
  /\ out' = out \o [i \in 1..Chunk |-> disk[Sector][(req.pos % SECTOR_SIZE) + i - 1]]
  /\ Advance
  /\ UNCHANGED <<disk, inode, off, res, writes>>

(* A sector that is only partly replaced is read first.                    *)
NewSector ==
  LET at == req.pos % SECTOR_SIZE
  IN  [k \in 0..(SECTOR_SIZE - 1) |->
         IF k \in at..(at + Chunk - 1) THEN req.val ELSE disk[Sector][k]]

WriteSector ==
  /\ InLoop /\ Mapped
  /\ req.kind = "write"
  /\ disk' = [disk EXCEPT ![Sector] = NewSector]
  /\ Advance
  /\ UNCHANGED <<inode, off, out, res, writes>>

(* A transfer of data fails: the error is returned whatever was moved      *)
(* before, and the offset stays.  A failing write may have reached the     *)
(* disk.  Mutant: what was moved before is reported, as NoBlock does.      *)
Failed_Partial ==
  IF req.total > 0
  THEN off' = off + req.total /\ Result("ok", req.left + req.total, req.total)
  ELSE UNCHANGED off /\ Result("err", req.left, 0)

Failed == UNCHANGED off /\ Result("err", req.left + req.total, 0)

TransferError ==
  /\ InLoop /\ Mapped
  /\ \/ UNCHANGED disk
     \/ req.kind = "write" /\ disk' = [disk EXCEPT ![Sector] = NewSector]
  /\ req' = Idle
  /\ out' = <<>>
  /\ Failed
  /\ UNCHANGED <<inode, writes>>

(* Everything asked for was moved.                                         *)
Done ==
  /\ req # Idle
  /\ req.left = 0
  /\ off' = off + req.total
  /\ req' = Idle
  /\ out' = <<>>
  /\ Result("ok", req.total, req.total)
  /\ UNCHANGED <<disk, inode, writes>>

(* File::seek from the start, the current offset or the end.  checked_add  *)
(* and checked_sub reject what is not a usize instead of wrapping, so the  *)
(* sum is exact, and the size rejects the rest.                            *)
Seek(base, d) ==
  LET new == base + d
  IN  /\ req = Idle
      /\ IF new < 0 \/ new > Size
         THEN UNCHANGED off /\ Result("err", 0, 0)
         ELSE off' = new /\ Result("seek", 0, 0)
      /\ UNCHANGED <<disk, inode, req, out, writes>>

Next ==
  \/ \E kind \in {"read", "write"}, n \in 0..MaxReq, v \in Byte : Start(kind, n, v)
  \/ MapBlock
  \/ NoBlock
  \/ ReadSector
  \/ WriteSector
  \/ TransferError
  \/ Done
  \/ \E base \in {0, off, Size}, d \in (-MaxSeek)..MaxSeek : (base = 0 => d >= 0) /\ Seek(base, d)

Spec == Init /\ [][Next]_vars

-----------------------------------------------------------------------------
(* Where the image says each byte of the file is, and the other cells.     *)
BlockAt(lb) == BlockOf(inode, lb)
Present == {i \in 0..(Size - 1) : BlockAt(i \div BLOCK_SIZE) # 0}
Cell(i) ==
  LET k == BlockAt(i \div BLOCK_SIZE) * BLOCK_SIZE + (i % BLOCK_SIZE)
  IN  <<k \div SECTOR_SIZE, k % SECTOR_SIZE>>
Hole == <<>>
Content == [i \in 0..(Size - 1) |-> IF i \in Present THEN disk[Cell(i)[1]][Cell(i)[2]] ELSE Hole]
Others ==
  LET used == {Cell(i) : i \in Present}
  IN  [c \in ((0..(NSectors - 1)) \X (0..(SECTOR_SIZE - 1))) \ used |-> disk[c[1]][c[2]]]
Request ==
  IF req = Idle THEN Idle
  ELSE [kind |-> req.kind, pos |-> req.pos, left |-> req.left, total |-> req.total, val |-> req.val]

(* Sector loops over direct and indirect blocks implement ByteFile: reads  *)
(* return the bytes of the file, writes change exactly their range, the    *)
(* offset moves by what is reported, and pointers and other blocks are     *)
(* never touched.                                                          *)
File == INSTANCE ByteFile WITH data <- Content, rest <- Others, req <- Request
ImplementsByteFile == File!ByteSpec

(* Ok with fewer bytes than the file has left is only returned where       *)
(* data_block failed: at the start of a block that has no number or is     *)
(* reached through the indirect block, never in the middle of a block or   *)
(* before the first byte.                                                  *)
ShortOnlyAtBlock ==
  (res.status = "ok" /\ res.got < res.asked) =>
    /\ res.got > 0
    /\ off % BLOCK_SIZE = 0
    /\ off \div BLOCK_SIZE >= DIRECT_BLOCKS \/ BlockAt(off \div BLOCK_SIZE) = 0
===============================================================================
