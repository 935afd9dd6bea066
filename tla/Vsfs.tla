--------------------------------- MODULE Vsfs ---------------------------------
(***************************************************************************)
(* Opening and creating files in VSFS (vsfs/src/lib.rs), one disk transfer *)
(* per step.  Any transfer may fail, a write that fails may or may not     *)
(* have reached the disk, and the machine may stop between two transfers   *)
(* and mount the image again.                                              *)
(*                                                                         *)
(* Procs are the harts that are inside the file system.  The default build *)
(* has one; the multi-core feature has several.  A bitmap is read and      *)
(* written under its SpinLock and a directory block under the write lock   *)
(* of the directory, so each of those updates is one step.  The inode      *)
(* table has no lock: write_inode_to_block is a read and a write of the    *)
(* sector that the inode shares with its neighbours.                       *)
(***************************************************************************)
EXTENDS VsfsLayout, FiniteSets

CONSTANTS
  Procs,          \* harts
  Names,          \* names that can be created
  Images,         \* images to mount: the two bitmaps, itable, dirents, pointers, layout
  Mount,          \* the loader of the root inode
  Absent,         \* an inode that is not cached, a lock that is not held
  PerSector,      \* inodes in a sector of the inode table
  MaxFaults       \* bound: transfers that fail

(* The layouts have one directory besides the root, its first child.       *)
Root == ROOT_INO
FooInum == 2
Dirs == {Root, FooInum}
Loaders == Procs \cup {Mount}

Indices == 0..(DIRECT_BLOCKS - 1)
Inodes ==
  [ty : {"none", "dir", "file"}, sz : Nat, blocks : [Indices -> Nat], indirect : Nat]

(* A directory has the blocks its size needs, all of them direct.          *)
FitsSize(x) ==
  /\ x.sz <= PerBlock * DIRECT_BLOCKS
  /\ \A j \in Indices : x.blocks[j] # 0 <=> j * PerBlock < x.sz

(* Its blocks are allocated, and have no second use in a directory.        *)
BlocksOwned(table, bitmap) ==
  \A d \in Dirs, j \in Indices : table[d].blocks[j] # 0 =>
    /\ table[d].blocks[j] \in Blocks
    /\ table[d].blocks[j] - DATA_BLOCK_START \in bitmap
    /\ \A e \in Dirs, l \in Indices :
         table[d].blocks[j] = table[e].blocks[l] => d = e /\ j = l

(* What the kernel finds in an image of vsfs-tool.                         *)
Sound(img) ==
  /\ img.inodeBitmap \subseteq Inums /\ Dirs \subseteq img.inodeBitmap
  /\ img.itable \in [Inums -> Inodes]
  /\ DOMAIN img.dirents = Blocks
  /\ \A b \in Blocks : DOMAIN img.dirents[b] = 0..(PerBlock - 1)
  /\ \A d \in Dirs : img.itable[d].ty = "dir" /\ FitsSize(img.itable[d])
  /\ BlocksOwned(img.itable, img.dataBitmap)

ASSUME VsfsAssumption ==
  /\ NBLOCKS \in Nat /\ NINODES \in Nat /\ DATA_BLOCK_START \in Nat \ {0}
  /\ DIRECT_BLOCKS \in Nat /\ PerBlock \in Nat \ {0} /\ MaxFaults \in Nat
  /\ Mount \notin Procs /\ Absent \notin Loaders
  /\ \A img \in Images : Sound(img)

VARIABLES
  inodeBitmap, dataBitmap,  \* the bits that are set
  itable,                   \* the inode table
  dirents,                  \* the entries in the data blocks
  pointers,                 \* the block numbers in the indirect blocks
  cache,                    \* inode_cache: who loaded the cached object
  inner,                    \* INode.inner of every object
  readers, writer,          \* the RwLock of the cached inode
  pc, op,                   \* each hart's place in open or create, and its locals
  buf,                      \* each hart's copy of a sector of the inode table
  faults, crashed,          \* history: transfers that failed, power cycles
  made,                     \* history: creates that returned Ok
  layout                    \* what the image was made from

image == <<pointers, layout>>
disk == <<inodeBitmap, dataBitmap, itable, dirents, image>>
memory == <<cache, inner, readers, writer>>
vars == <<disk, memory, pc, op, buf, faults, crashed, made>>

FileInode == [Blank EXCEPT !.ty = "file"]
NoOp == [dir |-> Root, name |-> NoName, obj |-> Mount, inum |-> 0, blk |-> 0, new |-> Blank]

(* vsfs::initialize mounts an image.                                       *)
Init ==
  /\ \E img \in Images :
       /\ inodeBitmap = img.inodeBitmap
       /\ dataBitmap = img.dataBitmap
       /\ itable = img.itable
       /\ dirents = img.dirents
       /\ pointers = img.pointers
       /\ layout = img.layout
  /\ cache = [i \in Inums |-> IF i = Root THEN Mount ELSE Absent]
  /\ inner = [i \in Inums |-> [l \in Loaders |-> IF i = Root /\ l = Mount THEN itable[i] ELSE Blank]]
  /\ readers = [i \in Inums |-> {}]
  /\ writer = [i \in Inums |-> Absent]
  /\ pc = [p \in Procs |-> "idle"]
  /\ op = [p \in Procs |-> NoOp]
  /\ buf = [p \in Procs |-> itable]
  /\ faults = 0
  /\ crashed = FALSE
  /\ made = {}

-----------------------------------------------------------------------------
(* Entry k of a directory with inode x, and its entries.                   *)
Entry(x, k) == dirents[x.blocks[k \div PerBlock]][k % PerBlock]
Entries(x) == {Entry(x, k) : k \in 0..(x.sz - 1)}

(* The inode of p's directory, as cached.                                  *)
Parent(p) == inner[op[p].dir][op[p].obj]

Goto(p, where) == pc' = [pc EXCEPT ![p] = where]
Return(p) ==
  /\ Goto(p, "idle")
  /\ op' = [op EXCEPT ![p] = NoOp]
  /\ buf' = [buf EXCEPT ![p] = [i \in Inums |-> Blank]]
Unlock(p) == writer' = [writer EXCEPT ![op[p].dir] = Absent]

(* A transfer succeeds (ok), or fails; a failed write may have landed.     *)
Transfer(ok) == ok \/ faults < MaxFaults
Count(ok) == faults' = IF ok THEN faults ELSE faults + 1

(* sys_open with O_CREAT on name n of directory d.                         *)
Open(p, d, n) ==
  /\ pc[p] = "idle"
  /\ op' = [op EXCEPT ![p] = [NoOp EXCEPT !.dir = d, !.name = n]]
  /\ Goto(p, "resolve")
  /\ UNCHANGED <<disk, memory, buf, faults, crashed, made>>

(* The walk to the directory: the root is always cached; the other one is  *)
(* looked up under the root's read lock.  read_inode returns the cached    *)
(* object, or lets go of the cache lock to read the inode ...              *)
Resolve(p) ==
  LET d == op[p].dir
  IN  /\ pc[p] = "resolve"
      /\ d # Root => writer[Root] = Absent
      /\ IF cache[d] # Absent
         THEN /\ op' = [op EXCEPT ![p].obj = cache[d]]
              /\ Goto(p, "open")
              /\ UNCHANGED <<readers, buf>>
         ELSE /\ buf' = [buf EXCEPT ![p] = itable]
              /\ readers' = [readers EXCEPT ![Root] = @ \cup {p}]
              /\ Goto(p, "insert")
              /\ UNCHANGED op
      /\ UNCHANGED <<disk, cache, inner, writer, faults, crashed, made>>

(* ... and inserts its object unless somebody else has done so meanwhile.  *)
(* Mutant: the blind insert the comment in read_inode warns of.            *)
Inserts_Blind(d) == TRUE

Inserts(d) == cache[d] = Absent

Insert(p) ==
  LET d == op[p].dir
  IN  /\ pc[p] = "insert"
      /\ IF Inserts(d)
         THEN /\ cache' = [cache EXCEPT ![d] = p]
              /\ inner' = [inner EXCEPT ![d][p] = buf[p][d]]
              /\ op' = [op EXCEPT ![p].obj = p]
         ELSE /\ op' = [op EXCEPT ![p].obj = cache[d]]
              /\ UNCHANGED <<cache, inner>>
      /\ readers' = [readers EXCEPT ![Root] = @ \ {p}]
      /\ Goto(p, "open")
      /\ UNCHANGED <<disk, writer, buf, faults, crashed, made>>

(* Finding the name caches its inode (read_inode).                         *)
Found(p) == {e \in Entries(Parent(p)) : e.name = op[p].name}

CacheFound(p) ==
  LET i == (CHOOSE e \in Found(p) : TRUE).inum
  IN  IF cache[i] = Absent
      THEN /\ cache' = [cache EXCEPT ![i] = p]
           /\ inner' = [inner EXCEPT ![i][p] = itable[i]]
      ELSE UNCHANGED <<cache, inner>>

(* vfs::open: an existing file is opened; NotFound leads to vfs::create.   *)
Lookup(p) ==
  /\ pc[p] = "open"
  /\ writer[op[p].dir] = Absent
  /\ IF Found(p) # {}
     THEN CacheFound(p) /\ Return(p)
     ELSE Goto(p, "create") /\ UNCHANGED <<cache, inner, op, buf>>
  /\ UNCHANGED <<disk, readers, writer, faults, crashed, made>>

(* create_file takes the write lock and looks the name up again.  Mutant:  *)
(* it relies on the lookup made before the lock.                           *)
NameTaken_Before(p) == FALSE

NameTaken(p) == Found(p) # {}

CreateFile(p) ==
  LET x   == Parent(p)
      idx == x.sz \div PerBlock
  IN  /\ pc[p] = "create"
      /\ writer[op[p].dir] = Absent
      /\ readers[op[p].dir] = {}
      /\ IF NameTaken(p)
         THEN CacheFound(p) /\ Return(p) /\ UNCHANGED writer
         ELSE /\ UNCHANGED <<cache, inner>>
              /\ IF idx >= DIRECT_BLOCKS
                 THEN Return(p) /\ UNCHANGED writer
                 ELSE /\ writer' = [writer EXCEPT ![op[p].dir] = p]
                      /\ op' = [op EXCEPT ![p].new = [x EXCEPT !.sz = @ + 1]]
                      /\ Goto(p, IF x.blocks[idx] = 0 THEN "block" ELSE "inode")
                      /\ UNCHANGED buf
      /\ UNCHANGED <<disk, readers, faults, crashed, made>>

(* A read of open or of the first part of create fails.                    *)
ReadError(p) ==
  /\ pc[p] \in {"resolve", "open", "create"}
  /\ faults < MaxFaults
  /\ Return(p)
  /\ Count(FALSE)
  /\ UNCHANGED <<disk, memory, crashed, made>>

Least(S) == {x \in S : \A y \in S : x <= y}

(* allocate_data_block: the first free bit, or an error.                   *)
AllocateBlock(p) ==
  LET free == (0..(NBLOCKS - DATA_BLOCK_START - 1)) \ dataBitmap
      idx  == Parent(p).sz \div PerBlock
  IN  /\ pc[p] = "block"
      /\ IF free = {}
         THEN Return(p) /\ Unlock(p) /\ UNCHANGED <<dataBitmap, faults>>
         ELSE \E bit \in Least(free), ok \in BOOLEAN, landed \in BOOLEAN :
                /\ Transfer(ok) /\ (ok => landed) /\ Count(ok)
                /\ dataBitmap' = IF landed THEN dataBitmap \cup {bit} ELSE dataBitmap
                /\ IF ok
                   THEN /\ op' = [op EXCEPT ![p].blk = DATA_BLOCK_START + bit,
                                              ![p].new.blocks[idx] = DATA_BLOCK_START + bit]
                        /\ Goto(p, "inode")
                        /\ UNCHANGED <<writer, buf>>
                   ELSE Return(p) /\ Unlock(p)
      /\ UNCHANGED <<image, inodeBitmap, itable, dirents, cache, inner, readers, crashed, made>>

(* allocate_inode searches from bit 1, as there is no inode 0.             *)
FreeInums == Inums \ inodeBitmap

(* allocate_inode; on an error the new block is given back.  Mutant: it is *)
(* not.                                                                    *)
NoInode_KeepsBlock(p) == "done"

NoInode(p) == "freeBlock"

AllocateInode(p) ==
  /\ pc[p] = "inode"
  /\ IF FreeInums = {}
     THEN Goto(p, NoInode(p)) /\ UNCHANGED <<inodeBitmap, op, faults>>
     ELSE \E i \in Least(FreeInums), ok \in BOOLEAN, landed \in BOOLEAN :
            /\ Transfer(ok) /\ (ok => landed) /\ Count(ok)
            /\ inodeBitmap' = IF landed THEN inodeBitmap \cup {i} ELSE inodeBitmap
            /\ IF ok
               THEN op' = [op EXCEPT ![p].inum = i] /\ Goto(p, "readNew")
               ELSE Goto(p, NoInode(p)) /\ UNCHANGED op
  /\ UNCHANGED <<image, dataBitmap, itable, dirents, memory, buf, crashed, made>>

-----------------------------------------------------------------------------
(* write_inode_to_block reads the sector, replaces one inode and writes    *)
(* all of it back.                                                         *)
SameSector(i, j) == i \div PerSector = j \div PerSector

ReadSector(p) ==
  /\ pc[p] \in {"readNew", "readParent", "readUndo"}
  /\ \E ok \in BOOLEAN :
       /\ Transfer(ok) /\ Count(ok)
       /\ buf' = IF ok THEN [buf EXCEPT ![p] = itable] ELSE buf
       /\ Goto(p, CASE pc[p] = "readNew"    -> IF ok THEN "writeNew" ELSE "freeInode"
                    [] pc[p] = "readParent" -> IF ok THEN "writeParent" ELSE "clearDirent"
                    [] OTHER                -> IF ok THEN "writeUndo" ELSE "done")
  /\ UNCHANGED <<disk, memory, op, crashed, made>>

WriteSector(p, i, x) ==
  itable' = [j \in Inums |-> IF j = i THEN x
                             ELSE IF SameSector(i, j) THEN buf[p][j] ELSE itable[j]]

(* The inode of the new file.                                              *)
WriteNewInode(p) ==
  /\ pc[p] = "writeNew"
  /\ \E ok \in BOOLEAN, landed \in BOOLEAN :
       /\ Transfer(ok) /\ (ok => landed) /\ Count(ok)
       /\ IF landed THEN WriteSector(p, op[p].inum, FileInode) ELSE UNCHANGED itable
       /\ Goto(p, IF ok THEN "dirent" ELSE "freeInode")
  /\ UNCHANGED <<image, inodeBitmap, dataBitmap, dirents, memory, op, buf, crashed, made>>

(* write_dirent, into the first entry beyond the directory's old size.     *)
WriteDirent(p, e) ==
  LET k == Parent(p).sz
  IN  dirents' = [dirents EXCEPT ![op[p].new.blocks[k \div PerBlock]][k % PerBlock] = e]

AddDirent(p) ==
  /\ pc[p] = "dirent"
  /\ \E ok \in BOOLEAN, landed \in BOOLEAN :
       /\ Transfer(ok) /\ (ok => landed) /\ Count(ok)
       /\ IF landed THEN WriteDirent(p, [inum |-> op[p].inum, name |-> op[p].name])
                    ELSE UNCHANGED dirents
       /\ Goto(p, IF ok THEN "readParent" ELSE "freeInode")
  /\ UNCHANGED <<image, inodeBitmap, dataBitmap, itable, memory, op, buf, crashed, made>>

(* What becomes of the cached parent once its new inode is on disk.        *)
(* Mutant: it keeps the old size.                                          *)
CachedParent_Old(p) == Parent(p)

CachedParent(p) == op[p].new

(* The directory's own inode, with the new size and block: then the file   *)
(* exists, the cached parent is updated and the new inode is cached.       *)
WriteParent(p) ==
  LET d == op[p].dir
      i == op[p].inum
  IN  /\ pc[p] = "writeParent"
      /\ \E ok \in BOOLEAN, landed \in BOOLEAN :
           /\ Transfer(ok) /\ (ok => landed) /\ Count(ok)
           /\ IF landed THEN WriteSector(p, d, op[p].new) ELSE UNCHANGED itable
           /\ IF ok
              THEN /\ inner' = [inner EXCEPT ![d][op[p].obj] = CachedParent(p),
                                             ![i][p] = FileInode]
                   /\ cache' = [cache EXCEPT ![i] = p]
                   /\ made' = made \cup {[dir |-> d, name |-> op[p].name, inum |-> i]}
                   /\ Unlock(p)
                   /\ Return(p)
              ELSE /\ Goto(p, "clearDirent")
                   /\ UNCHANGED <<cache, inner, writer, op, buf, made>>
      /\ UNCHANGED <<image, inodeBitmap, dataBitmap, dirents, readers, crashed>>

(* Undoing: the entry is emptied, whether that works or not ...            *)
ClearDirent(p) ==
  /\ pc[p] = "clearDirent"
  /\ \E ok \in BOOLEAN, landed \in BOOLEAN :
       /\ Transfer(ok) /\ (ok => landed) /\ Count(ok)
       /\ IF landed THEN WriteDirent(p, Empty) ELSE UNCHANGED dirents
  /\ Goto(p, "readUndo")
  /\ UNCHANGED <<image, inodeBitmap, dataBitmap, itable, memory, op, buf, crashed, made>>

(* ... and the old parent is written back.  Only if that works are the     *)
(* allocations freed.  Mutant: they are freed in any case.                 *)
UndoFailed_Frees(p) == "freeInode"

UndoFailed(p) == "done"

WriteUndo(p) ==
  /\ pc[p] = "writeUndo"
  /\ \E ok \in BOOLEAN, landed \in BOOLEAN :
       /\ Transfer(ok) /\ (ok => landed) /\ Count(ok)
       /\ IF landed THEN WriteSector(p, op[p].dir, Parent(p)) ELSE UNCHANGED itable
       /\ Goto(p, IF ok THEN "freeInode" ELSE UndoFailed(p))
  /\ UNCHANGED <<image, inodeBitmap, dataBitmap, dirents, memory, op, buf, crashed, made>>

(* free_create_allocations, best effort.                                   *)
FreeInode(p) ==
  /\ pc[p] = "freeInode"
  /\ \E ok \in BOOLEAN, landed \in BOOLEAN :
       /\ Transfer(ok) /\ (ok => landed) /\ Count(ok)
       /\ inodeBitmap' = IF landed THEN inodeBitmap \ {op[p].inum} ELSE inodeBitmap
  /\ Goto(p, "freeBlock")
  /\ UNCHANGED <<image, dataBitmap, itable, dirents, memory, op, buf, crashed, made>>

FreeBlock(p) ==
  /\ pc[p] = "freeBlock"
  /\ IF op[p].blk = 0
     THEN UNCHANGED <<dataBitmap, faults>>
     ELSE \E ok \in BOOLEAN, landed \in BOOLEAN :
            /\ Transfer(ok) /\ (ok => landed) /\ Count(ok)
            /\ dataBitmap' = IF landed THEN dataBitmap \ {op[p].blk - DATA_BLOCK_START} ELSE dataBitmap
  /\ Goto(p, "done")
  /\ UNCHANGED <<image, inodeBitmap, itable, dirents, memory, op, buf, crashed, made>>

(* create_file returns the error and drops the guard of the directory.     *)
Fail(p) ==
  /\ pc[p] = "done"
  /\ Return(p)
  /\ Unlock(p)
  /\ UNCHANGED <<disk, cache, inner, readers, faults, crashed, made>>

(* The machine stops; vsfs::initialize mounts what is on the disk.         *)
Crash ==
  /\ \E p \in Procs : pc[p] # "idle"
  /\ crashed' = TRUE
  /\ cache' = [i \in Inums |-> IF i = Root THEN Mount ELSE Absent]
  /\ inner' = [i \in Inums |-> [l \in Loaders |->
                                  IF i = Root /\ l = Mount THEN itable[i] ELSE Blank]]
  /\ readers' = [i \in Inums |-> {}]
  /\ writer' = [i \in Inums |-> Absent]
  /\ pc' = [p \in Procs |-> "idle"]
  /\ op' = [p \in Procs |-> NoOp]
  /\ buf' = [p \in Procs |-> [i \in Inums |-> Blank]]
  /\ UNCHANGED <<disk, faults, made>>

Next ==
  \/ \E p \in Procs :
       \/ \E d \in Dirs, n \in Names : Open(p, d, n)
       \/ Resolve(p) \/ Insert(p) \/ Lookup(p) \/ CreateFile(p) \/ ReadError(p)
       \/ AllocateBlock(p) \/ AllocateInode(p)
       \/ ReadSector(p) \/ WriteNewInode(p) \/ AddDirent(p) \/ WriteParent(p)
       \/ ClearDirent(p) \/ WriteUndo(p) \/ FreeInode(p) \/ FreeBlock(p) \/ Fail(p)
  \/ Crash

Spec == Init /\ [][Next]_vars

-----------------------------------------------------------------------------
(* Whenever the machine stops, the image is sound: the entries within a    *)
(* directory's size are empty or name allocated, written inodes, no name   *)
(* occurs twice in a directory, no file has two entries, and the blocks of *)
(* directories are allocated and not shared.                               *)
DiskSound ==
  LET Slots == {s \in Dirs \X (0..(PerBlock * DIRECT_BLOCKS - 1)) : s[2] < itable[s[1]].sz}
      At(s) == Entry(itable[s[1]], s[2])
      Block(s) == itable[s[1]].blocks[s[2] \div PerBlock]
  IN  /\ \A d \in Dirs : itable[d].ty = "dir"
      /\ \A s \in Slots :
           /\ Block(s) - DATA_BLOCK_START \in dataBitmap
           /\ At(s) # Empty => At(s).inum \in inodeBitmap /\ itable[At(s).inum].ty # "none"
      /\ \A s, t \in Slots :
           /\ Block(s) = Block(t) => s[1] = t[1] /\ s[2] \div PerBlock = t[2] \div PerBlock
           /\ (s # t /\ At(s) # Empty /\ At(t) # Empty) =>
                /\ s[1] = t[1] => At(s).name # At(t).name
                /\ At(s).name \in Names => At(s).inum # At(t).inum

(* The blocks of an inode, the indirect one included.                      *)
Owned(x) == (({x.blocks[k] : k \in DOMAIN x.blocks} \cup {x.indirect}) \ {0})
              \cup (IF x.indirect = 0 THEN {} ELSE pointers[x.indirect])

(* Every failed create gives back what it took, when no transfer failed:   *)
(* between operations exactly the inodes and blocks in use are allocated,  *)
(* and so they are in the image the tool made.                             *)
NothingLeaks ==
  (faults = 0 /\ ~crashed /\ \A p \in Procs : pc[p] = "idle") =>
    LET used == Dirs \cup {e.inum : e \in UNION {Entries(itable[d]) : d \in Dirs}}
    IN  /\ inodeBitmap = used
        /\ dataBitmap = {b - DATA_BLOCK_START : b \in UNION {Owned(itable[i]) : i \in used}}

(* Inode i is the node: its kind, a file's size, and blocks that are       *)
(* allocated and belong to no other inode.                                 *)
IsKept(node, i) ==
  LET x == itable[i]
  IN  /\ x.ty = node.kind
      /\ node.kind = "file" =>
           /\ x.sz = node.size
           /\ Cardinality(Owned(x) \ {x.indirect}) = blocks_needed(node.size)
      /\ \A b \in Owned(x) : b - DATA_BLOCK_START \in dataBitmap
      /\ \A j \in inodeBitmap \ {i} : Owned(itable[j]) \cap Owned(x) = {}

Leads(i, name, j) == [inum |-> j, name |-> name] \in Entries(itable[i])

(* What the tool put into the image stays there, whatever the kernel       *)
(* creates, fails to create or is stopped in: every file and directory of  *)
(* the layout is found under its path (of at most two names), and is kept. *)
LayoutIsKept ==
  /\ IsKept(layout, Root)
  /\ \A k \in DOMAIN layout.children : \E i \in Inums :
       LET dir == layout.children[k]
       IN  /\ Leads(Root, dir.name, i)
           /\ IsKept(dir, i)
           /\ \A l \in DOMAIN dir.children : \E j \in Inums :
                /\ Leads(i, dir.children[l].name, j)
                /\ IsKept(dir.children[l], j)

(* A cached inode that nobody is changing is what the disk holds.          *)
CacheMatchesDisk ==
  faults = 0 =>
    \A i \in Inums : (cache[i] # Absent /\ writer[i] = Absent) => inner[i][cache[i]] = itable[i]

(* There is one object per inode ("1 reference counting per inode"): every *)
(* hart works on the cached object of its directory, and so on the same    *)
(* lock.                                                                   *)
OneObjectPerInode ==
  \A p \in Procs :
    pc[p] \notin {"idle", "resolve", "insert"} => op[p].obj = cache[op[p].dir]

(* A create that returned Ok is durable: its entry stays in the directory, *)
(* through later failures and power cycles.                                *)
CreatedIsDurable ==
  \A f \in made :
    /\ [inum |-> f.inum, name |-> f.name] \in Entries(itable[f.dir])
    /\ f.inum \in inodeBitmap

(* "This lets independent inodes be accessed in parallel" (the crate's     *)
(* comment): a hart that creates a file in one directory does not undo the *)
(* file that another hart created in another one.                          *)
IndependentInodes == CreatedIsDurable
=============================================================================
