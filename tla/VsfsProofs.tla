------------------------------ MODULE VsfsProofs ------------------------------
(***************************************************************************)
(* Proofs about Vsfs for every image that is sound, every number of        *)
(* failing transfers and power losses.  The properties build on each       *)
(* other: one object per directory (Typed, Objects), what a creation may   *)
(* touch (IInv), the entries (EInv), the cache (Agree), and what is        *)
(* allocated (Balanced).  What only one of these needs is a step of the    *)
(* lemma about Next that ends its part.                                    *)
(***************************************************************************)
EXTENDS Vsfs, TLAPS

USE ZenonT(20)

-----------------------------------------------------------------------------
(* The places of create_file at which the directory is locked, at which it *)
(* has an inode number, and at which the disk does not name its block.     *)
HasInode ==
  {"readNew", "writeNew", "dirent", "readParent", "writeParent", "clearDirent", "readUndo",
   "writeUndo", "freeInode"}
Writing == HasInode \cup {"block", "inode", "freeBlock", "done"}
Unlinked == {"inode", "readNew", "writeNew", "dirent", "readParent", "freeInode", "freeBlock"}
Places == Writing \cup {"idle", "resolve", "insert", "open", "create"}

Ops ==
  [dir : Dirs, name : Names \cup {NoName}, obj : Loaders, inum : Nat, blk : Nat, new : Inodes]

Typed ==
  /\ inodeBitmap \subseteq Inums /\ itable \in [Inums -> Inodes]
  /\ cache \in [Inums -> Loaders \cup {Absent}] /\ inner \in [Inums -> [Loaders -> Inodes]]
  /\ pc \in [Procs -> Places] /\ op \in [Procs -> Ops] /\ buf \in [Procs -> [Inums -> Inodes]]

(* The kernel allocates inode numbers that are no directory's, and caches  *)
(* one object per directory.                                               *)
Objects ==
  /\ Dirs \subseteq inodeBitmap
  /\ cache[Root] # Absent
  /\ \A p \in Procs : pc[p] \in HasInode => op[p].inum \in Inums \ Dirs
  /\ \A p \in Procs : pc[p] \notin {"idle", "resolve", "insert"} =>
       op[p].obj = cache[op[p].dir] /\ cache[op[p].dir] # Absent

-----------------------------------------------------------------------------
Cached(d) == inner[d][cache[d]]

(* What the disk has of a directory begins with what is cached of it.      *)
Follows(x, c) ==
  /\ c.sz <= x.sz /\ c.ty = x.ty /\ c.indirect = x.indirect
  /\ \A j \in Indices : c.blocks[j] # 0 => c.blocks[j] = x.blocks[j]

(* The block of the next entry; n is c with one entry more.                *)
Target(c) == c.sz \div PerBlock

Grown(c, n, blk) ==
  /\ Target(c) \in Indices
  /\ n.sz = c.sz + 1 /\ n.ty = c.ty /\ n.indirect = c.indirect
  /\ \A j \in Indices \ {Target(c)} : n.blocks[j] = c.blocks[j]
  /\ IF blk = 0
     THEN n.blocks[Target(c)] = c.blocks[Target(c)] /\ c.blocks[Target(c)] # 0
     ELSE n.blocks[Target(c)] = blk /\ c.blocks[Target(c)] = 0 /\ blk \in Blocks

Directories ==
  /\ \A d \in Dirs : itable[d].ty = "dir" /\ FitsSize(itable[d])
  /\ BlocksOwned(itable, dataBitmap)
  /\ DOMAIN dirents = Blocks /\ \A b \in Blocks : DOMAIN dirents[b] = 0..(PerBlock - 1)

CacheFollows ==
  \A d \in Dirs : cache[d] # Absent => FitsSize(Cached(d)) /\ Follows(itable[d], Cached(d))

(* A creation in progress, of the only hart.                               *)
Operation(w, o, c, table, bitmap) ==
  /\ w \notin Writing => o.blk = 0
  /\ w = "block" =>
       /\ Target(c) \in Indices /\ c.blocks[Target(c)] = 0
       /\ o.blk = 0 /\ o.new = [c EXCEPT !.sz = @ + 1]
  /\ w \in Writing \ {"block"} =>
       /\ Grown(c, o.new, o.blk)
       /\ o.blk # 0 => \A d \in Dirs, j \in Indices :
            table[d].blocks[j] = o.blk => d = o.dir /\ j = Target(c)
  /\ w \in Writing \ {"block", "done"} /\ o.blk # 0 => o.blk - DATA_BLOCK_START \in bitmap
  /\ w \in Unlinked /\ o.blk # 0 =>
       \A d \in Dirs, j \in Indices : table[d].blocks[j] # o.blk

Operations == \A p \in Procs : Operation(pc[p], op[p], Parent(p), itable, dataBitmap)

Buffers ==
  \A p \in Procs :
    pc[p] \in {"insert", "writeNew", "writeParent", "writeUndo"} => buf[p] = itable

(* The entry that is being added is on the disk.                           *)
Added ==
  \A p \in Procs : pc[p] \in {"readParent", "writeParent"} =>
    Entry(op[p].new, Parent(p).sz) = [inum |-> op[p].inum, name |-> op[p].name]

(* The entries of d that neither the kernel nor a power loss forgets.      *)
Firm(d) == IF cache[d] = Absent THEN itable[d].sz ELSE Cached(d).sz

Durable ==
  \A f \in made :
    /\ f.dir \in Dirs /\ f.inum \in inodeBitmap
    /\ \E k \in Nat : k < Firm(f.dir) /\ Entry(itable[f.dir], k) = [inum |-> f.inum, name |-> f.name]

(* The inode being created is allocated, and is no other file's.           *)
Allocated ==
  \A p \in Procs : pc[p] \in HasInode =>
    op[p].inum \in inodeBitmap /\ \A f \in made : op[p].inum # f.inum

OneHart == \A p, q \in Procs : p = q

IInv ==
  /\ Typed /\ Objects /\ Directories /\ CacheFollows
  /\ Operations /\ Buffers /\ Added /\ Allocated /\ Durable

-----------------------------------------------------------------------------
(* Types.                                                                  *)

LEMMA BlankTyped == Blank \in Inodes /\ FileInode \in Inodes
<1>1. NoBlocks \in [Indices -> Nat]
  BY SMTT(30) DEF NoBlocks, Indices
<1> QED
  BY <1>1, SMTT(30) DEF Blank, FileInode, Inodes

LEMMA NoOpTyped == NoOp \in Ops
BY BlankTyped, SMTT(30) DEF NoOp, Ops, Dirs, Root, Loaders

LEMMA DirsTyped ==
  ASSUME Typed, Objects
  PROVE  Dirs \subseteq Inums /\ Root \in Dirs /\ Root \in Inums
BY DEF Typed, Objects, Dirs

(* The step of p to another place, and its return.                         *)
LEMMA Goes ==
  ASSUME Typed, NEW p \in Procs, NEW w \in Places, Goto(p, w)
  PROVE  /\ pc' \in [Procs -> Places] /\ pc'[p] = w
         /\ \A q \in Procs \ {p} : pc'[q] = pc[q]
BY DEF Typed, Goto

LEMMA SetsOp ==
  ASSUME Typed, NEW p \in Procs, NEW o \in Ops, op' = [op EXCEPT ![p] = o]
  PROVE  /\ op' \in [Procs -> Ops] /\ op'[p] = o
         /\ \A q \in Procs \ {p} : op'[q] = op[q]
BY DEF Typed

LEMMA Returns ==
  ASSUME Typed, NEW p \in Procs, Return(p)
  PROVE  /\ pc' \in [Procs -> Places] /\ pc'[p] = "idle"
         /\ op' \in [Procs -> Ops] /\ op'[p] = NoOp
         /\ buf' \in [Procs -> [Inums -> Inodes]]
         /\ \A q \in Procs \ {p} : pc'[q] = pc[q] /\ op'[q] = op[q]
<1>1. "idle" \in Places /\ Goto(p, "idle")
  BY DEF Places, Return
<1>2. [i \in Inums |-> Blank] \in [Inums -> Inodes]
  BY BlankTyped
<1>3. buf' \in [Procs -> [Inums -> Inodes]]
  BY <1>2 DEF Return, Typed
<1>4. op' = [op EXCEPT ![p] = NoOp]
  BY DEF Return
<1> QED
  BY <1>1, <1>3, <1>4, Goes, SetsOp, NoOpTyped

LEMMA ObjectsKept ==
  ASSUME Typed, Objects, Typed', NEW p \in Procs, Dirs \subseteq inodeBitmap',
         \A q \in Procs \ {p} : pc'[q] = pc[q] /\ op'[q] = op[q],
         \A d \in Dirs : cache[d] # Absent => cache'[d] = cache[d],
         pc'[p] \in HasInode => op'[p].inum \in Inums \ Dirs,
         pc'[p] \notin {"idle", "resolve", "insert"} =>
           op'[p].obj = cache'[op'[p].dir] /\ cache'[op'[p].dir] # Absent
  PROVE  Objects'
<1>1. cache'[Root] # Absent
  BY DirsTyped DEF Objects
<1>2. ASSUME NEW q \in Procs, pc'[q] \in HasInode
      PROVE  op'[q].inum \in Inums \ Dirs
  <2>1. CASE q = p
    BY <1>2, <2>1
  <2>2. CASE q # p
    BY <1>2, <2>2 DEF Objects
  <2> QED
    BY <2>1, <2>2
<1>3. ASSUME NEW q \in Procs, pc'[q] \notin {"idle", "resolve", "insert"}
      PROVE  op'[q].obj = cache'[op'[q].dir] /\ cache'[op'[q].dir] # Absent
  <2>1. CASE q = p
    BY <1>3, <2>1
  <2>2. CASE q # p
    <3>1. op'[q] = op[q] /\ pc'[q] = pc[q]
      BY <2>2
    <3>2. op[q].obj = cache[op[q].dir] /\ cache[op[q].dir] # Absent
      BY <1>3, <3>1 DEF Objects
    <3>3. op[q] \in Ops
      BY DEF Typed
    <3>4. op[q].dir \in Dirs
      BY <3>3, SMTT(30) DEF Ops
    <3>5. cache'[op[q].dir] = cache[op[q].dir]
      BY <3>2, <3>4
    <3> QED
      BY <3>1, <3>2, <3>5
  <2> QED
    BY <2>1, <2>2
<1> QED
  BY <1>1, <1>2, <1>3 DEF Objects

LEMMA Outside ==
  ASSUME NEW S, NEW T, NEW f \in [S -> T], NEW i, i \notin S, NEW x
  PROVE  [f EXCEPT ![i] = x] = f
OBVIOUS

(* A new object of a directory, as loaded by p.                            *)
LEMMA Loads ==
  ASSUME Typed, NEW p \in Procs, NEW i, NEW x, i \in Inums => x \in Inodes,
         cache' = [cache EXCEPT ![i] = p], inner' = [inner EXCEPT ![i][p] = x]
  PROVE  /\ cache' \in [Inums -> Loaders \cup {Absent}]
         /\ inner' \in [Inums -> [Loaders -> Inodes]]
         /\ i \in Inums => cache'[i] = p /\ inner'[i][p] = x
         /\ \A j \in Inums \ {i} : cache'[j] = cache[j] /\ inner'[j] = inner[j]
<1>1. p \in Loaders
  BY DEF Loaders
<1>2. CASE i \in Inums
  <2>1. inner[i] \in [Loaders -> Inodes] /\ x \in Inodes
    BY <1>2 DEF Typed
  <2>2. [inner[i] EXCEPT ![p] = x] \in [Loaders -> Inodes]
    BY <1>1, <2>1
  <2>3. inner' = [inner EXCEPT ![i] = [inner[i] EXCEPT ![p] = x]]
    OBVIOUS
  <2>4. /\ inner' \in [Inums -> [Loaders -> Inodes]]
        /\ inner'[i] = [inner[i] EXCEPT ![p] = x]
        /\ \A j \in Inums \ {i} : inner'[j] = inner[j]
    BY <1>2, <2>2, <2>3 DEF Typed
  <2>5. inner'[i][p] = x
    BY <1>1, <2>1, <2>4
  <2>6. /\ cache' \in [Inums -> Loaders \cup {Absent}] /\ cache'[i] = p
        /\ \A j \in Inums \ {i} : cache'[j] = cache[j]
    BY <1>1, <1>2 DEF Typed
  <2> QED
    BY <2>4, <2>5, <2>6
<1>3. CASE i \notin Inums
  <2>1. /\ DOMAIN cache' = Inums /\ DOMAIN inner' = Inums
        /\ \A j \in Inums : cache'[j] = cache[j] /\ inner'[j] = inner[j]
    BY <1>3 DEF Typed
  <2>2. cache' = cache
    BY <1>3, Outside, ZenonT(90) DEF Typed
  <2>3. inner' = inner
    <3>1. PICK y : y = [inner[i] EXCEPT ![p] = x]
      OBVIOUS
    <3>2. inner' = [inner EXCEPT ![i] = y]
      BY <3>1
    <3>3. PICK T : T = [Loaders -> Inodes]
      OBVIOUS
    <3>4. inner \in [Inums -> T]
      BY <3>3 DEF Typed
    <3>5. [inner EXCEPT ![i] = y] = inner
      BY <1>3, <3>4, Outside
    <3> QED
      BY <3>2, <3>5
  <2> QED
    BY <1>3, <2>1, <2>2, <2>3 DEF Typed
<1> QED
  BY <1>2, <1>3

-----------------------------------------------------------------------------
(* The kernel keeps its types and its one object per directory.            *)

LEMMA OpFields ==
  ASSUME Typed, NEW p \in Procs
  PROVE  /\ op[p] \in Ops /\ op[p].dir \in Dirs /\ op[p].obj \in Loaders
         /\ op[p].inum \in Nat /\ op[p].blk \in Nat /\ op[p].new \in Inodes
         /\ buf[p] \in [Inums -> Inodes] /\ pc[p] \in Places
<1>1. op[p] \in Ops /\ buf[p] \in [Inums -> Inodes] /\ pc[p] \in Places
  BY DEF Typed
<1> QED
  BY <1>1, SMTT(30) DEF Ops

LEMMA ParentTyped ==
  ASSUME Typed, Objects, NEW p \in Procs
  PROVE  Parent(p) \in Inodes
<1>1. op[p].dir \in Inums /\ op[p].obj \in Loaders
  BY OpFields, DirsTyped
<1> QED
  BY <1>1 DEF Typed, Parent

(* Changing one field of an operation.                                     *)
LEMMA ObjSet ==
  ASSUME NEW o \in Ops, NEW l \in Loaders
  PROVE  \E w \in Ops :
           w = [o EXCEPT !.obj = l] /\ w.obj = l /\ w.dir = o.dir /\ w.blk = o.blk
<1>1. PICK w : w = [o EXCEPT !.obj = l]
  OBVIOUS
<1>2. w \in Ops
  BY <1>1, SMTT(30) DEF Ops
<1>3. w.obj = l /\ w.dir = o.dir /\ w.blk = o.blk
  BY <1>1, SMTT(30) DEF Ops
<1> QED
  BY <1>1, <1>2, <1>3

LEMMA NewSet ==
  ASSUME NEW o \in Ops, NEW x \in Inodes
  PROVE  \E w \in Ops :
           /\ w = [o EXCEPT !.new = x] /\ w.new = x
           /\ w.obj = o.obj /\ w.dir = o.dir /\ w.inum = o.inum /\ w.blk = o.blk /\ w.name = o.name
<1>1. PICK w : w = [o EXCEPT !.new = x]
  OBVIOUS
<1>2. w \in Ops
  BY <1>1, SMTT(30) DEF Ops
<1>3. w.new = x /\ w.obj = o.obj /\ w.dir = o.dir /\ w.inum = o.inum /\ w.blk = o.blk
  BY <1>1, SMTT(30) DEF Ops
<1>4. w.name = o.name
  BY <1>1, SMTT(30) DEF Ops
<1> QED
  BY <1>1, <1>2, <1>3, <1>4

LEMMA InumSet ==
  ASSUME NEW o \in Ops, NEW i \in Nat
  PROVE  \E w \in Ops :
           /\ w = [o EXCEPT !.inum = i] /\ w.inum = i
           /\ w.obj = o.obj /\ w.dir = o.dir /\ w.blk = o.blk /\ w.new = o.new /\ w.name = o.name
<1>1. PICK w : w = [o EXCEPT !.inum = i]
  OBVIOUS
<1>2. w \in Ops
  BY <1>1, SMTT(30) DEF Ops
<1>3. w.inum = i /\ w.obj = o.obj /\ w.dir = o.dir /\ w.new = o.new /\ w.blk = o.blk
  BY <1>1, SMTT(30) DEF Ops
<1>4. w.name = o.name
  BY <1>1, SMTT(30) DEF Ops
<1> QED
  BY <1>1, <1>2, <1>3, <1>4

LEMMA BlkSet ==
  ASSUME NEW o \in Ops, NEW b \in Nat
  PROVE  \E w \in Ops :
           /\ w = [o EXCEPT !.blk = b] /\ w.blk = b
           /\ w.obj = o.obj /\ w.dir = o.dir /\ w.inum = o.inum /\ w.new = o.new /\ w.name = o.name
<1>1. PICK w : w = [o EXCEPT !.blk = b]
  OBVIOUS
<1>2. w \in Ops
  BY <1>1, SMTT(30) DEF Ops
<1>3. w.blk = b /\ w.obj = o.obj /\ w.dir = o.dir /\ w.new = o.new /\ w.inum = o.inum
  BY <1>1, SMTT(30) DEF Ops
<1>4. w.name = o.name
  BY <1>1, SMTT(30) DEF Ops
<1> QED
  BY <1>1, <1>2, <1>3, <1>4

(* An operation that ends, and one that goes on as it is.                  *)
LEMMA EndObjects ==
  ASSUME Typed, Objects, NEW p \in Procs, Return(p), UNCHANGED <<inodeBitmap, itable>>,
         cache' \in [Inums -> Loaders \cup {Absent}], inner' \in [Inums -> [Loaders -> Inodes]],
         \A d \in Dirs : cache[d] # Absent => cache'[d] = cache[d]
  PROVE  Typed' /\ Objects'
<1>1. /\ pc' \in [Procs -> Places] /\ pc'[p] = "idle"
      /\ op' \in [Procs -> Ops] /\ buf' \in [Procs -> [Inums -> Inodes]]
      /\ \A q \in Procs \ {p} : pc'[q] = pc[q] /\ op'[q] = op[q]
  BY Returns
<1>2. Typed'
  BY <1>1 DEF Typed
<1>3. Dirs \subseteq inodeBitmap' /\ "idle" \notin HasInode
  BY DEF Objects, HasInode
<1> QED
  BY <1>1, <1>2, <1>3, ObjectsKept

(* Caching the inode of the name that was found.                           *)
LEMMA FoundCached ==
  ASSUME Typed, Objects, NEW p \in Procs, CacheFound(p)
  PROVE  /\ cache' \in [Inums -> Loaders \cup {Absent}]
         /\ inner' \in [Inums -> [Loaders -> Inodes]]
         /\ \A d \in Dirs : cache[d] # Absent => cache'[d] = cache[d] /\ inner'[d] = inner[d]
         /\ \A d \in Dirs : cache[d] = Absent =>
              cache'[d] = Absent \/ (cache'[d] = p /\ inner'[d][p] = itable[d])
<1>1. PICK i : i = (CHOOSE e \in Found(p) : TRUE).inum
  OBVIOUS
<1>2. CASE cache[i] = Absent
  <2>1. PICK x : x = itable[i]
    OBVIOUS
  <2>2. cache' = [cache EXCEPT ![i] = p] /\ inner' = [inner EXCEPT ![i][p] = x]
    BY <1>1, <1>2, <2>1 DEF CacheFound
  <2>3. i \in Inums => x \in Inodes
    BY <2>1 DEF Typed
  <2>4. /\ cache' \in [Inums -> Loaders \cup {Absent}]
        /\ inner' \in [Inums -> [Loaders -> Inodes]]
        /\ i \in Inums => cache'[i] = p /\ inner'[i][p] = x
        /\ \A j \in Inums \ {i} : cache'[j] = cache[j] /\ inner'[j] = inner[j]
    BY <2>2, <2>3, Loads
  <2> QED
    BY <1>2, <2>1, <2>4, DirsTyped
<1>3. CASE cache[i] # Absent
  <2>1. UNCHANGED <<cache, inner>>
    BY <1>1, <1>3 DEF CacheFound
  <2> QED
    BY <2>1 DEF Typed
<1> QED
  BY <1>2, <1>3

LEMMA FailObjects ==
  ASSUME Typed, Objects, NEW p \in Procs, Fail(p)
  PROVE  Typed' /\ Objects'
<1>1. UNCHANGED <<inodeBitmap, itable, cache, inner>> /\ Return(p)
  BY DEF Fail, disk, memory
<1> QED
  BY <1>1, EndObjects DEF Typed

(* The block that allocate_data_block finds for the directory.             *)
LEMMA BlockTaken ==
  ASSUME Typed, Objects, NEW p \in Procs, AllocateBlock(p), ~Return(p)
  PROVE  \E bit \in (0..(NBLOCKS - DATA_BLOCK_START - 1)) \ dataBitmap, b \in Nat, v \in Ops,
            g \in [Indices -> Nat] :
           /\ b = DATA_BLOCK_START + bit /\ dataBitmap' = dataBitmap \cup {bit}
           /\ op' = [op EXCEPT ![p] = v] /\ v.blk = b
           /\ v.obj = op[p].obj /\ v.dir = op[p].dir /\ v.name = op[p].name
           /\ v.new.sz = op[p].new.sz /\ v.new.ty = op[p].new.ty
           /\ v.new.indirect = op[p].new.indirect
           /\ g = op[p].new.blocks
           /\ v.new.blocks = [g EXCEPT ![Target(Parent(p))] = b]
           /\ Goto(p, "inode") /\ UNCHANGED buf
<1>1. PICK bit \in (0..(NBLOCKS - DATA_BLOCK_START - 1)) \ dataBitmap :
        /\ dataBitmap' = dataBitmap \cup {bit}
        /\ op' = [op EXCEPT ![p].blk = DATA_BLOCK_START + bit,
                  ![p].new.blocks[Parent(p).sz \div PerBlock] = DATA_BLOCK_START + bit]
        /\ Goto(p, "inode") /\ UNCHANGED buf
  BY DEF AllocateBlock, Least
<1>2. PICK b \in Nat : b = DATA_BLOCK_START + bit
  BY VsfsAssumption, SMTT(30)
<1>3. PICK k : k = Target(Parent(p))
  OBVIOUS
<1>4. op' = [op EXCEPT ![p].blk = b, ![p].new.blocks[k] = b]
  BY <1>1, <1>2, <1>3 DEF Target
<1>5. PICK o \in Ops, x \in Inodes : o = op[p] /\ x = o.new
  BY OpFields
<1>6. PICK y : y = [x EXCEPT !.blocks[k] = b]
  OBVIOUS
<1>7. /\ y \in Inodes /\ y.blocks = [x.blocks EXCEPT ![k] = b]
      /\ y.ty = x.ty /\ y.sz = x.sz /\ y.indirect = x.indirect
  <2>1. PICK f \in [Indices -> Nat] : f = x.blocks
    BY SMTT(30) DEF Inodes
  <2>2. PICK h : h = [f EXCEPT ![k] = b]
    OBVIOUS
  <2>3. h \in [Indices -> Nat]
    BY <2>2
  <2>4. y = [x EXCEPT !.blocks = h]
    BY <1>6, <2>1, <2>2
  <2>5. y \in Inodes
    BY <2>3, <2>4, SMTT(30) DEF Inodes
  <2>6. y.blocks = h /\ y.ty = x.ty /\ y.sz = x.sz /\ y.indirect = x.indirect
    BY <2>3, <2>4, SMTT(30) DEF Inodes
  <2> QED
    BY <2>1, <2>2, <2>5, <2>6
<1>8. PICK u \in Ops :
        /\ u = [o EXCEPT !.blk = b] /\ u.blk = b
        /\ u.obj = o.obj /\ u.dir = o.dir /\ u.inum = o.inum /\ u.new = o.new /\ u.name = o.name
  BY BlkSet
<1>9. PICK v \in Ops :
        /\ v = [u EXCEPT !.new = y] /\ v.new = y
        /\ v.obj = u.obj /\ v.dir = u.dir /\ v.inum = u.inum /\ v.blk = u.blk /\ v.name = u.name
  BY <1>7, NewSet
<1>10. op' = [op EXCEPT ![p] = [[o EXCEPT !.blk = b] EXCEPT !.new = [o.new EXCEPT !.blocks[k] = b]]]
  BY <1>4, <1>5 DEF Typed
<1>11. op' = [op EXCEPT ![p] = v]
  BY <1>5, <1>6, <1>8, <1>9, <1>10
<1>12. PICK g \in [Indices -> Nat] : g = x.blocks
  BY SMTT(30) DEF Inodes
<1>13. v.new.blocks = [g EXCEPT ![k] = b]
  BY <1>7, <1>9, <1>12
<1>14. v.blk = b /\ v.obj = op[p].obj /\ v.dir = op[p].dir /\ v.name = op[p].name
  BY <1>5, <1>8, <1>9
<1>15. /\ v.new.sz = op[p].new.sz /\ v.new.ty = op[p].new.ty
       /\ v.new.indirect = op[p].new.indirect /\ g = op[p].new.blocks
  BY <1>5, <1>7, <1>9, <1>12
<1> QED
  BY <1>1, <1>2, <1>3, <1>11, <1>13, <1>14, <1>15

(* The cached objects after the directory's inode has been written.        *)
LEMMA ParentCached ==
  ASSUME Typed, Objects, NEW p \in Procs, NEW d \in Inums, NEW l \in Loaders, NEW x \in Inodes,
         NEW i \in Inums \ Dirs, d \in Dirs,
         inner' = [inner EXCEPT ![d][l] = x, ![i][p] = FileInode],
         cache' = [cache EXCEPT ![i] = p]
  PROVE  /\ cache' \in [Inums -> Loaders \cup {Absent}]
         /\ inner' \in [Inums -> [Loaders -> Inodes]]
         /\ \A e \in Dirs : cache'[e] = cache[e]
         /\ inner'[d][l] = x /\ \A e \in Dirs \ {d} : inner'[e] = inner[e]
<1>1. p \in Loaders /\ i # d
  BY DEF Loaders
<1>2. PICK f : f = [inner EXCEPT ![d][l] = x]
  OBVIOUS
<1>3. PICK g : g = [inner[d] EXCEPT ![l] = x]
  OBVIOUS
<1>4. g \in [Loaders -> Inodes] /\ g[l] = x
  BY <1>3 DEF Typed
<1>5. f = [inner EXCEPT ![d] = g]
  BY <1>2, <1>3
<1>6. f \in [Inums -> [Loaders -> Inodes]] /\ f[d] = g /\ \A e \in Inums \ {d} : f[e] = inner[e]
  BY <1>4, <1>5 DEF Typed
<1>7. PICK h : h = [f[i] EXCEPT ![p] = FileInode]
  OBVIOUS
<1>8. h \in [Loaders -> Inodes]
  BY <1>1, <1>6, <1>7, BlankTyped
<1>9. inner' = [f EXCEPT ![i][p] = FileInode]
  BY <1>2
<1>10. inner' = [f EXCEPT ![i] = h]
  BY <1>7, <1>9
<1>11. /\ inner' \in [Inums -> [Loaders -> Inodes]]
       /\ \A e \in Inums \ {i} : inner'[e] = f[e]
  BY <1>6, <1>8, <1>10
<1>12. inner'[d][l] = x /\ \A e \in Dirs \ {d} : inner'[e] = inner[e]
  BY <1>1, <1>4, <1>6, <1>11, DirsTyped
<1>13. cache' \in [Inums -> Loaders \cup {Absent}] /\ \A e \in Inums \ {i} : cache'[e] = cache[e]
  BY <1>1 DEF Typed
<1> QED
  BY <1>11, <1>12, <1>13, DirsTyped

(* What mounting makes of the memory.                                      *)
LEMMA MountTyped ==
  ASSUME NEW T \in [Inums -> Inodes], NEW c, NEW f,
         c = [i \in Inums |-> IF i = Root THEN Mount ELSE Absent],
         f = [i \in Inums |-> [l \in Loaders |-> IF i = Root /\ l = Mount THEN T[i] ELSE Blank]]
  PROVE  c \in [Inums -> Loaders \cup {Absent}] /\ f \in [Inums -> [Loaders -> Inodes]]
<1>1. \A i \in Inums : T[i] \in Inodes
  OBVIOUS
<1>2. Mount \in Loaders
  BY DEF Loaders
<1> QED
  BY <1>1, <1>2, BlankTyped

LEMMA NextObjects == Typed /\ Objects /\ [Next]_vars => Typed' /\ Objects'
<1>OpenObjects.
    ASSUME Typed, Objects, NEW p \in Procs, NEW d \in Dirs, NEW n \in Names, Open(p, d, n)
    PROVE  Typed' /\ Objects'
  <2> USE <1>OpenObjects
  <2>1. "resolve" \in Places /\ Goto(p, "resolve")
    BY DEF Places, Open
  <2>2. [NoOp EXCEPT !.dir = d, !.name = n] \in Ops
    <3>1. PICK o \in Ops : o = NoOp
      BY NoOpTyped
    <3>2. PICK v \in Ops : v = [o EXCEPT !.dir = d]
      <4>1. [o EXCEPT !.dir = d] \in Ops
        BY SMTT(30) DEF Ops
      <4> QED
        BY <4>1
    <3>3. [v EXCEPT !.name = n] \in Ops
      BY SMTT(30) DEF Ops
    <3>4. [o EXCEPT !.dir = d, !.name = n] = [[o EXCEPT !.dir = d] EXCEPT !.name = n]
      OBVIOUS
    <3> QED
      BY <3>1, <3>2, <3>3, <3>4
  <2>3. op' = [op EXCEPT ![p] = [NoOp EXCEPT !.dir = d, !.name = n]]
    BY DEF Open
  <2>4. UNCHANGED <<inodeBitmap, itable, cache, inner, buf>>
    BY DEF Open, disk, memory
  <2>5. /\ pc' \in [Procs -> Places] /\ op' \in [Procs -> Ops] /\ pc'[p] = "resolve"
        /\ \A q \in Procs \ {p} : pc'[q] = pc[q] /\ op'[q] = op[q]
    BY <2>1, <2>2, <2>3, Goes, SetsOp
  <2>6. Typed'
    BY <2>4, <2>5 DEF Typed
  <2>7. pc'[p] \notin HasInode /\ pc'[p] \in {"idle", "resolve", "insert"}
    BY <2>5 DEF HasInode
  <2>8. Dirs \subseteq inodeBitmap' /\ cache' = cache
    BY <2>4 DEF Objects
  <2> QED
    BY <2>5, <2>6, <2>7, <2>8, ObjectsKept
<1>ResolveObjects.
    ASSUME Typed, Objects, NEW p \in Procs, Resolve(p)
    PROVE  Typed' /\ Objects'
  <2> USE <1>ResolveObjects
  <2>1. PICK d \in Dirs, o \in Ops : d = op[p].dir /\ o = op[p]
    BY OpFields
  <2>2. UNCHANGED <<inodeBitmap, itable, cache, inner>>
    BY DEF Resolve, disk
  <2>3. cache[d] \in Loaders \cup {Absent}
    BY <2>1, DirsTyped DEF Typed
  <2>4. Dirs \subseteq inodeBitmap' /\ cache' = cache
    BY <2>2 DEF Objects
  <2>5. CASE cache[d] # Absent
    <3>1. PICK l \in Loaders : l = cache[d]
      BY <2>3, <2>5
    <3>2. PICK w \in Ops : w = [o EXCEPT !.obj = l] /\ w.obj = l /\ w.dir = d
      BY <2>1, ObjSet
    <3>3. op' = [op EXCEPT ![p] = w] /\ Goto(p, "open") /\ UNCHANGED buf
      BY <2>1, <2>5, <3>1, <3>2 DEF Resolve
    <3>4. "open" \in Places /\ "open" \notin HasInode
      BY DEF Places, HasInode
    <3>5. /\ pc' \in [Procs -> Places] /\ op' \in [Procs -> Ops] /\ pc'[p] = "open"
          /\ op'[p] = w
          /\ \A q \in Procs \ {p} : pc'[q] = pc[q] /\ op'[q] = op[q]
      BY <3>2, <3>3, <3>4, Goes, SetsOp
    <3>6. Typed'
      BY <2>2, <3>3, <3>5 DEF Typed
    <3>7. op'[p].obj = cache'[op'[p].dir] /\ cache'[op'[p].dir] # Absent
      BY <2>5, <2>4, <3>1, <3>2, <3>5
    <3> QED
      BY <2>4, <3>4, <3>5, <3>6, <3>7, ObjectsKept
  <2>6. CASE cache[d] = Absent
    <3>1. Goto(p, "insert") /\ UNCHANGED op /\ buf' = [buf EXCEPT ![p] = itable]
      BY <2>1, <2>6 DEF Resolve
    <3>2. "insert" \in Places /\ "insert" \notin HasInode
      BY DEF Places, HasInode
    <3>3. /\ pc' \in [Procs -> Places] /\ pc'[p] = "insert"
          /\ \A q \in Procs \ {p} : pc'[q] = pc[q] /\ op'[q] = op[q]
      BY <3>1, <3>2, Goes
    <3>4. buf' \in [Procs -> [Inums -> Inodes]]
      BY <3>1 DEF Typed
    <3>5. Typed'
      BY <2>2, <3>1, <3>3, <3>4 DEF Typed
    <3> QED
      BY <2>4, <3>2, <3>3, <3>5, ObjectsKept
  <2> QED
    BY <2>5, <2>6
<1>InsertObjects.
    ASSUME Typed, Objects, NEW p \in Procs, Insert(p)
    PROVE  Typed' /\ Objects'
  <2> USE <1>InsertObjects
  <2>1. PICK d \in Dirs, o \in Ops : d = op[p].dir /\ o = op[p]
    BY OpFields
  <2>2. UNCHANGED <<inodeBitmap, itable, buf>> /\ Goto(p, "open")
    BY DEF Insert, disk
  <2>3. d \in Inums /\ cache[d] \in Loaders \cup {Absent} /\ p \in Loaders
    BY <2>1, DirsTyped DEF Typed, Loaders
  <2>4. Dirs \subseteq inodeBitmap'
    BY <2>2 DEF Objects
  <2>5. "open" \in Places /\ "open" \notin HasInode
    BY DEF Places, HasInode
  <2>6. PICK l \in Loaders :
          /\ op' = [op EXCEPT ![p] = [o EXCEPT !.obj = l]]
          /\ cache'[d] = l /\ l # Absent
          /\ cache' \in [Inums -> Loaders \cup {Absent}]
          /\ inner' \in [Inums -> [Loaders -> Inodes]]
          /\ \A e \in Dirs : cache[e] # Absent => cache'[e] = cache[e]
    <3>1. CASE cache[d] = Absent
      <4>1. PICK x \in Inodes : x = buf[p][d]
        BY <2>3, OpFields
      <4>2. /\ cache' = [cache EXCEPT ![d] = p] /\ inner' = [inner EXCEPT ![d][p] = x]
            /\ op' = [op EXCEPT ![p] = [o EXCEPT !.obj = p]]
        BY <2>1, <3>1, <4>1 DEF Insert, Inserts
      <4>3. /\ cache' \in [Inums -> Loaders \cup {Absent}]
            /\ inner' \in [Inums -> [Loaders -> Inodes]] /\ cache'[d] = p
            /\ \A j \in Inums \ {d} : cache'[j] = cache[j]
        BY <2>3, <4>2, Loads
      <4>4. p # Absent
        BY <2>3, VsfsAssumption
      <4>5. \A e \in Dirs : cache[e] # Absent => cache'[e] = cache[e]
        BY <3>1, <4>3, DirsTyped
      <4> QED
        BY <2>3, <4>2, <4>3, <4>4, <4>5
    <3>2. CASE cache[d] # Absent
      <4>1. PICK l \in Loaders : l = cache[d]
        BY <2>3, <3>2
      <4>2. op' = [op EXCEPT ![p] = [o EXCEPT !.obj = l]] /\ UNCHANGED <<cache, inner>>
        BY <2>1, <3>2, <4>1 DEF Insert, Inserts
      <4> QED
        BY <3>2, <4>1, <4>2 DEF Typed
    <3> QED
      BY <3>1, <3>2
  <2>7. PICK w \in Ops : w = [o EXCEPT !.obj = l] /\ w.obj = l /\ w.dir = d
    BY <2>1, ObjSet
  <2>11. op' = [op EXCEPT ![p] = w]
    BY <2>6, <2>7
  <2>8. /\ pc' \in [Procs -> Places] /\ op' \in [Procs -> Ops] /\ pc'[p] = "open"
        /\ op'[p] = w
        /\ \A q \in Procs \ {p} : pc'[q] = pc[q] /\ op'[q] = op[q]
    BY <2>2, <2>5, <2>7, <2>11, Goes, SetsOp
  <2>9. Typed'
    BY <2>2, <2>6, <2>8 DEF Typed
  <2>10. op'[p].obj = cache'[op'[p].dir] /\ cache'[op'[p].dir] # Absent
    BY <2>6, <2>7, <2>8
  <2> QED
    BY <2>4, <2>5, <2>6, <2>8, <2>9, <2>10, ObjectsKept
<1>StayObjects.
    ASSUME Typed, Objects, NEW p \in Procs, NEW w \in Places, Goto(p, w),
           UNCHANGED <<op, cache, inner>>,
           pc[p] \notin {"idle", "resolve", "insert"}, w \in HasInode => pc[p] \in HasInode,
           inodeBitmap' \subseteq Inums, Dirs \subseteq inodeBitmap',
           itable' \in [Inums -> Inodes], buf' \in [Procs -> [Inums -> Inodes]]
    PROVE  Typed' /\ Objects'
  <2> USE <1>StayObjects
  <2>1. /\ pc' \in [Procs -> Places] /\ pc'[p] = w
        /\ \A q \in Procs \ {p} : pc'[q] = pc[q] /\ op'[q] = op[q]
    BY Goes
  <2>2. Typed'
    BY <2>1 DEF Typed
  <2>3. pc'[p] \in HasInode => op'[p].inum \in Inums \ Dirs
    BY <2>1 DEF Objects
  <2>4. op'[p].obj = cache'[op'[p].dir] /\ cache'[op'[p].dir] # Absent
    BY DEF Objects
  <2> QED
    BY <2>1, <2>2, <2>3, <2>4, ObjectsKept
<1>LookupObjects.
    ASSUME Typed, Objects, NEW p \in Procs, Lookup(p)
    PROVE  Typed' /\ Objects'
  <2> USE <1>LookupObjects
  <2>1. UNCHANGED <<inodeBitmap, itable>> /\ pc[p] = "open"
    BY DEF Lookup, disk
  <2>2. CASE Found(p) # {}
    <3>1. CacheFound(p) /\ Return(p)
      BY <2>2 DEF Lookup
    <3> QED
      BY <2>1, <3>1, FoundCached, EndObjects
  <2>3. CASE Found(p) = {}
    <3>1. Goto(p, "create") /\ UNCHANGED <<cache, inner, op, buf>>
      BY <2>3 DEF Lookup
    <3>2. "create" \in Places /\ "create" \notin HasInode /\ pc[p] \notin {"idle", "resolve", "insert"}
      BY <2>1 DEF Places, HasInode
    <3> QED
      BY <2>1, <3>1, <3>2, <1>StayObjects DEF Typed, Objects
  <2> QED
    BY <2>2, <2>3
<1>CreateFileObjects.
    ASSUME Typed, Objects, NEW p \in Procs, CreateFile(p)
    PROVE  Typed' /\ Objects'
  <2> USE <1>CreateFileObjects
  <2>1. UNCHANGED <<inodeBitmap, itable>> /\ pc[p] = "create"
    BY DEF CreateFile, disk
  <2>2. CASE NameTaken(p)
    <3>1. CacheFound(p) /\ Return(p)
      BY <2>2 DEF CreateFile
    <3> QED
      BY <2>1, <3>1, FoundCached, EndObjects
  <2>3. CASE ~NameTaken(p) /\ Parent(p).sz \div PerBlock >= DIRECT_BLOCKS
    <3>1. UNCHANGED <<cache, inner>> /\ Return(p)
      BY <2>3 DEF CreateFile
    <3> QED
      BY <2>1, <3>1, EndObjects DEF Typed
  <2>4. CASE ~NameTaken(p) /\ ~(Parent(p).sz \div PerBlock >= DIRECT_BLOCKS)
    <3>1. PICK x \in Inodes, o \in Ops : x = [Parent(p) EXCEPT !.sz = @ + 1] /\ o = op[p]
      <4>1. PICK c \in Inodes : c = Parent(p)
        BY ParentTyped
      <4>2. [c EXCEPT !.sz = @ + 1] \in Inodes
        BY SMTT(30) DEF Inodes
      <4> QED
        BY <4>1, <4>2, OpFields
    <3>2. PICK v \in Ops :
            v = [o EXCEPT !.new = x] /\ v.new = x /\ v.obj = o.obj /\ v.dir = o.dir
      BY NewSet
    <3>3. op' = [op EXCEPT ![p] = v] /\ UNCHANGED <<cache, inner, buf>>
      BY <2>4, <3>1, <3>2 DEF CreateFile
    <3>4. PICK w \in {"block", "inode"} : Goto(p, w)
      BY <2>4 DEF CreateFile
    <3>5. w \in Places /\ w \notin HasInode /\ pc[p] \notin {"idle", "resolve", "insert"}
      BY <2>1, <3>4 DEF Places, HasInode, Writing
    <3>6. /\ pc' \in [Procs -> Places] /\ op' \in [Procs -> Ops] /\ pc'[p] = w /\ op'[p] = v
          /\ \A q \in Procs \ {p} : pc'[q] = pc[q] /\ op'[q] = op[q]
      BY <3>2, <3>3, <3>4, <3>5, Goes, SetsOp
    <3>7. Typed'
      BY <2>1, <3>3, <3>6 DEF Typed
    <3>10. o.obj = cache[o.dir] /\ cache[o.dir] # Absent
      BY <3>1, <3>5 DEF Objects
    <3>8. op'[p].obj = cache'[op'[p].dir] /\ cache'[op'[p].dir] # Absent
      BY <3>2, <3>3, <3>6, <3>10
    <3>9. Dirs \subseteq inodeBitmap'
      BY <2>1 DEF Objects
    <3> QED
      BY <3>3, <3>5, <3>6, <3>7, <3>8, <3>9, ObjectsKept
  <2> QED
    BY <2>2, <2>3, <2>4
<1>ReadErrorObjects.
    ASSUME Typed, Objects, NEW p \in Procs, ReadError(p)
    PROVE  Typed' /\ Objects'
  <2> USE <1>ReadErrorObjects
  <2>1. UNCHANGED <<inodeBitmap, itable, cache, inner>> /\ Return(p)
    BY DEF ReadError, disk, memory
  <2> QED
    BY <2>1, EndObjects DEF Typed
<1>AllocateBlockObjects.
    ASSUME Typed, Objects, NEW p \in Procs, AllocateBlock(p)
    PROVE  Typed' /\ Objects'
  <2> USE <1>AllocateBlockObjects
  <2>1. UNCHANGED <<inodeBitmap, itable, cache, inner>> /\ pc[p] = "block"
    BY DEF AllocateBlock
  <2>2. CASE Return(p)
    BY <2>1, <2>2, EndObjects DEF Typed
  <2>3. CASE ~Return(p)
    <3>1. PICK v \in Ops :
            /\ op' = [op EXCEPT ![p] = v] /\ v.obj = op[p].obj /\ v.dir = op[p].dir /\ v.name = op[p].name
            /\ Goto(p, "inode") /\ UNCHANGED buf
      BY <2>3, BlockTaken
    <3>2. "inode" \in Places /\ "inode" \notin HasInode /\ pc[p] \notin {"idle", "resolve", "insert"}
      BY <2>1 DEF Places, HasInode, Writing
    <3>3. /\ pc' \in [Procs -> Places] /\ op' \in [Procs -> Ops] /\ pc'[p] = "inode" /\ op'[p] = v
          /\ \A q \in Procs \ {p} : pc'[q] = pc[q] /\ op'[q] = op[q]
      BY <3>1, <3>2, Goes, SetsOp
    <3>4. Typed'
      BY <2>1, <3>1, <3>3 DEF Typed
    <3>5. op[p].obj = cache[op[p].dir] /\ cache[op[p].dir] # Absent
      BY <3>2 DEF Objects
    <3>6. op'[p].obj = cache'[op'[p].dir] /\ cache'[op'[p].dir] # Absent
      BY <2>1, <3>1, <3>3, <3>5
    <3>7. Dirs \subseteq inodeBitmap'
      BY <2>1 DEF Objects
    <3> QED
      BY <2>1, <3>2, <3>3, <3>4, <3>6, <3>7, ObjectsKept
  <2> QED
    BY <2>2, <2>3
<1>AllocateInodeObjects.
    ASSUME Typed, Objects, NEW p \in Procs, AllocateInode(p)
    PROVE  Typed' /\ Objects'
  <2> USE <1>AllocateInodeObjects
  <2>1. UNCHANGED <<itable, cache, inner, buf>> /\ pc[p] = "inode"
    BY DEF AllocateInode, memory
  <2>2. inodeBitmap' \subseteq Inums /\ Dirs \subseteq inodeBitmap'
    <3>1. CASE FreeInums = {}
      BY <3>1 DEF AllocateInode, Typed, Objects
    <3>2. CASE FreeInums # {}
      <4>1. PICK i \in Least(FreeInums) : inodeBitmap' = inodeBitmap \cup {i} \/ inodeBitmap' = inodeBitmap
        BY <3>2 DEF AllocateInode
      <4> QED
        BY <4>1 DEF Least, FreeInums, Typed, Objects
    <3> QED
      BY <3>1, <3>2
  <2>3. pc[p] \notin {"idle", "resolve", "insert"}
    BY <2>1
  <2>4. CASE Goto(p, "freeBlock") /\ UNCHANGED op
    <3>1. "freeBlock" \in Places /\ "freeBlock" \notin HasInode
      BY DEF Places, HasInode, Writing
    <3> QED
      BY <2>1, <2>2, <2>3, <2>4, <3>1, <1>StayObjects DEF Typed
  <2>5. CASE ~(Goto(p, "freeBlock") /\ UNCHANGED op)
    <3>1. PICK i \in Least(FreeInums) : op' = [op EXCEPT ![p].inum = i] /\ Goto(p, "readNew")
      BY <2>5 DEF AllocateInode, NoInode
    <3>2. i \in Inums \ Dirs /\ i \in Nat
      BY <3>1, SMTT(30) DEF Least, FreeInums, Inums, Objects
    <3>3. PICK o \in Ops : o = op[p]
      BY OpFields
    <3>4. PICK v \in Ops :
            /\ v = [o EXCEPT !.inum = i] /\ v.inum = i
            /\ v.obj = o.obj /\ v.dir = o.dir /\ v.blk = o.blk /\ v.new = o.new /\ v.name = o.name
      BY <3>2, InumSet
    <3>5. op' = [op EXCEPT ![p] = v]
      BY <3>1, <3>3, <3>4
    <3>6. "readNew" \in Places
      BY DEF Places, HasInode, Writing
    <3>7. /\ pc' \in [Procs -> Places] /\ op' \in [Procs -> Ops] /\ op'[p] = v
          /\ \A q \in Procs \ {p} : pc'[q] = pc[q] /\ op'[q] = op[q]
      BY <3>1, <3>5, <3>6, Goes, SetsOp
    <3>8. Typed'
      BY <2>1, <2>2, <3>7 DEF Typed
    <3>9. o.obj = cache[o.dir] /\ cache[o.dir] # Absent
      BY <2>3, <3>3 DEF Objects
    <3>10. op'[p].obj = cache'[op'[p].dir] /\ cache'[op'[p].dir] # Absent
      BY <2>1, <3>4, <3>7, <3>9
    <3>11. op'[p].inum \in Inums \ Dirs
      BY <3>2, <3>4, <3>7
    <3> QED
      BY <2>1, <2>2, <3>7, <3>8, <3>10, <3>11, ObjectsKept
  <2> QED
    BY <2>4, <2>5
<1>ReadSectorObjects.
    ASSUME Typed, Objects, NEW p \in Procs, ReadSector(p)
    PROVE  Typed' /\ Objects'
  <2> USE <1>ReadSectorObjects
  <2>1. UNCHANGED <<inodeBitmap, itable, cache, inner, op>>
    BY DEF ReadSector, disk, memory
  <2>2. pc[p] \in {"readNew", "readParent", "readUndo"}
    BY DEF ReadSector
  <2>3. PICK w \in {"writeNew", "freeInode", "writeParent", "clearDirent", "writeUndo", "done"} :
          Goto(p, w)
    BY <2>2 DEF ReadSector
  <2>4. w \in Places /\ pc[p] \in HasInode /\ pc[p] \notin {"idle", "resolve", "insert"}
    BY <2>2, <2>3 DEF Places, Writing, HasInode
  <2>5. buf' \in [Procs -> [Inums -> Inodes]]
    BY DEF ReadSector, Typed
  <2> QED
    BY <2>1, <2>3, <2>4, <2>5, <1>StayObjects DEF Typed, Objects
<1>SectorTyped.
    ASSUME Typed, NEW p \in Procs, NEW i, NEW x \in Inodes, WriteSector(p, i, x)
    PROVE  itable' \in [Inums -> Inodes]
  <2> USE <1>SectorTyped
  <2>1. \A j \in Inums : buf[p][j] \in Inodes /\ itable[j] \in Inodes
    BY OpFields DEF Typed
  <2> QED
    BY <2>1 DEF WriteSector
<1>WriteNewInodeObjects.
    ASSUME Typed, Objects, NEW p \in Procs, WriteNewInode(p)
    PROVE  Typed' /\ Objects'
  <2> USE <1>WriteNewInodeObjects
  <2>1. UNCHANGED <<inodeBitmap, cache, inner, op, buf>> /\ pc[p] = "writeNew"
    BY DEF WriteNewInode, memory
  <2>2. PICK w \in {"dirent", "freeInode"} : Goto(p, w)
    BY DEF WriteNewInode
  <2>3. itable' \in [Inums -> Inodes]
    <3>1. CASE UNCHANGED itable
      BY <3>1 DEF Typed
    <3>2. CASE WriteSector(p, op[p].inum, FileInode)
      BY <3>2, <1>SectorTyped, BlankTyped
    <3> QED
      BY <3>1, <3>2 DEF WriteNewInode
  <2>4. w \in Places /\ pc[p] \in HasInode /\ pc[p] \notin {"idle", "resolve", "insert"}
    BY <2>1, <2>2 DEF Places, Writing, HasInode
  <2> QED
    BY <2>1, <2>2, <2>3, <2>4, <1>StayObjects DEF Typed, Objects
<1>AddDirentObjects.
    ASSUME Typed, Objects, NEW p \in Procs, AddDirent(p)
    PROVE  Typed' /\ Objects'
  <2> USE <1>AddDirentObjects
  <2>1. UNCHANGED <<inodeBitmap, itable, cache, inner, op, buf>> /\ pc[p] = "dirent"
    BY DEF AddDirent, memory
  <2>2. PICK w \in {"readParent", "freeInode"} : Goto(p, w)
    BY DEF AddDirent
  <2>3. w \in Places /\ pc[p] \in HasInode /\ pc[p] \notin {"idle", "resolve", "insert"}
    BY <2>1, <2>2 DEF Places, Writing, HasInode
  <2> QED
    BY <2>1, <2>2, <2>3, <1>StayObjects DEF Typed, Objects
<1>ClearDirentObjects.
    ASSUME Typed, Objects, NEW p \in Procs, ClearDirent(p)
    PROVE  Typed' /\ Objects'
  <2> USE <1>ClearDirentObjects
  <2>1. UNCHANGED <<inodeBitmap, itable, cache, inner, op, buf>> /\ pc[p] = "clearDirent"
    BY DEF ClearDirent, memory
  <2>2. Goto(p, "readUndo")
    BY DEF ClearDirent
  <2>3. "readUndo" \in Places /\ pc[p] \in HasInode /\ pc[p] \notin {"idle", "resolve", "insert"}
    BY <2>1 DEF Places, Writing, HasInode
  <2> QED
    BY <2>1, <2>2, <2>3, <1>StayObjects DEF Typed, Objects
<1>WriteUndoObjects.
    ASSUME Typed, Objects, NEW p \in Procs, WriteUndo(p)
    PROVE  Typed' /\ Objects'
  <2> USE <1>WriteUndoObjects
  <2>1. UNCHANGED <<inodeBitmap, cache, inner, op, buf>> /\ pc[p] = "writeUndo"
    BY DEF WriteUndo, memory
  <2>2. PICK w \in {"done", "freeInode"} : Goto(p, w)
    BY DEF WriteUndo, UndoFailed
  <2>3. itable' \in [Inums -> Inodes]
    <3>1. CASE UNCHANGED itable
      BY <3>1 DEF Typed
    <3>2. CASE WriteSector(p, op[p].dir, Parent(p))
      <4>1. PICK i \in Dirs, x \in Inodes : i = op[p].dir /\ x = Parent(p)
        BY OpFields, ParentTyped
      <4>2. WriteSector(p, i, x)
        BY <3>2, <4>1
      <4> QED
        BY <4>2, <1>SectorTyped
    <3> QED
      BY <3>1, <3>2 DEF WriteUndo
  <2>4. w \in Places /\ pc[p] \in HasInode /\ pc[p] \notin {"idle", "resolve", "insert"}
    BY <2>1, <2>2 DEF Places, Writing, HasInode
  <2> QED
    BY <2>1, <2>2, <2>3, <2>4, <1>StayObjects DEF Typed, Objects
<1>FreeInodeObjects.
    ASSUME Typed, Objects, NEW p \in Procs, FreeInode(p)
    PROVE  Typed' /\ Objects'
  <2> USE <1>FreeInodeObjects
  <2>1. UNCHANGED <<itable, cache, inner, op, buf>> /\ pc[p] = "freeInode"
    BY DEF FreeInode, memory
  <2>2. Goto(p, "freeBlock")
    BY DEF FreeInode
  <2>3. "freeBlock" \in Places /\ pc[p] \in HasInode /\ pc[p] \notin {"idle", "resolve", "insert"}
    BY <2>1 DEF Places, Writing, HasInode
  <2>4. op[p].inum \notin Dirs
    BY <2>3 DEF Objects
  <2>5. inodeBitmap' = inodeBitmap \ {op[p].inum} \/ inodeBitmap' = inodeBitmap
    BY DEF FreeInode
  <2>6. inodeBitmap' \subseteq Inums /\ Dirs \subseteq inodeBitmap'
    BY <2>4, <2>5 DEF Typed, Objects
  <2> QED
    BY <2>1, <2>2, <2>3, <2>6, <1>StayObjects DEF Typed
<1>FreeBlockObjects.
    ASSUME Typed, Objects, NEW p \in Procs, FreeBlock(p)
    PROVE  Typed' /\ Objects'
  <2> USE <1>FreeBlockObjects
  <2>1. UNCHANGED <<inodeBitmap, itable, cache, inner, op, buf>> /\ pc[p] = "freeBlock"
    BY DEF FreeBlock, memory
  <2>2. Goto(p, "done")
    BY DEF FreeBlock
  <2>3. /\ "done" \in Places /\ "done" \notin HasInode
        /\ pc[p] \notin {"idle", "resolve", "insert"}
    BY <2>1 DEF Places, Writing, HasInode
  <2> QED
    BY <2>1, <2>2, <2>3, <1>StayObjects DEF Typed, Objects
<1>WriteParentObjects.
    ASSUME Typed, Objects, NEW p \in Procs, WriteParent(p)
    PROVE  Typed' /\ Objects'
  <2> USE <1>WriteParentObjects
  <2>1. UNCHANGED inodeBitmap /\ pc[p] = "writeParent"
    BY DEF WriteParent
  <2>2. pc[p] \in HasInode /\ pc[p] \notin {"idle", "resolve", "insert"}
    BY <2>1 DEF HasInode
  <2>3. itable' \in [Inums -> Inodes]
    <3>1. CASE UNCHANGED itable
      BY <3>1 DEF Typed
    <3>2. CASE WriteSector(p, op[p].dir, op[p].new)
      <4>1. PICK i \in Dirs, x \in Inodes : i = op[p].dir /\ x = op[p].new
        BY OpFields
      <4>2. WriteSector(p, i, x)
        BY <3>2, <4>1
      <4> QED
        BY <4>2, <1>SectorTyped
    <3> QED
      BY <3>1, <3>2 DEF WriteParent
  <2>4. CASE Return(p)
    <3>1. /\ inner' = [inner EXCEPT ![op[p].dir][op[p].obj] = op[p].new,
                                    ![op[p].inum][p] = FileInode]
          /\ cache' = [cache EXCEPT ![op[p].inum] = p]
      <4>1. CASE ~Goto(p, "clearDirent")
        BY <4>1 DEF WriteParent, CachedParent
      <4>2. CASE Goto(p, "clearDirent")
        BY <2>4, <4>2 DEF Return, Goto, Typed
      <4> QED
        BY <4>1, <4>2
    <3>2. PICK d \in Inums, l \in Loaders, x \in Inodes, i \in Inums \ Dirs :
            d \in Dirs /\ d = op[p].dir /\ l = op[p].obj /\ x = op[p].new /\ i = op[p].inum
      BY <2>2, OpFields, DirsTyped DEF Objects
    <3>3. inner' = [inner EXCEPT ![d][l] = x, ![i][p] = FileInode] /\ cache' = [cache EXCEPT ![i] = p]
      BY <3>1, <3>2
    <3>4. /\ cache' \in [Inums -> Loaders \cup {Absent}]
          /\ inner' \in [Inums -> [Loaders -> Inodes]]
          /\ \A e \in Dirs : cache'[e] = cache[e]
      BY <3>2, <3>3, ParentCached
    <3>5. /\ pc' \in [Procs -> Places] /\ pc'[p] = "idle"
          /\ op' \in [Procs -> Ops] /\ buf' \in [Procs -> [Inums -> Inodes]]
          /\ \A q \in Procs \ {p} : pc'[q] = pc[q] /\ op'[q] = op[q]
      BY <2>4, Returns
    <3>6. Typed'
      BY <2>1, <2>3, <3>4, <3>5 DEF Typed
    <3>7. Dirs \subseteq inodeBitmap' /\ "idle" \notin HasInode
      BY <2>1 DEF Objects, HasInode
    <3> QED
      BY <3>4, <3>5, <3>6, <3>7, ObjectsKept
  <2>5. CASE ~Return(p)
    <3>1. Goto(p, "clearDirent") /\ UNCHANGED <<cache, inner, op, buf>>
      BY <2>5 DEF WriteParent
    <3>2. "clearDirent" \in Places
      BY DEF Places, Writing, HasInode
    <3> QED
      BY <2>1, <2>2, <2>3, <3>1, <3>2, <1>StayObjects DEF Typed, Objects
  <2> QED
    BY <2>4, <2>5
<1>CrashObjects.
    ASSUME Typed, Objects, Crash
    PROVE  Typed' /\ Objects'
  <2> USE <1>CrashObjects
  <2>1. UNCHANGED <<inodeBitmap, itable>>
    BY DEF Crash, disk
  <2>2. /\ cache' = [i \in Inums |-> IF i = Root THEN Mount ELSE Absent]
        /\ inner' = [i \in Inums |-> [l \in Loaders |->
                                        IF i = Root /\ l = Mount THEN itable[i] ELSE Blank]]
        /\ pc' = [p \in Procs |-> "idle"] /\ op' = [p \in Procs |-> NoOp]
        /\ buf' = [p \in Procs |-> [i \in Inums |-> Blank]]
    BY DEF Crash
  <2>3. cache' \in [Inums -> Loaders \cup {Absent}] /\ inner' \in [Inums -> [Loaders -> Inodes]]
    BY <2>2, MountTyped DEF Typed
  <2>4. /\ pc' \in [Procs -> Places] /\ op' \in [Procs -> Ops]
        /\ buf' \in [Procs -> [Inums -> Inodes]]
    BY <2>2, NoOpTyped, BlankTyped DEF Places
  <2>5. Typed'
    BY <2>1, <2>3, <2>4 DEF Typed
  <2>6. cache'[Root] # Absent
    BY <2>2, DirsTyped, VsfsAssumption DEF Loaders
  <2>7. \A p \in Procs : pc'[p] = "idle" /\ "idle" \notin HasInode
    BY <2>2 DEF HasInode
  <2> QED
    BY <2>1, <2>5, <2>6, <2>7 DEF Objects
<1>StutterObjects.
    ASSUME Typed, Objects, UNCHANGED vars
    PROVE  Typed' /\ Objects'
  BY <1>StutterObjects DEF Typed, Objects, vars, disk, memory
<1> SUFFICES ASSUME Typed, Objects, [Next]_vars
             PROVE  Typed' /\ Objects'
  OBVIOUS
<1>1. ASSUME NEW p \in Procs, NEW d \in Dirs, NEW n \in Names, Open(p, d, n)
      PROVE  Typed' /\ Objects'
  BY <1>1, <1>OpenObjects
<1>2. ASSUME NEW p \in Procs,
             \/ Resolve(p) \/ Insert(p) \/ Lookup(p) \/ CreateFile(p) \/ ReadError(p)
             \/ AllocateBlock(p) \/ AllocateInode(p) \/ ReadSector(p) \/ WriteNewInode(p)
      PROVE  Typed' /\ Objects'
  BY <1>2, <1>ResolveObjects, <1>InsertObjects, <1>LookupObjects, <1>CreateFileObjects, <1>ReadErrorObjects,
     <1>AllocateBlockObjects, <1>AllocateInodeObjects, <1>ReadSectorObjects, <1>WriteNewInodeObjects
<1>3. ASSUME NEW p \in Procs,
             \/ AddDirent(p) \/ WriteParent(p) \/ ClearDirent(p) \/ WriteUndo(p)
             \/ FreeInode(p) \/ FreeBlock(p) \/ Fail(p)
      PROVE  Typed' /\ Objects'
  BY <1>3, <1>AddDirentObjects, <1>WriteParentObjects, <1>ClearDirentObjects, <1>WriteUndoObjects,
     <1>FreeInodeObjects, <1>FreeBlockObjects, FailObjects
<1>4. CASE Crash
  BY <1>4, <1>CrashObjects
<1>5. CASE UNCHANGED vars
  BY <1>5, <1>StutterObjects
<1> QED
  BY <1>1, <1>2, <1>3, <1>4, <1>5 DEF Next

(* The image that is mounted.                                              *)
LEMMA Mounted ==
  ASSUME Init
  PROVE  \E img \in Images :
           /\ Sound(img) /\ inodeBitmap = img.inodeBitmap /\ dataBitmap = img.dataBitmap
           /\ itable = img.itable /\ dirents = img.dirents
BY VsfsAssumption DEF Init

LEMMA InitObjects ==
  ASSUME Init
  PROVE  Typed /\ Objects
<1>1. inodeBitmap \subseteq Inums /\ Dirs \subseteq inodeBitmap /\ itable \in [Inums -> Inodes]
  BY Mounted DEF Sound
<1>2. /\ cache = [i \in Inums |-> IF i = Root THEN Mount ELSE Absent]
      /\ inner = [i \in Inums |-> [l \in Loaders |->
                                     IF i = Root /\ l = Mount THEN itable[i] ELSE Blank]]
      /\ pc = [p \in Procs |-> "idle"] /\ op = [p \in Procs |-> NoOp]
      /\ buf = [p \in Procs |-> itable]
  BY DEF Init
<1>3. cache \in [Inums -> Loaders \cup {Absent}] /\ inner \in [Inums -> [Loaders -> Inodes]]
  BY <1>1, <1>2, MountTyped
<1>4. pc \in [Procs -> Places] /\ op \in [Procs -> Ops] /\ buf \in [Procs -> [Inums -> Inodes]]
  BY <1>1, <1>2, NoOpTyped DEF Places
<1>5. Root \in Inums /\ Mount # Absent
  BY <1>1, VsfsAssumption DEF Dirs, Loaders
<1>6. cache[Root] # Absent
  BY <1>2, <1>5
<1>7. \A p \in Procs : pc[p] = "idle" /\ "idle" \notin HasInode
  BY <1>2 DEF HasInode
<1> QED
  BY <1>1, <1>3, <1>4, <1>6, <1>7 DEF Typed, Objects

(* Every hart works on the cached object of its directory, and so on one   *)
(* lock ("1 reference counting per inode"), for any number of harts that   *)
(* load, look up and create at once, whatever fails, and after a power     *)
(* loss: read_inode inserts its object only if there is none, and neither  *)
(* the root nor a directory in use loses its object.                       *)
THEOREM OneObjectCorrect == Spec => []OneObjectPerInode
<1>1. Init => Typed /\ Objects
  BY InitObjects
<1>2. Typed /\ Objects /\ [Next]_vars => (Typed /\ Objects)'
  BY NextObjects
<1>3. Typed /\ Objects => OneObjectPerInode
  BY DEF Objects, OneObjectPerInode
<1> QED
  BY <1>1, <1>2, <1>3, PTL DEF Spec

-----------------------------------------------------------------------------
(* Sizes, entries and blocks of a directory.                               *)

LEMMA InodeFields ==
  ASSUME NEW x \in Inodes
  PROVE  x.sz \in Nat /\ x.blocks \in [Indices -> Nat] /\ \A j \in Indices : x.blocks[j] \in Nat
<1>1. x.sz \in Nat /\ x.blocks \in [Indices -> Nat]
  BY SMTT(30) DEF Inodes
<1> QED
  BY <1>1

LEMMA Division ==
  ASSUME NEW k \in Nat
  PROVE  /\ k \div PerBlock \in Nat /\ k % PerBlock \in 0..(PerBlock - 1)
         /\ k = (k \div PerBlock) * PerBlock + (k % PerBlock)
BY VsfsAssumption, SMTT(30)

LEMMA Monotone ==
  ASSUME NEW a \in Nat, NEW b \in Nat, NEW n \in Nat, a <= b
  PROVE  a * n <= b * n
BY SMTT(30)

(* A slot below a multiple of the block's size is in an earlier block.     *)
LEMMA SlotBelow ==
  ASSUME NEW k \in Nat, NEW j \in Nat
  PROVE  k < PerBlock * j <=> k \div PerBlock < j
<1>1. PICK q \in Nat, r \in 0..(PerBlock - 1) :
        q = k \div PerBlock /\ r = k % PerBlock /\ k = q * PerBlock + r
  BY Division
<1>2. PerBlock \in Nat /\ PerBlock > 0 /\ PerBlock * j = j * PerBlock
  BY VsfsAssumption, SMTT(30)
<1>3. ASSUME q < j PROVE k < PerBlock * j
  <2>1. q + 1 \in Nat /\ q + 1 <= j /\ (q + 1) * PerBlock = q * PerBlock + PerBlock
    BY <1>2, <1>3, SMTT(30)
  <2>2. (q + 1) * PerBlock <= j * PerBlock
    BY <1>2, <2>1, Monotone
  <2>3. PICK a \in Nat, b \in Nat : a = q * PerBlock /\ b = j * PerBlock
    BY <1>2, SMTT(30)
  <2>4. k = a + r /\ a + PerBlock <= b
    BY <1>1, <2>1, <2>2, <2>3
  <2>5. k < b
    BY <1>2, <2>4, SMTT(30)
  <2> QED
    BY <1>2, <2>3, <2>5
<1>4. ASSUME ~(q < j) PROVE ~(k < PerBlock * j)
  <2>1. j <= q
    BY <1>4, SMTT(30)
  <2>2. j * PerBlock <= q * PerBlock
    BY <1>2, <2>1, Monotone
  <2>3. PICK a \in Nat, b \in Nat : a = q * PerBlock /\ b = j * PerBlock
    BY <1>2, SMTT(30)
  <2>4. k = a + r /\ b <= a
    BY <1>1, <2>2, <2>3
  <2>5. ~(k < b)
    BY <1>2, <2>4, SMTT(30)
  <2> QED
    BY <1>2, <2>3, <2>5
<1> QED
  BY <1>1, <1>3, <1>4

(* An entry within the size has a block.                                   *)
LEMMA SlotHasBlock ==
  ASSUME NEW x \in Inodes, FitsSize(x), NEW k \in Nat, k < x.sz
  PROVE  k \div PerBlock \in Indices /\ x.blocks[k \div PerBlock] # 0
<1>1. PICK q \in Nat, r \in 0..(PerBlock - 1) :
        q = k \div PerBlock /\ r = k % PerBlock /\ k = q * PerBlock + r
  BY Division
<1>2. PICK s \in Nat, m \in Nat : s = x.sz /\ m = PerBlock * DIRECT_BLOCKS /\ s <= m
  BY InodeFields, VsfsAssumption, SMTT(30) DEF FitsSize
<1>3. k < PerBlock * DIRECT_BLOCKS /\ DIRECT_BLOCKS \in Nat
  BY <1>2, VsfsAssumption, SMTT(30)
<1>4. q < DIRECT_BLOCKS
  BY <1>1, <1>3, SlotBelow
<1>5. q \in Indices
  BY <1>3, <1>4, SMTT(30) DEF Indices
<1>6. PICK a \in Nat : a = q * PerBlock
  BY VsfsAssumption, SMTT(30)
<1>7. a < s
  BY <1>1, <1>2, <1>6, VsfsAssumption, SMTT(30)
<1>8. x.blocks[q] # 0
  BY <1>2, <1>5, <1>6, <1>7 DEF FitsSize
<1> QED
  BY <1>1, <1>5, <1>8

(* Two slots at the same place of the same block are one.                  *)
LEMMA SameSlot ==
  ASSUME NEW k \in Nat, NEW m \in Nat,
         k \div PerBlock = m \div PerBlock, k % PerBlock = m % PerBlock
  PROVE  k = m
BY Division

(* Adding an entry to a directory makes a directory that goes on from it.  *)
LEMMA GrownFits ==
  ASSUME NEW c \in Inodes, NEW n \in Inodes, NEW blk, FitsSize(c), Grown(c, n, blk)
  PROVE  FitsSize(n) /\ Follows(n, c) /\ n.blocks[Target(c)] # 0
<1>1. PICK s \in Nat, t \in Indices : s = c.sz /\ t = Target(c) /\ n.sz = s + 1
  BY InodeFields DEF Grown
<1>2. PICK r \in 0..(PerBlock - 1) : s = t * PerBlock + r /\ t = s \div PerBlock
  BY <1>1, Division DEF Target
<1>3. t \in Nat /\ t < DIRECT_BLOCKS /\ DIRECT_BLOCKS \in Nat /\ PerBlock \in Nat /\ PerBlock > 0
  BY VsfsAssumption, SMTT(30) DEF Indices
<1>4. n.sz <= PerBlock * DIRECT_BLOCKS
  <2>1. s < PerBlock * DIRECT_BLOCKS
    BY <1>2, <1>3, SlotBelow
  <2>2. PICK m \in Nat : m = PerBlock * DIRECT_BLOCKS
    BY <1>3, SMTT(30)
  <2>3. s + 1 <= m
    BY <2>1, <2>2, SMTT(30)
  <2> QED
    BY <1>1, <2>2, <2>3
<1>5. n.blocks[t] # 0
  <2>1. CASE blk = 0
    BY <1>1, <2>1 DEF Grown
  <2>2. CASE blk # 0
    BY <1>1, <2>2 DEF Grown
  <2> QED
    BY <2>1, <2>2
<1>6. ASSUME NEW j \in Indices
      PROVE  n.blocks[j] # 0 <=> j * PerBlock < n.sz
  <2>1. PICK a \in Nat : a = j * PerBlock
    BY <1>3, SMTT(30) DEF Indices
  <2>2. CASE j = t
    <3>1. a < s + 1
      BY <1>2, <1>3, <2>1, <2>2, SMTT(30)
    <3> QED
      BY <1>1, <1>5, <2>1, <2>2, <3>1
  <2>3. CASE j # t
    <3>1. n.blocks[j] = c.blocks[j]
      BY <1>1, <2>3 DEF Grown
    <3>2. c.blocks[j] # 0 <=> a < s
      BY <1>1, <2>1 DEF FitsSize
    <3>3. a # s
      <4>1. SUFFICES ASSUME a = s PROVE FALSE
        OBVIOUS
      <4>2. j \in Nat /\ j + 1 \in Nat /\ PerBlock * j = j * PerBlock /\ PerBlock * (j + 1) = j * PerBlock + PerBlock
        BY <1>3, SMTT(30) DEF Indices
      <4>3. ~(s < PerBlock * j) /\ s < PerBlock * (j + 1)
        BY <1>3, <2>1, <4>1, <4>2, SMTT(30)
      <4>4. ~(t < j) /\ t < j + 1
        BY <1>2, <4>2, <4>3, SlotBelow
      <4> QED
        BY <1>3, <2>3, <4>2, <4>4, SMTT(30)
    <3>4. a < s <=> a < s + 1
      BY <3>3, SMTT(30)
    <3> QED
      BY <1>1, <2>1, <3>1, <3>2, <3>4
  <2> QED
    BY <2>2, <2>3
<1>7. FitsSize(n)
  BY <1>4, <1>6 DEF FitsSize
<1>8. c.sz <= n.sz
  BY <1>1, SMTT(30)
<1>9. \A j \in Indices : c.blocks[j] # 0 => c.blocks[j] = n.blocks[j]
  <2>1. c.blocks[t] # 0 => c.blocks[t] = n.blocks[t]
    BY <1>1 DEF Grown
  <2> QED
    BY <1>1, <2>1 DEF Grown
<1>10. Follows(n, c)
  BY <1>8, <1>9 DEF Follows, Grown
<1> QED
  BY <1>1, <1>5, <1>7, <1>10

LEMMA FollowsItself ==
  ASSUME NEW x \in Inodes
  PROVE  Follows(x, x)
<1>1. x.sz <= x.sz
  BY InodeFields, SMTT(30)
<1> QED
  BY <1>1 DEF Follows

-----------------------------------------------------------------------------
(* What a step of the only hart leaves as it is.                           *)

LEMMA ParentIsCached ==
  ASSUME Typed, Objects, NEW p \in Procs, pc[p] \notin {"idle", "resolve", "insert"}
  PROVE  /\ op[p].dir \in Dirs /\ cache[op[p].dir] # Absent
         /\ Parent(p) = Cached(op[p].dir) /\ Parent(p) \in Inodes
BY OpFields, ParentTyped DEF Objects, Parent, Cached

LEMMA CachedTyped ==
  ASSUME Typed, Objects, NEW d \in Dirs, cache[d] # Absent
  PROVE  Cached(d) \in Inodes /\ cache[d] \in Loaders
<1>1. cache[d] \in Loaders /\ d \in Inums
  BY DirsTyped DEF Typed
<1> QED
  BY <1>1 DEF Typed, Cached

LEMMA DirInode ==
  ASSUME Typed, Objects, NEW d \in Dirs
  PROVE  itable[d] \in Inodes
BY DirsTyped DEF Typed

(* A sector that is written from a fresh copy changes one inode.           *)
LEMMA SectorIs ==
  ASSUME Typed, NEW p \in Procs, buf[p] = itable, NEW i \in Inums, NEW x \in Inodes,
         WriteSector(p, i, x)
  PROVE  itable'[i] = x /\ \A j \in Inums \ {i} : itable'[j] = itable[j]
BY DEF WriteSector

(* A block of a directory.                                                 *)
LEMMA OwnedBlock ==
  ASSUME NEW T, NEW B, BlocksOwned(T, B), NEW d \in Dirs, NEW j \in Indices, NEW b,
         b = T[d].blocks[j], b # 0
  PROVE  /\ b \in Blocks /\ b - DATA_BLOCK_START \in B
         /\ \A e \in Dirs, l \in Indices : T[e].blocks[l] = b => e = d /\ l = j
BY SMTT(30) DEF BlocksOwned

(* A step that at most caches what the disk holds.                         *)
Loading ==
  \A d \in Dirs :
    /\ itable'[d] = itable[d]
    /\ cache[d] # Absent => cache'[d] = cache[d] /\ inner'[d] = inner[d]
    /\ cache[d] = Absent => cache'[d] = Absent \/ inner'[d][cache'[d]] = itable[d]

-----------------------------------------------------------------------------
(* Steps that open a file, or end an operation.                            *)

LEMMA EarlyBlk ==
  ASSUME IInv, NEW p \in Procs, pc[p] \notin Writing
  PROVE  op[p].blk = 0
<1>1. Operation(pc[p], op[p], Parent(p), itable, dataBitmap)
  BY DEF IInv, Operations
<1> QED
  BY <1>1 DEF Operation

LEMMA NotWriting ==
  {"idle", "resolve", "insert", "open", "create"} \cap Writing = {}
BY DEF Writing, HasInode

LEMMA Unloading ==
  ASSUME UNCHANGED <<itable, cache, inner>>
  PROVE  Loading
BY DEF Loading

LEMMA InsertLoads ==
  ASSUME IInv, NEW p \in Procs, Insert(p)
  PROVE  /\ Loading /\ pc'[p] = "open"
         /\ op'[p].blk = op[p].blk /\ op'[p].name = op[p].name
<1>1. UNCHANGED itable /\ pc[p] = "insert" /\ Goto(p, "open")
  BY DEF Insert, disk
<1>2. PICK o \in Ops, d \in Dirs : o = op[p] /\ d = op[p].dir
  BY OpFields DEF IInv
<1>3. buf[p] = itable /\ d \in Inums
  BY <1>1, <1>2, DirsTyped DEF IInv, Buffers
<1>4. PICK l \in Loaders : op' = [op EXCEPT ![p] = [o EXCEPT !.obj = l]] /\ Loading
  <2>1. CASE cache[d] = Absent
    <3>1. PICK x \in Inodes : x = itable[d]
      BY DirInode DEF IInv
    <3>2. /\ cache' = [cache EXCEPT ![d] = p] /\ inner' = [inner EXCEPT ![d][p] = x]
          /\ op' = [op EXCEPT ![p] = [o EXCEPT !.obj = p]]
      BY <1>2, <1>3, <2>1, <3>1 DEF Insert, Inserts
    <3>3. /\ cache'[d] = p /\ inner'[d][p] = x
          /\ \A j \in Inums \ {d} : cache'[j] = cache[j] /\ inner'[j] = inner[j]
      BY <1>3, <3>2, Loads, ZenonT(90) DEF IInv
    <3>4. Loading
      BY <1>1, <2>1, <3>1, <3>3, DirsTyped DEF Loading, IInv
    <3>5. p \in Loaders
      BY DEF Loaders
    <3> QED
      BY <3>2, <3>4, <3>5
  <2>2. CASE cache[d] # Absent
    <3>1. PICK l \in Loaders : l = cache[d]
      BY <2>2, CachedTyped DEF IInv
    <3>2. op' = [op EXCEPT ![p] = [o EXCEPT !.obj = l]] /\ UNCHANGED <<cache, inner>>
      BY <1>2, <2>2, <3>1 DEF Insert, Inserts
    <3> QED
      BY <1>1, <3>2, Unloading
  <2> QED
    BY <2>1, <2>2
<1>5. PICK w \in Ops : w = [o EXCEPT !.obj = l]
  BY ObjSet
<1>6. w.blk = o.blk /\ w.name = o.name
  BY <1>5, SMTT(30) DEF Ops
<1>7. op' = [op EXCEPT ![p] = w]
  BY <1>4, <1>5
<1>8. pc'[p] = "open" /\ op'[p] = w
  BY <1>1, <1>7 DEF Goto, IInv, Typed
<1> QED
  BY <1>2, <1>4, <1>6, <1>8

LEMMA FoundLoads ==
  ASSUME IInv, NEW p \in Procs, CacheFound(p), UNCHANGED itable
  PROVE  Loading
<1>1. /\ \A d \in Dirs : cache[d] # Absent => cache'[d] = cache[d] /\ inner'[d] = inner[d]
      /\ \A d \in Dirs : cache[d] = Absent =>
           cache'[d] = Absent \/ (cache'[d] = p /\ inner'[d][p] = itable[d])
  BY FoundCached DEF IInv
<1> QED
  BY <1>1 DEF Loading

-----------------------------------------------------------------------------
LEMMA OperationNow ==
  ASSUME IInv, NEW p \in Procs
  PROVE  Operation(pc[p], op[p], Parent(p), itable, dataBitmap)
BY DEF IInv, Operations

-----------------------------------------------------------------------------
(* Steps that change a directory.                                          *)

(* Whatever goes on from the cached inode has the same firm entries.       *)
LEMMA FirmBlocks ==
  ASSUME NEW c \in Inodes, NEW x, NEW y, FitsSize(c), Follows(x, c), Follows(y, c),
         NEW k \in Nat, k < c.sz
  PROVE  x.blocks[k \div PerBlock] = y.blocks[k \div PerBlock]
<1>1. PICK j \in Indices : j = k \div PerBlock /\ c.blocks[j] # 0
  BY SlotHasBlock
<1>2. x.blocks[j] = c.blocks[j] /\ y.blocks[j] = c.blocks[j]
  BY <1>1 DEF Follows
<1> QED
  BY <1>1, <1>2

(* The cached inode c of the directory d that an operation changes, and    *)
(* the one it will have.                                                   *)
Workable(d, c, n, b) ==
  /\ d \in Dirs /\ d \in Inums /\ c \in Inodes /\ n \in Inodes /\ b \in Nat
  /\ cache[d] # Absent /\ c = Cached(d) /\ Firm(d) = c.sz
  /\ FitsSize(c) /\ Follows(itable[d], c)
  /\ Grown(c, n, b) /\ FitsSize(n) /\ Follows(n, c)
  /\ b # 0 => \A e \in Dirs, l \in Indices :
       itable[e].blocks[l] = b => e = d /\ l = Target(c)

LEMMA Working ==
  ASSUME IInv, NEW p \in Procs, pc[p] \in Writing \ {"block"}, NEW d, d = op[p].dir,
         NEW c, c = Parent(p), NEW n, n = op[p].new, NEW b, b = op[p].blk
  PROVE  Workable(d, c, n, b)
<1>1. pc[p] \notin {"idle", "resolve", "insert"}
  BY NotWriting
<1>2. /\ d \in Dirs /\ c \in Inodes /\ n \in Inodes /\ b \in Nat
      /\ cache[d] # Absent /\ c = Cached(d)
  BY <1>1, OpFields, ParentIsCached DEF IInv
<1>3. d \in Inums
  BY <1>2, DirsTyped DEF IInv
<1>4. FitsSize(c) /\ Follows(itable[d], c) /\ Firm(d) = c.sz
  BY <1>2 DEF IInv, CacheFollows, Firm
<1>5. /\ Grown(c, n, b)
      /\ b # 0 => \A e \in Dirs, l \in Indices :
           itable[e].blocks[l] = b => e = d /\ l = Target(c)
  BY <1>2, OperationNow, ZenonT(90) DEF Operation
<1>6. FitsSize(n) /\ Follows(n, c)
  BY <1>2, <1>4, <1>5, GrownFits
<1> QED
  BY <1>2, <1>3, <1>4, <1>5, <1>6 DEF Workable

(* The block of the new entry is one of this directory's, at this index,   *)
(* or of none.                                                             *)
LEMMA TargetBlock ==
  ASSUME IInv, NEW p \in Procs, pc[p] \in Writing \ {"block"}, NEW d, d = op[p].dir,
         NEW c, c = Parent(p), NEW n, n = op[p].new
  PROVE  /\ Target(c) \in Indices /\ n.blocks[Target(c)] \in Blocks
         /\ \A e \in Dirs, l \in Indices :
              itable[e].blocks[l] = n.blocks[Target(c)] => e = d /\ l = Target(c)
<1>5. PICK b : b = op[p].blk
  OBVIOUS
<1>1. /\ d \in Dirs /\ FitsSize(c) /\ Follows(itable[d], c) /\ Grown(c, n, b)
      /\ b # 0 => \A e \in Dirs, l \in Indices :
           itable[e].blocks[l] = b => e = d /\ l = Target(c)
  <2>1. Workable(d, c, n, b)
    BY <1>5, Working
  <2> QED
    BY <2>1 DEF Workable
<1>2. PICK t \in Indices : t = Target(c)
  BY <1>1 DEF Grown
<1>3. CASE b # 0
  <2>1. n.blocks[t] = b /\ b \in Blocks
    BY <1>1, <1>2, <1>3 DEF Grown
  <2> QED
    BY <1>1, <1>2, <1>3, <2>1
<1>4. CASE b = 0
  <2>1. n.blocks[t] = c.blocks[t] /\ c.blocks[t] # 0
    BY <1>1, <1>2, <1>4 DEF Grown
  <2>2. c.blocks[t] = itable[d].blocks[t]
    BY <1>1, <2>1 DEF Follows
  <2>3. PICK T, B, a : T = itable /\ B = dataBitmap /\ a = n.blocks[t] /\ a # 0 /\ a = T[d].blocks[t]
    BY <2>1, <2>2
  <2>4. BlocksOwned(T, B)
    BY <2>3 DEF IInv, Directories
  <2>5. a \in Blocks /\ \A e \in Dirs, l \in Indices : T[e].blocks[l] = a => e = d /\ l = t
    BY <1>1, <2>3, <2>4, OwnedBlock, SMTT(30)
  <2> QED
    BY <1>2, <2>3, <2>5
<1> QED
  BY <1>3, <1>4

(* The kernel never counts more entries than the disk does.                *)
LEMMA FirmBelow ==
  ASSUME IInv, NEW d \in Dirs
  PROVE  Firm(d) \in Nat /\ Firm(d) <= itable[d].sz /\ itable[d].sz \in Nat
<1>1. itable[d].sz \in Nat
  BY DirInode, InodeFields DEF IInv
<1>2. CASE cache[d] = Absent
  <2>1. Firm(d) = itable[d].sz
    BY <1>2 DEF Firm
  <2> QED
    BY <1>1, <2>1, SMTT(30)
<1>3. CASE cache[d] # Absent
  BY <1>1, <1>3, CachedTyped, InodeFields DEF IInv, CacheFollows, Follows, Firm
<1> QED
  BY <1>2, <1>3

(* write_dirent changes one entry of one block.                            *)
LEMMA DirentWritten ==
  ASSUME Directories, NEW p \in Procs, NEW e, WriteDirent(p, e),
         NEW a \in Blocks, NEW s \in 0..(PerBlock - 1),
         a = op[p].new.blocks[Parent(p).sz \div PerBlock], s = Parent(p).sz % PerBlock
  PROVE  /\ DOMAIN dirents' = Blocks /\ \A b \in Blocks : DOMAIN dirents'[b] = 0..(PerBlock - 1)
         /\ dirents'[a][s] = e
         /\ \A b \in Blocks, r \in 0..(PerBlock - 1) :
              b # a \/ r # s => dirents'[b][r] = dirents[b][r]
<1>1. dirents' = [dirents EXCEPT ![a][s] = e]
  BY DEF WriteDirent
<1>2. DOMAIN dirents = Blocks /\ \A b \in Blocks : DOMAIN dirents[b] = 0..(PerBlock - 1)
  BY DEF Directories
<1>3. PICK g : g = [dirents[a] EXCEPT ![s] = e]
  OBVIOUS
<1>4. /\ DOMAIN g = 0..(PerBlock - 1) /\ g[s] = e
      /\ \A r \in 0..(PerBlock - 1) : r # s => g[r] = dirents[a][r]
  BY <1>2, <1>3
<1>5. dirents' = [dirents EXCEPT ![a] = g]
  BY <1>1, <1>3
<1>6. /\ DOMAIN dirents' = Blocks /\ dirents'[a] = g
      /\ \A b \in Blocks : b # a => dirents'[b] = dirents[b]
  BY <1>2, <1>5
<1> QED
  BY <1>2, <1>4, <1>6

-----------------------------------------------------------------------------
(* Mounting an image, at first and after a power loss.                     *)

LEMMA RootMounted ==
  ASSUME NEW T \in [Inums -> Inodes], Root \in Inums,
         NEW C, C = [i \in Inums |-> IF i = Root THEN Mount ELSE Absent],
         NEW N, N = [i \in Inums |-> [l \in Loaders |->
                                        IF i = Root /\ l = Mount THEN T[i] ELSE Blank]]
  PROVE  /\ \A d \in Inums : C[d] # Absent => d = Root
         /\ C[Root] = Mount /\ N[Root][C[Root]] = T[Root]
BY DEF Loaders

LEMMA Quiet ==
  ASSUME NEW P, P = [p \in Procs |-> "idle"], NEW O, O = [p \in Procs |-> NoOp]
  PROVE  \A p \in Procs : /\ P[p] = "idle" /\ P[p] \notin Writing /\ P[p] \notin HasInode
                          /\ P[p] \notin Unlinked /\ O[p].blk = 0
<1>1. NoOp.blk = 0
  BY SMTT(30) DEF NoOp
<1> QED
  BY <1>1 DEF Writing, HasInode, Unlinked

LEMMA QuietOperation ==
  ASSUME NEW w, w = "idle", NEW o, o.blk = 0, NEW c, NEW T, NEW B
  PROVE  Operation(w, o, c, T, B)
BY DEF Operation, Writing, HasInode, Unlinked

LEMMA InitKept ==
  ASSUME Init
  PROVE  IInv
<1>1. Typed /\ Objects
  BY InitObjects
<1>2. PICK img \in Images :
        /\ Sound(img) /\ inodeBitmap = img.inodeBitmap /\ dataBitmap = img.dataBitmap
        /\ itable = img.itable /\ dirents = img.dirents
  BY Mounted
<1>3. Directories
  BY <1>2 DEF Directories, Sound
<1>4. Dirs \subseteq Inums /\ Root \in Dirs /\ Root \in Inums
  BY <1>1, DirsTyped
<1>5. PICK T \in [Inums -> Inodes] : T = itable
  BY <1>1 DEF Typed
<1>6. PICK C, N : /\ C = cache /\ C = [i \in Inums |-> IF i = Root THEN Mount ELSE Absent]
                  /\ N = inner
                  /\ N = [i \in Inums |-> [l \in Loaders |->
                                             IF i = Root /\ l = Mount THEN T[i] ELSE Blank]]
  BY <1>5 DEF Init
<1>7. /\ \A d \in Inums : C[d] # Absent => d = Root
      /\ C[Root] = Mount /\ N[Root][C[Root]] = T[Root]
  BY <1>4, <1>6, RootMounted
<1>8. \A d \in Dirs : cache[d] # Absent => Cached(d) = itable[d]
  BY <1>4, <1>5, <1>6, <1>7 DEF Cached
<1>9. CacheFollows
  <2>1. SUFFICES ASSUME NEW d \in Dirs, cache[d] # Absent
                 PROVE  FitsSize(itable[d]) /\ Follows(itable[d], itable[d])
    BY <1>8 DEF CacheFollows
  <2> QED
    BY <1>1, <1>3, DirInode, FollowsItself DEF Directories
<1>10. \A p \in Procs : /\ pc[p] = "idle" /\ pc[p] \notin Writing /\ pc[p] \notin HasInode
                        /\ pc[p] \notin Unlinked /\ op[p].blk = 0
  BY Quiet DEF Init
<1>11. Operations
  <2>1. SUFFICES ASSUME NEW p \in Procs
                 PROVE  Operation(pc[p], op[p], Parent(p), itable, dataBitmap)
    BY DEF Operations
  <2>2. PICK w, o, c, S, B :
          w = pc[p] /\ o = op[p] /\ c = Parent(p) /\ S = itable /\ B = dataBitmap
    OBVIOUS
  <2> QED
    BY <1>10, <2>2, QuietOperation
<1>12. Buffers /\ Added /\ Allocated
  BY <1>10 DEF Buffers, Added, Allocated
<1>13. Durable
  BY DEF Init, Durable
<1> QED
  BY <1>1, <1>3, <1>9, <1>11, <1>12, <1>13 DEF IInv

LEMMA NextKept == OneHart /\ IInv /\ [Next]_vars => IInv'
<1>DirectoriesSame.
    ASSUME Directories, Typed, Objects, UNCHANGED dirents, dataBitmap \subseteq dataBitmap',
           \A d \in Dirs : itable'[d] = itable[d]
    PROVE  Directories'
  <2> USE <1>DirectoriesSame
  <2>1. \A d \in Dirs : itable'[d].ty = "dir" /\ FitsSize(itable'[d])
    BY DEF Directories
  <2>2. BlocksOwned(itable', dataBitmap')
    <3>1. BlocksOwned(itable, dataBitmap)
      BY DEF Directories
    <3>2. SUFFICES ASSUME NEW d \in Dirs, NEW j \in Indices, itable'[d].blocks[j] # 0
                   PROVE  /\ itable'[d].blocks[j] \in Blocks
                          /\ itable'[d].blocks[j] - DATA_BLOCK_START \in dataBitmap'
                          /\ \A e \in Dirs, l \in Indices :
                               itable'[d].blocks[j] = itable'[e].blocks[l] => d = e /\ j = l
      BY DEF BlocksOwned
    <3>3. PICK b : b = itable[d].blocks[j] /\ b = itable'[d].blocks[j] /\ b # 0
      BY <3>2
    <3>4. PICK T, B : T = itable /\ B = dataBitmap
      OBVIOUS
    <3>5. BlocksOwned(T, B) /\ b = T[d].blocks[j]
      BY <3>1, <3>3, <3>4
    <3>6. /\ b \in Blocks /\ b - DATA_BLOCK_START \in B
          /\ \A e \in Dirs, l \in Indices : T[e].blocks[l] = b => e = d /\ l = j
      BY <3>3, <3>5, OwnedBlock, SMTT(30)
    <3> QED
      BY <3>3, <3>4, <3>6
  <2>3. DOMAIN dirents' = Blocks /\ \A b \in Blocks : DOMAIN dirents'[b] = 0..(PerBlock - 1)
    BY DEF Directories
  <2> QED
    BY <2>1, <2>2, <2>3 DEF Directories
<1>CacheSame.
    ASSUME Typed, Objects, Directories, CacheFollows, Loading
    PROVE  CacheFollows'
  <2> USE <1>CacheSame
  <2>1. SUFFICES ASSUME NEW d \in Dirs, cache'[d] # Absent
                 PROVE  FitsSize(Cached(d)') /\ Follows(itable'[d], Cached(d)')
    BY DEF CacheFollows
  <2>2. itable[d] \in Inodes /\ itable'[d] = itable[d] /\ FitsSize(itable[d])
    BY DirInode DEF Directories, Loading
  <2>3. CASE cache[d] # Absent
    <3>1. Cached(d)' = Cached(d)
      BY <2>3 DEF Loading, Cached
    <3> QED
      BY <2>2, <2>3, <3>1 DEF CacheFollows
  <2>4. CASE cache[d] = Absent
    <3>1. Cached(d)' = itable[d]
      BY <2>1, <2>4 DEF Loading, Cached
    <3> QED
      BY <2>2, <3>1, FollowsItself
  <2> QED
    BY <2>3, <2>4
<1>FirmSame.
    ASSUME Loading, NEW d \in Dirs
    PROVE  Firm(d)' = Firm(d)
  <2> USE <1>FirmSame
  <2>1. CASE cache[d] # Absent
    <3>1. Cached(d)' = Cached(d) /\ cache'[d] # Absent
      BY <2>1 DEF Loading, Cached
    <3> QED
      BY <2>1, <3>1 DEF Firm
  <2>2. CASE cache[d] = Absent /\ cache'[d] = Absent
    BY <2>2 DEF Firm, Loading
  <2>3. CASE cache[d] = Absent /\ cache'[d] # Absent
    <3>1. Cached(d)' = itable[d]
      BY <2>3 DEF Loading, Cached
    <3> QED
      BY <2>3, <3>1 DEF Firm
  <2> QED
    BY <2>1, <2>2, <2>3
<1>DurableSame.
    ASSUME Durable, Loading, UNCHANGED <<dirents, made>>, \A f \in made : f.inum \in inodeBitmap'
    PROVE  Durable'
  <2> USE <1>DurableSame
  <2>1. SUFFICES ASSUME NEW f \in made
                 PROVE  /\ f.dir \in Dirs /\ f.inum \in inodeBitmap'
                        /\ \E k \in Nat : /\ k < Firm(f.dir)'
                                          /\ Entry(itable[f.dir], k)' = [inum |-> f.inum, name |-> f.name]
    BY DEF Durable
  <2>2. PICK d \in Dirs, k \in Nat :
          d = f.dir /\ k < Firm(d) /\ Entry(itable[d], k) = [inum |-> f.inum, name |-> f.name]
    BY DEF Durable
  <2>3. Firm(d)' = Firm(d)
    BY <1>FirmSame
  <2>4. Entry(itable[d], k)' = Entry(itable[d], k)
    BY DEF Entry, Loading
  <2> QED
    BY <2>2, <2>3, <2>4
(* The only hart outside the write phase.                                  *)
<1>EarlySame.
    ASSUME NEW p \in Procs, \A q \in Procs : q = p, pc'[p] \notin Writing, op'[p].blk = 0,
           pc'[p] = "insert" => buf'[p] = itable'
    PROVE  Operations' /\ Buffers' /\ Added' /\ Allocated'
  <2> USE <1>EarlySame
  <2>1. pc'[p] \notin HasInode /\ pc'[p] \notin Unlinked /\ pc'[p] # "block"
    BY DEF Writing, HasInode, Unlinked
  <2>2. Operations'
    <3>1. PICK w, o, c, T, B :
            w = pc'[p] /\ o = op'[p] /\ c = Parent(p)' /\ T = itable' /\ B = dataBitmap'
      OBVIOUS
    <3>2. Operation(w, o, c, T, B)
      BY <2>1, <3>1 DEF Operation
    <3> QED
      BY <3>1, <3>2 DEF Operations
  <2>3. Buffers'
    BY <2>1 DEF Buffers, HasInode
  <2>4. Added' /\ Allocated'
    BY <2>1 DEF Added, Allocated, HasInode
  <2> QED
    BY <2>2, <2>3, <2>4
<1>ReturnSame.
    ASSUME Typed, NEW p \in Procs, \A q \in Procs : q = p, Return(p)
    PROVE  Operations' /\ Buffers' /\ Added' /\ Allocated'
  <2> USE <1>ReturnSame
  <2>1. pc'[p] = "idle" /\ op'[p] = NoOp
    BY Returns
  <2>2. op'[p].blk = 0
    BY <2>1, SMTT(30) DEF NoOp
  <2>3. pc'[p] \notin Writing /\ pc'[p] # "insert"
    BY <2>1 DEF Writing, HasInode
  <2> QED
    BY <2>2, <2>3, <1>EarlySame
<1>EarlyKept.
    ASSUME IInv, Typed', Objects', NEW p \in Procs, \A q \in Procs : q = p, Loading,
           UNCHANGED <<inodeBitmap, dataBitmap, dirents, made>>,
           pc'[p] \notin Writing, op'[p].blk = 0, pc'[p] = "insert" => buf'[p] = itable'
    PROVE  IInv'
  <2> USE <1>EarlyKept
  <2>1. Directories'
    BY <1>DirectoriesSame DEF IInv, Loading
  <2>2. CacheFollows'
    BY <1>CacheSame DEF IInv
  <2>3. \A f \in made : f.inum \in inodeBitmap'
    BY DEF IInv, Durable
  <2>4. Durable'
    BY <2>3, <1>DurableSame DEF IInv
  <2>5. Operations' /\ Buffers' /\ Added' /\ Allocated'
    BY <1>EarlySame
  <2> QED
    BY <2>1, <2>2, <2>4, <2>5 DEF IInv
<1>EndKept.
    ASSUME IInv, Typed', Objects', NEW p \in Procs, \A q \in Procs : q = p, Loading,
           UNCHANGED <<inodeBitmap, dataBitmap, dirents, made>>, Return(p)
    PROVE  IInv'
  <2> USE <1>EndKept
  <2>1. pc'[p] = "idle" /\ op'[p] = NoOp
    BY Returns DEF IInv
  <2>2. op'[p].blk = 0
    BY <2>1, SMTT(30) DEF NoOp
  <2>3. pc'[p] \notin Writing /\ pc'[p] # "insert"
    BY <2>1, NotWriting
  <2> QED
    BY <2>2, <2>3, <1>EarlyKept
<1>OpenKept.
    ASSUME IInv, NEW p \in Procs, \A q \in Procs : q = p, NEW d \in Dirs, NEW n \in Names, Open(p, d, n)
    PROVE  IInv'
  <2> USE <1>OpenKept
  <2>1. Typed' /\ Objects'
    BY NextObjects DEF IInv, Next
  <2>2. UNCHANGED <<inodeBitmap, dataBitmap, itable, dirents, cache, inner, made>>
    BY DEF Open, disk, memory
  <2>3. pc'[p] = "resolve" /\ op'[p] = [NoOp EXCEPT !.dir = d, !.name = n]
    BY DEF Open, Goto, IInv, Typed
  <2>4. op'[p].blk = 0
    BY <2>3, SMTT(30) DEF NoOp
  <2>5. pc'[p] \notin Writing /\ pc'[p] # "insert"
    BY <2>3, NotWriting
  <2> QED
    BY <2>1, <2>2, <2>4, <2>5, <1>EarlyKept, Unloading
<1>ResolveKept.
    ASSUME IInv, NEW p \in Procs, \A q \in Procs : q = p, Resolve(p)
    PROVE  IInv'
  <2> USE <1>ResolveKept
  <2>1. Typed' /\ Objects'
    BY NextObjects DEF IInv, Next
  <2>2. UNCHANGED <<inodeBitmap, dataBitmap, itable, dirents, cache, inner, made>> /\ pc[p] = "resolve"
    BY DEF Resolve, disk
  <2>3. PICK o \in Ops, d \in Dirs : o = op[p] /\ d = op[p].dir
    BY OpFields DEF IInv
  <2>4. o.blk = 0
    BY <2>2, <2>3, EarlyBlk, NotWriting
  <2>5. CASE cache[d] # Absent
    <3>1. PICK l \in Loaders : l = cache[d]
      BY <2>5, CachedTyped DEF IInv
    <3>2. PICK w \in Ops :
            w = [o EXCEPT !.obj = l] /\ w.obj = l /\ w.dir = o.dir /\ w.blk = o.blk
      BY ObjSet
    <3>3. op' = [op EXCEPT ![p] = w] /\ Goto(p, "open")
      BY <2>3, <2>5, <3>1, <3>2 DEF Resolve
    <3>4. pc'[p] = "open" /\ op'[p] = w
      BY <3>3 DEF Goto, IInv, Typed
    <3>5. pc'[p] \notin Writing /\ pc'[p] # "insert" /\ op'[p].blk = 0
      BY <2>4, <3>2, <3>4, NotWriting
    <3> QED
      BY <2>1, <2>2, <3>5, <1>EarlyKept, Unloading
  <2>6. CASE cache[d] = Absent
    <3>1. Goto(p, "insert") /\ UNCHANGED op /\ buf' = [buf EXCEPT ![p] = itable]
      BY <2>3, <2>6 DEF Resolve
    <3>2. pc'[p] = "insert" /\ buf'[p] = itable' /\ op'[p].blk = 0
      BY <2>2, <2>3, <2>4, <3>1 DEF Goto, IInv, Typed
    <3>3. pc'[p] \notin Writing
      BY <3>2, NotWriting
    <3> QED
      BY <2>1, <2>2, <3>2, <3>3, <1>EarlyKept, Unloading
  <2> QED
    BY <2>5, <2>6
<1>InsertKept.
    ASSUME IInv, NEW p \in Procs, \A q \in Procs : q = p, Insert(p)
    PROVE  IInv'
  <2> USE <1>InsertKept
  <2>1. Typed' /\ Objects'
    BY NextObjects DEF IInv, Next
  <2>2. UNCHANGED <<inodeBitmap, dataBitmap, itable, dirents, made>> /\ pc[p] = "insert"
    BY DEF Insert, disk
  <2>3. Loading /\ pc'[p] = "open" /\ op'[p].blk = 0
    BY <2>2, InsertLoads, EarlyBlk, NotWriting
  <2>4. pc'[p] \notin Writing /\ pc'[p] # "insert"
    BY <2>3, NotWriting
  <2> QED
    BY <2>1, <2>2, <2>3, <2>4, <1>EarlyKept
<1>LookupKept.
    ASSUME IInv, NEW p \in Procs, \A q \in Procs : q = p, Lookup(p)
    PROVE  IInv'
  <2> USE <1>LookupKept
  <2>1. Typed' /\ Objects'
    BY NextObjects DEF IInv, Next
  <2>2. UNCHANGED <<inodeBitmap, dataBitmap, itable, dirents, made>> /\ pc[p] = "open"
    BY DEF Lookup, disk
  <2>3. CASE Found(p) # {}
    <3>1. CacheFound(p) /\ Return(p)
      BY <2>3 DEF Lookup
    <3> QED
      BY <2>1, <2>2, <3>1, FoundLoads, <1>EndKept
  <2>4. CASE Found(p) = {}
    <3>1. Goto(p, "create") /\ UNCHANGED <<cache, inner, op, buf>>
      BY <2>4 DEF Lookup
    <3>2. pc'[p] = "create" /\ op'[p] = op[p]
      BY <3>1 DEF Goto, IInv, Typed
    <3>3. op'[p].blk = 0 /\ pc'[p] \notin Writing /\ pc'[p] # "insert"
      BY <2>2, <3>2, EarlyBlk, NotWriting
    <3> QED
      BY <2>1, <2>2, <3>1, <3>3, <1>EarlyKept, Unloading
  <2> QED
    BY <2>3, <2>4
<1>ReadErrorKept.
    ASSUME IInv, NEW p \in Procs, \A q \in Procs : q = p, ReadError(p) \/ Fail(p)
    PROVE  IInv'
  <2> USE <1>ReadErrorKept
  <2>1. Typed' /\ Objects'
    BY NextObjects, FailObjects DEF IInv, Next
  <2>2. UNCHANGED <<inodeBitmap, dataBitmap, itable, dirents, cache, inner, made>> /\ Return(p)
    BY DEF ReadError, Fail, disk, memory
  <2> QED
    BY <2>1, <2>2, <1>EndKept, Unloading
(* Steps of create_file that change no directory.                          *)
<1>WriteKept.
    ASSUME IInv, Typed', Objects', NEW p \in Procs, \A q \in Procs : q = p, Loading,
           UNCHANGED <<dirents, made>>, Directories', \A f \in made : f.inum \in inodeBitmap',
           Operation(pc[p], op[p], Parent(p), itable, dataBitmap)',
           pc'[p] \in {"insert", "writeNew", "writeParent", "writeUndo"} => buf'[p] = itable',
           pc'[p] \in {"readParent", "writeParent"} =>
             Entry(op[p].new, Parent(p).sz)' = [inum |-> op'[p].inum, name |-> op'[p].name],
           pc'[p] \in HasInode => op'[p].inum \in inodeBitmap' /\ \A f \in made : op'[p].inum # f.inum
    PROVE  IInv'
  <2> USE <1>WriteKept
  <2>1. CacheFollows'
    BY <1>CacheSame DEF IInv
  <2>2. Durable'
    BY <1>DurableSame DEF IInv
  <2>3. Operations'
    BY DEF Operations
  <2>4. Buffers' /\ Added'
    BY DEF Buffers, Added
  <2>5. Allocated'
    BY DEF Allocated
  <2> QED
    BY <2>1, <2>2, <2>3, <2>4, <2>5 DEF IInv
<1>OperationMoves.
    ASSUME NEW w \in Writing \ {"block"}, NEW x \in Writing \ {"block"}, x \in Unlinked => w \in Unlinked,
           NEW o, NEW v, v.blk = o.blk, v.new = o.new, v.dir = o.dir,
           NEW c, NEW T, NEW U, \A d \in Dirs : U[d] = T[d],
           NEW B, NEW C, x # "done" => w # "done" /\ B \subseteq C, Operation(w, o, c, T, B)
    PROVE  Operation(x, v, c, U, C)
  <2> USE <1>OperationMoves
  <2>1. Grown(c, v.new, v.blk)
    BY DEF Operation
  <2>2. v.blk # 0 => \A d \in Dirs, j \in Indices : U[d].blocks[j] = v.blk => d = v.dir /\ j = Target(c)
    BY DEF Operation
  <2>3. x # "done" /\ v.blk # 0 => v.blk - DATA_BLOCK_START \in C
    BY DEF Operation
  <2>4. x \in Unlinked /\ v.blk # 0 => \A d \in Dirs, j \in Indices : U[d].blocks[j] # v.blk
    BY DEF Operation
  <2> QED
    BY <2>1, <2>2, <2>3, <2>4 DEF Operation
(* The same operation at another place.                                    *)
<1>OperationGoes.
    ASSUME IInv, NEW p \in Procs, pc[p] \in Writing \ {"block"}, pc'[p] \in Writing \ {"block"},
           pc'[p] \in Unlinked => pc[p] \in Unlinked,
           op'[p].blk = op[p].blk, op'[p].new = op[p].new, op'[p].dir = op[p].dir,
           Parent(p)' = Parent(p), \A d \in Dirs : itable'[d] = itable[d],
           pc'[p] # "done" => pc[p] # "done" /\ dataBitmap \subseteq dataBitmap'
    PROVE  Operation(pc[p], op[p], Parent(p), itable, dataBitmap)'
  <2> USE <1>OperationGoes
  <2>1. PICK w, x, o, v, c :
          w = pc[p] /\ x = pc'[p] /\ o = op[p] /\ v = op'[p] /\ c = Parent(p)
    OBVIOUS
  <2>2. PICK T, U, B, C : T = itable /\ U = itable' /\ B = dataBitmap /\ C = dataBitmap'
    OBVIOUS
  <2>3. Operation(w, o, c, T, B)
    BY <2>1, <2>2, OperationNow
  <2>4. v.blk = o.blk /\ v.new = o.new /\ v.dir = o.dir /\ \A d \in Dirs : U[d] = T[d]
    BY <2>1, <2>2
  <2>5. /\ w \in Writing \ {"block"} /\ x \in Writing \ {"block"} /\ (x \in Unlinked => w \in Unlinked)
        /\ (x # "done" => w # "done" /\ B \subseteq C)
    BY <2>1, <2>2
  <2>6. Operation(x, v, c, U, C)
    BY <2>3, <2>4, <2>5, <1>OperationMoves
  <2> QED
    BY <2>1, <2>2, <2>6
<1>CreateFileKept.
    ASSUME IInv, NEW p \in Procs, \A q \in Procs : q = p, CreateFile(p)
    PROVE  IInv'
  <2> USE <1>CreateFileKept
  <2>1. Typed' /\ Objects'
    BY NextObjects DEF IInv, Next
  <2>2. UNCHANGED <<inodeBitmap, dataBitmap, itable, dirents, made>> /\ pc[p] = "create"
    BY DEF CreateFile, disk
  <2>3. CASE NameTaken(p)
    <3>1. CacheFound(p) /\ Return(p)
      BY <2>3 DEF CreateFile
    <3> QED
      BY <2>1, <2>2, <3>1, FoundLoads, <1>EndKept
  <2>4. CASE ~NameTaken(p) /\ Parent(p).sz \div PerBlock >= DIRECT_BLOCKS
    <3>1. UNCHANGED <<cache, inner>> /\ Return(p)
      BY <2>4 DEF CreateFile
    <3> QED
      BY <2>1, <2>2, <3>1, <1>EndKept, Unloading
  <2>5. CASE ~NameTaken(p) /\ ~(Parent(p).sz \div PerBlock >= DIRECT_BLOCKS)
    <3>1. PICK c \in Inodes, o \in Ops : c = Parent(p) /\ o = op[p]
      BY OpFields, ParentTyped DEF IInv
    <3>2. PICK x : x = [c EXCEPT !.sz = @ + 1]
      OBVIOUS
    <3>3. /\ x \in Inodes /\ x.sz = c.sz + 1 /\ x.ty = c.ty
          /\ x.indirect = c.indirect /\ x.blocks = c.blocks
      BY <3>2, SMTT(30) DEF Inodes
    <3>4. PICK v \in Ops :
            /\ v = [o EXCEPT !.new = x] /\ v.new = x
            /\ v.obj = o.obj /\ v.dir = o.dir /\ v.inum = o.inum /\ v.blk = o.blk /\ v.name = o.name
      BY <3>3, NewSet
    <3>5. /\ op' = [op EXCEPT ![p] = v] /\ UNCHANGED <<cache, inner, buf>>
          /\ Goto(p, IF c.blocks[Target(c)] = 0 THEN "block" ELSE "inode")
      BY <2>5, <3>1, <3>2, <3>4 DEF CreateFile, Target
    <3>6. op'[p] = v /\ pc'[p] = IF c.blocks[Target(c)] = 0 THEN "block" ELSE "inode"
      BY <3>5 DEF Goto, IInv, Typed
    <3>7. v.blk = 0
      BY <2>2, <3>1, <3>4, EarlyBlk, NotWriting
    <3>8. Parent(p)' = c
      BY <3>1, <3>4, <3>5, <3>6 DEF Parent
    <3>9. Target(c) \in Indices
      <4>1. PICK s \in Nat : s = c.sz
        BY InodeFields
      <4>2. s \div PerBlock \in Nat /\ ~(s \div PerBlock >= DIRECT_BLOCKS)
        BY <2>5, <3>1, <4>1, Division
      <4>3. s \div PerBlock \in Indices
        BY <4>2, VsfsAssumption, SMTT(30) DEF Indices
      <4> QED
        BY <4>1, <4>3 DEF Target
    <3>10. PICK w, T, B : w = pc'[p] /\ T = itable' /\ B = dataBitmap'
      OBVIOUS
    <3>11. Operation(w, v, c, T, B)
      <4>1. CASE c.blocks[Target(c)] = 0
        <5>1. w = "block" /\ w \in Writing /\ w \notin Unlinked
          BY <3>6, <3>10, <4>1 DEF Writing, Unlinked
        <5> QED
          BY <3>2, <3>4, <3>7, <3>9, <4>1, <5>1 DEF Operation
      <4>2. CASE c.blocks[Target(c)] # 0
        <5>1. w = "inode" /\ w \in Writing /\ w # "block"
          BY <3>6, <3>10, <4>2 DEF Writing
        <5>2. Grown(c, v.new, v.blk)
          BY <3>3, <3>4, <3>7, <3>9, <4>2 DEF Grown
        <5> QED
          BY <3>7, <5>1, <5>2 DEF Operation
      <4> QED
        BY <4>1, <4>2
    <3>12. Operation(pc[p], op[p], Parent(p), itable, dataBitmap)'
      BY <3>6, <3>8, <3>10, <3>11
    <3>13. /\ pc'[p] \notin {"insert", "writeNew", "writeParent", "writeUndo"}
           /\ pc'[p] \notin {"readParent", "writeParent"} /\ pc'[p] \notin HasInode
      BY <3>6 DEF HasInode
    <3>14. Directories' /\ Loading
      BY <2>2, <3>5, Unloading, <1>DirectoriesSame DEF IInv
    <3>15. \A f \in made : f.inum \in inodeBitmap'
      BY <2>2 DEF IInv, Durable
    <3> QED
      BY <2>1, <2>2, <3>12, <3>13, <3>14, <3>15, <1>WriteKept
  <2> QED
    BY <2>3, <2>4, <2>5
<1>AllocateBlockKept.
    ASSUME IInv, NEW p \in Procs, \A q \in Procs : q = p, AllocateBlock(p)
    PROVE  IInv'
  <2> USE <1>AllocateBlockKept
  <2>1. Typed' /\ Objects'
    BY NextObjects DEF IInv, Next
  <2>2. UNCHANGED <<inodeBitmap, itable, dirents, cache, inner, made>> /\ pc[p] = "block"
    BY DEF AllocateBlock
  <2>3. dataBitmap \subseteq dataBitmap'
    BY DEF AllocateBlock
  <2>4. Loading /\ Directories'
    BY <2>2, <2>3, Unloading, <1>DirectoriesSame DEF IInv
  <2>5. \A f \in made : f.inum \in inodeBitmap'
    BY <2>2 DEF IInv, Durable
  <2>6. CASE Return(p)
    <3>1. CacheFollows' /\ Durable'
      BY <2>2, <2>4, <2>5, <1>CacheSame, <1>DurableSame DEF IInv
    <3>2. Operations' /\ Buffers' /\ Added' /\ Allocated'
      BY <2>6, <1>ReturnSame DEF IInv
    <3> QED
      BY <2>1, <2>4, <3>1, <3>2 DEF IInv
  <2>7. CASE ~Return(p)
    <3>1. PICK bit \in (0..(NBLOCKS - DATA_BLOCK_START - 1)) \ dataBitmap, b \in Nat, v \in Ops,
               g \in [Indices -> Nat] :
             /\ b = DATA_BLOCK_START + bit /\ dataBitmap' = dataBitmap \cup {bit}
             /\ op' = [op EXCEPT ![p] = v] /\ v.blk = b
             /\ v.obj = op[p].obj /\ v.dir = op[p].dir /\ v.name = op[p].name
             /\ v.new.sz = op[p].new.sz /\ v.new.ty = op[p].new.ty
             /\ v.new.indirect = op[p].new.indirect
             /\ g = op[p].new.blocks
             /\ v.new.blocks = [g EXCEPT ![Target(Parent(p))] = b]
             /\ Goto(p, "inode") /\ UNCHANGED buf
      BY <2>7, BlockTaken DEF IInv
    <3>2. PICK c \in Inodes, t \in Nat : c = Parent(p) /\ t = Target(c)
      <4>1. PICK c \in Inodes : c = Parent(p)
        BY ParentTyped DEF IInv
      <4> QED
        BY <4>1, InodeFields, Division DEF Target
    <3>3. op'[p] = v /\ pc'[p] = "inode"
      BY <3>1 DEF Goto, IInv, Typed
    <3>4. Parent(p)' = c
      BY <2>2, <3>1, <3>2, <3>3 DEF Parent
    <3>5. /\ t \in Indices /\ c.blocks[t] = 0
          /\ op[p].blk = 0 /\ op[p].new = [c EXCEPT !.sz = @ + 1]
      <4>1. Operation(pc[p], op[p], Parent(p), itable, dataBitmap)
        BY OperationNow
      <4> QED
        BY <2>2, <3>2, <4>1 DEF Operation
    <3>6. PICK x \in Inodes : x = op[p].new
      BY OpFields DEF IInv
    <3>7. x.sz = c.sz + 1 /\ x.ty = c.ty /\ x.indirect = c.indirect /\ x.blocks = c.blocks
      BY <3>5, <3>6, SMTT(30) DEF Inodes
    <3>8. b \in Blocks /\ b # 0 /\ b - DATA_BLOCK_START = bit
      BY <3>1, VsfsAssumption, SMTT(30) DEF Blocks
    <3>9. v.new.blocks[t] = b /\ \A j \in Indices \ {t} : v.new.blocks[j] = c.blocks[j]
      BY <3>1, <3>2, <3>5, <3>6, <3>7, ZenonT(90)
    <3>10. Grown(c, v.new, v.blk)
      <4>1. v.new.sz = c.sz + 1 /\ v.new.ty = c.ty /\ v.new.indirect = c.indirect
        BY <3>1, <3>6, <3>7
      <4> QED
        BY <3>1, <3>2, <3>5, <3>8, <3>9, <4>1 DEF Grown
    <3>11. PICK T, B : T = itable /\ B = dataBitmap
      OBVIOUS
    <3>12. \A d \in Dirs, j \in Indices : T[d].blocks[j] # b
      <4>1. SUFFICES ASSUME NEW d \in Dirs, NEW j \in Indices, b = T[d].blocks[j]
                     PROVE  FALSE
        OBVIOUS
      <4>2. BlocksOwned(T, B)
        BY <3>11 DEF IInv, Directories
      <4>3. b - DATA_BLOCK_START \in B
        BY <3>8, <4>1, <4>2, OwnedBlock, SMTT(30)
      <4> QED
        BY <3>1, <3>8, <3>11, <4>3
    <3>13. PICK w, C : w = pc'[p] /\ C = dataBitmap'
      OBVIOUS
    <3>14. w = "inode" /\ w \in Writing \ {"block"}
      BY <3>3, <3>13 DEF Writing
    <3>15. v.blk - DATA_BLOCK_START \in C
      BY <3>1, <3>8, <3>13
    <3>16. Operation(w, v, c, T, C)
      BY <3>1, <3>10, <3>12, <3>14, <3>15, ZenonT(90) DEF Operation
    <3>17. Operation(pc[p], op[p], Parent(p), itable, dataBitmap)'
      BY <2>2, <3>3, <3>4, <3>11, <3>13, <3>16
    <3>18. /\ pc'[p] \notin {"insert", "writeNew", "writeParent", "writeUndo"}
           /\ pc'[p] \notin {"readParent", "writeParent"} /\ pc'[p] \notin HasInode
      BY <3>3 DEF HasInode
    <3> QED
      BY <2>1, <2>2, <2>4, <2>5, <3>17, <3>18, <1>WriteKept
  <2> QED
    BY <2>6, <2>7
<1>AllocateInodeKept.
    ASSUME IInv, NEW p \in Procs, \A q \in Procs : q = p, AllocateInode(p)
    PROVE  IInv'
  <2> USE <1>AllocateInodeKept
  <2>1. Typed' /\ Objects'
    BY NextObjects DEF IInv, Next
  <2>2. UNCHANGED <<dataBitmap, itable, dirents, cache, inner, made, buf>> /\ pc[p] = "inode"
    BY DEF AllocateInode, memory
  <2>3. Loading /\ Directories'
    BY <2>2, Unloading, <1>DirectoriesSame DEF IInv
  <2>4. inodeBitmap \subseteq inodeBitmap'
    BY DEF AllocateInode
  <2>5. \A f \in made : f.inum \in inodeBitmap /\ f.inum \in inodeBitmap'
    BY <2>4 DEF IInv, Durable
  <2>6. pc[p] \in Writing \ {"block"} /\ pc[p] \in Unlinked /\ pc[p] # "done"
    BY <2>2 DEF Writing, Unlinked
  <2>7. CASE Goto(p, "freeBlock") /\ UNCHANGED op
    <3>1. pc'[p] = "freeBlock" /\ op'[p] = op[p] /\ Parent(p)' = Parent(p)
      BY <2>2, <2>7 DEF Goto, IInv, Typed, Parent
    <3>2. /\ pc'[p] \in Writing \ {"block"} /\ pc'[p] \notin HasInode
          /\ pc'[p] \notin {"insert", "writeNew", "writeParent", "writeUndo"}
          /\ pc'[p] \notin {"readParent", "writeParent"}
      BY <3>1 DEF Writing, HasInode
    <3>3. Operation(pc[p], op[p], Parent(p), itable, dataBitmap)'
      BY <2>2, <2>6, <3>1, <3>2, <1>OperationGoes
    <3> QED
      BY <2>1, <2>2, <2>3, <2>5, <3>2, <3>3, <1>WriteKept
  <2>8. CASE ~(Goto(p, "freeBlock") /\ UNCHANGED op)
    <3>1. PICK i \in Least(FreeInums) :
            /\ op' = [op EXCEPT ![p].inum = i] /\ Goto(p, "readNew")
            /\ inodeBitmap' = inodeBitmap \cup {i}
      BY <2>8 DEF AllocateInode, NoInode
    <3>2. i \in Nat /\ i \notin inodeBitmap
      BY <3>1, SMTT(30) DEF Least, FreeInums, Inums
    <3>3. PICK o \in Ops : o = op[p]
      BY OpFields DEF IInv
    <3>4. PICK v \in Ops :
            /\ v = [o EXCEPT !.inum = i] /\ v.inum = i
            /\ v.obj = o.obj /\ v.dir = o.dir /\ v.blk = o.blk /\ v.new = o.new /\ v.name = o.name
      BY <3>2, InumSet
    <3>5. op' = [op EXCEPT ![p] = v]
      BY <3>1, <3>3, <3>4
    <3>6. pc'[p] = "readNew" /\ op'[p] = v
      BY <3>1, <3>5 DEF Goto, IInv, Typed
    <3>7. Parent(p)' = Parent(p)
      BY <2>2, <3>3, <3>4, <3>6 DEF Parent
    <3>8. op'[p].inum \in inodeBitmap' /\ \A f \in made : op'[p].inum # f.inum
      <4>1. op'[p].inum = i
        BY <3>4, <3>6
      <4>2. i \in inodeBitmap'
        BY <3>1
      <4>3. \A f \in made : i # f.inum
        BY <2>5, <3>2
      <4> QED
        BY <4>1, <4>2, <4>3
    <3>9. op'[p].blk = op[p].blk /\ op'[p].new = op[p].new /\ op'[p].dir = op[p].dir
      BY <3>3, <3>4, <3>6
    <3>10. /\ pc'[p] \in Writing \ {"block"}
           /\ pc'[p] \notin {"insert", "writeNew", "writeParent", "writeUndo"}
           /\ pc'[p] \notin {"readParent", "writeParent"}
      BY <3>6 DEF Writing, HasInode
    <3>11. Operation(pc[p], op[p], Parent(p), itable, dataBitmap)'
      BY <2>2, <2>6, <3>7, <3>9, <3>10, <1>OperationGoes
    <3> QED
      BY <2>1, <2>2, <2>3, <2>5, <3>8, <3>10, <3>11, <1>WriteKept
  <2> QED
    BY <2>7, <2>8
<1>ReadSectorKept.
    ASSUME IInv, NEW p \in Procs, \A q \in Procs : q = p, ReadSector(p)
    PROVE  IInv'
  <2> USE <1>ReadSectorKept
  <2>1. Typed' /\ Objects'
    BY NextObjects DEF IInv, Next
  <2>2. UNCHANGED <<inodeBitmap, dataBitmap, itable, dirents, cache, inner, op, made>>
    BY DEF ReadSector, disk, memory
  <2>3. Loading /\ Directories'
    BY <2>2, Unloading, <1>DirectoriesSame DEF IInv
  <2>4. \A f \in made : f.inum \in inodeBitmap'
    BY <2>2 DEF IInv, Durable
  <2>5. pc[p] \in {"readNew", "readParent", "readUndo"} /\ pc[p] \in HasInode
    BY DEF ReadSector, HasInode
  <2>6. PICK ok \in BOOLEAN :
          /\ buf' = IF ok THEN [buf EXCEPT ![p] = itable] ELSE buf
          /\ pc'[p] = CASE pc[p] = "readNew"    -> IF ok THEN "writeNew" ELSE "freeInode"
                        [] pc[p] = "readParent" -> IF ok THEN "writeParent" ELSE "clearDirent"
                        [] OTHER                -> IF ok THEN "writeUndo" ELSE "done"
    BY DEF ReadSector, Goto, IInv, Typed
  <2>7. /\ pc[p] = "readNew" => pc'[p] \in {"writeNew", "freeInode"}
        /\ pc[p] = "readParent" => pc'[p] \in {"writeParent", "clearDirent"}
        /\ pc[p] = "readUndo" => pc'[p] \in {"writeUndo", "done"}
    BY <2>6
  <2>8. pc'[p] \in {"writeNew", "writeParent", "writeUndo"} => ok
    BY <2>5, <2>6
  <2>9. pc'[p] # "insert" /\ pc'[p] # "readParent"
    BY <2>5, <2>7
  <2>10. pc'[p] \in {"insert", "writeNew", "writeParent", "writeUndo"} => buf'[p] = itable'
    BY <2>2, <2>6, <2>8, <2>9 DEF IInv, Typed
  <2>11. pc'[p] = "writeParent" => pc[p] = "readParent"
    BY <2>5, <2>7
  <2>12. pc'[p] \in {"readParent", "writeParent"} =>
           Entry(op[p].new, Parent(p).sz)' = [inum |-> op'[p].inum, name |-> op'[p].name]
    BY <2>2, <2>9, <2>11 DEF IInv, Added, Entry, Parent
  <2>13. op'[p].inum \in inodeBitmap' /\ \A f \in made : op'[p].inum # f.inum
    BY <2>2, <2>5 DEF IInv, Allocated
  <2>14. /\ pc[p] \in Writing \ {"block"} /\ pc'[p] \in Writing \ {"block"} /\ pc[p] # "done"
         /\ pc'[p] \in Unlinked => pc[p] \in Unlinked
    BY <2>5, <2>7 DEF Writing, HasInode, Unlinked
  <2>15. Operation(pc[p], op[p], Parent(p), itable, dataBitmap)'
    BY <2>2, <2>14, <1>OperationGoes DEF Parent
  <2> QED
    BY <2>1, <2>2, <2>3, <2>4, <2>10, <2>12, <2>13, <2>15, <1>WriteKept
<1>WriteNewInodeKept.
    ASSUME IInv, NEW p \in Procs, \A q \in Procs : q = p, WriteNewInode(p)
    PROVE  IInv'
  <2> USE <1>WriteNewInodeKept
  <2>1. Typed' /\ Objects'
    BY NextObjects DEF IInv, Next
  <2>2. /\ UNCHANGED <<inodeBitmap, dataBitmap, dirents, cache, inner, op, buf, made>>
        /\ pc[p] = "writeNew"
    BY DEF WriteNewInode, memory
  <2>3. pc[p] \in HasInode /\ buf[p] = itable
    BY <2>2 DEF HasInode, IInv, Buffers
  <2>4. \A d \in Dirs : itable'[d] = itable[d]
    <3>1. CASE UNCHANGED itable
      BY <3>1
    <3>2. CASE WriteSector(p, op[p].inum, FileInode)
      <4>1. PICK i \in Inums \ Dirs : i = op[p].inum
        BY <2>3 DEF IInv, Objects
      <4>2. WriteSector(p, i, FileInode)
        BY <3>2, <4>1
      <4>3. \A j \in Inums \ {i} : itable'[j] = itable[j]
        BY <2>3, <4>2, SectorIs, BlankTyped DEF IInv
      <4> QED
        BY <4>1, <4>3, DirsTyped DEF IInv
    <3> QED
      BY <3>1, <3>2 DEF WriteNewInode
  <2>5. Loading
    BY <2>2, <2>4 DEF Loading
  <2>6. Directories'
    BY <2>2, <2>4, <1>DirectoriesSame DEF IInv
  <2>7. \A f \in made : f.inum \in inodeBitmap'
    BY <2>2 DEF IInv, Durable
  <2>8. pc'[p] \in {"dirent", "freeInode"}
    BY DEF WriteNewInode, Goto, IInv, Typed
  <2>9. /\ pc'[p] \notin {"insert", "writeNew", "writeParent", "writeUndo"}
        /\ pc'[p] \notin {"readParent", "writeParent"} /\ pc[p] # "done"
        /\ pc[p] \in Writing \ {"block"} /\ pc'[p] \in Writing \ {"block"} /\ pc[p] \in Unlinked
    BY <2>2, <2>8 DEF Writing, HasInode, Unlinked
  <2>10. op'[p].inum \in inodeBitmap' /\ \A f \in made : op'[p].inum # f.inum
    BY <2>2, <2>3 DEF IInv, Allocated
  <2>11. Parent(p)' = Parent(p)
    BY <2>2 DEF Parent
  <2>12. Operation(pc[p], op[p], Parent(p), itable, dataBitmap)'
    BY <2>2, <2>4, <2>9, <2>11, <1>OperationGoes
  <2> QED
    BY <2>1, <2>2, <2>5, <2>6, <2>7, <2>9, <2>10, <2>12, <1>WriteKept
<1>FreeInodeKept.
    ASSUME IInv, NEW p \in Procs, \A q \in Procs : q = p, FreeInode(p)
    PROVE  IInv'
  <2> USE <1>FreeInodeKept
  <2>1. Typed' /\ Objects'
    BY NextObjects DEF IInv, Next
  <2>2. /\ UNCHANGED <<dataBitmap, itable, dirents, cache, inner, op, buf, made>>
        /\ pc[p] = "freeInode" /\ pc'[p] = "freeBlock"
    BY DEF FreeInode, memory, Goto, IInv, Typed
  <2>3. Loading /\ Directories'
    BY <2>2, Unloading, <1>DirectoriesSame DEF IInv
  <2>4. pc[p] \in HasInode
    BY <2>2 DEF HasInode
  <2>5. inodeBitmap' = inodeBitmap \ {op[p].inum} \/ inodeBitmap' = inodeBitmap
    BY DEF FreeInode
  <2>6. \A f \in made : f.inum \in inodeBitmap'
    BY <2>4, <2>5 DEF IInv, Durable, Allocated
  <2>7. /\ pc'[p] \notin {"insert", "writeNew", "writeParent", "writeUndo"}
        /\ pc'[p] \notin {"readParent", "writeParent"} /\ pc[p] # "done" /\ pc'[p] \notin HasInode
        /\ pc[p] \in Writing \ {"block"} /\ pc'[p] \in Writing \ {"block"} /\ pc[p] \in Unlinked
    BY <2>2 DEF Writing, HasInode, Unlinked
  <2>8. Operation(pc[p], op[p], Parent(p), itable, dataBitmap)'
    BY <2>2, <2>7, <1>OperationGoes DEF Parent
  <2> QED
    BY <2>1, <2>2, <2>3, <2>6, <2>7, <2>8, <1>WriteKept
(* Only a block that no directory has is freed.                            *)
<1>FreeBlockKept.
    ASSUME IInv, NEW p \in Procs, \A q \in Procs : q = p, FreeBlock(p)
    PROVE  IInv'
  <2> USE <1>FreeBlockKept
  <2>1. Typed' /\ Objects'
    BY NextObjects DEF IInv, Next
  <2>2. /\ UNCHANGED <<inodeBitmap, itable, dirents, cache, inner, op, buf, made>>
        /\ pc[p] = "freeBlock" /\ pc'[p] = "done"
    BY DEF FreeBlock, memory, Goto, IInv, Typed
  <2>3. Loading
    BY <2>2, Unloading
  <2>4. Directories'
    <3>1. CASE dataBitmap' = dataBitmap
      BY <2>2, <3>1, <1>DirectoriesSame DEF IInv
    <3>2. CASE dataBitmap' # dataBitmap
      <4>1. PICK b \in Nat :
              b = op[p].blk /\ b # 0 /\ dataBitmap' = dataBitmap \ {b - DATA_BLOCK_START}
        BY <3>2, OpFields DEF FreeBlock, IInv
      <4>2. "freeBlock" \in Unlinked
        BY DEF Unlinked
      <4>3. \A d \in Dirs, j \in Indices : itable[d].blocks[j] # b
        BY <2>2, <4>1, <4>2, OperationNow DEF Operation
      <4>4. PICK T, B : T = itable /\ B = dataBitmap
        OBVIOUS
      <4>5. BlocksOwned(T, B)
        BY <4>4 DEF IInv, Directories
      <4>6. BlocksOwned(T, B \ {b - DATA_BLOCK_START})
        <5>1. SUFFICES ASSUME NEW d \in Dirs, NEW j \in Indices, T[d].blocks[j] # 0
                       PROVE  /\ T[d].blocks[j] \in Blocks
                              /\ T[d].blocks[j] - DATA_BLOCK_START \in B \ {b - DATA_BLOCK_START}
                              /\ \A e \in Dirs, l \in Indices :
                                   T[d].blocks[j] = T[e].blocks[l] => d = e /\ j = l
          BY DEF BlocksOwned
        <5>2. PICK a \in Nat : a = T[d].blocks[j] /\ a # 0
          BY <4>4, <5>1, DirInode, InodeFields DEF IInv
        <5>3. /\ a \in Blocks /\ a - DATA_BLOCK_START \in B
              /\ \A e \in Dirs, l \in Indices : T[e].blocks[l] = a => e = d /\ l = j
          BY <4>5, <5>2, OwnedBlock, SMTT(30)
        <5>4. a # b
          BY <4>3, <4>4, <5>2
        <5>5. a - DATA_BLOCK_START # b - DATA_BLOCK_START
          BY <5>4, VsfsAssumption, SMTT(30)
        <5> QED
          BY <5>2, <5>3, <5>5
      <4>7. BlocksOwned(itable', dataBitmap')
        BY <2>2, <4>1, <4>4, <4>6
      <4> QED
        BY <2>2, <4>7 DEF IInv, Directories
    <3> QED
      BY <3>1, <3>2
  <2>5. \A f \in made : f.inum \in inodeBitmap'
    BY <2>2 DEF IInv, Durable
  <2>6. /\ pc'[p] \notin {"insert", "writeNew", "writeParent", "writeUndo"}
        /\ pc'[p] \notin {"readParent", "writeParent"} /\ pc'[p] \notin HasInode
        /\ pc'[p] \notin Unlinked
        /\ pc[p] \in Writing \ {"block"} /\ pc'[p] \in Writing \ {"block"}
    BY <2>2 DEF Writing, HasInode, Unlinked
  <2>7. Operation(pc[p], op[p], Parent(p), itable, dataBitmap)'
    BY <2>2, <2>6, <1>OperationGoes DEF Parent
  <2> QED
    BY <2>1, <2>2, <2>3, <2>4, <2>5, <2>6, <2>7, <1>WriteKept
(* A firm entry, and where it is.                                          *)
<1>FirmEntry.
    ASSUME IInv, NEW d \in Dirs, NEW k \in Nat, k < Firm(d)
    PROVE  k \div PerBlock \in Indices /\ itable[d].blocks[k \div PerBlock] \in Blocks
  <2> USE <1>FirmEntry
  <2>1. PICK x \in Inodes, m \in Nat : x = itable[d] /\ m = Firm(d) /\ m <= x.sz /\ x.sz \in Nat
    BY FirmBelow, DirInode DEF IInv
  <2>2. k < x.sz /\ FitsSize(x)
    <3>1. k < x.sz
      BY <2>1, SMTT(30)
    <3> QED
      BY <2>1, <3>1 DEF IInv, Directories
  <2>3. PICK j \in Indices : j = k \div PerBlock /\ x.blocks[j] # 0
    BY <2>2, SlotHasBlock
  <2>4. PICK T, B, a : T = itable /\ B = dataBitmap /\ a = x.blocks[j] /\ a = T[d].blocks[j]
    BY <2>1
  <2>5. BlocksOwned(T, B)
    BY <2>4 DEF IInv, Directories
  <2>6. a \in Blocks
    BY <2>3, <2>4, <2>5, OwnedBlock, SMTT(30)
  <2> QED
    BY <2>1, <2>3, <2>4, <2>6
<1>DirentKept.
    ASSUME IInv, NEW p \in Procs, pc[p] \in Writing \ {"block"}, NEW e,
           UNCHANGED dirents \/ WriteDirent(p, e),
           UNCHANGED <<inodeBitmap, dataBitmap, itable, cache, inner, made>>
    PROVE  Directories' /\ CacheFollows' /\ Durable'
  <2> USE <1>DirentKept
  <2>1. CacheFollows'
    BY <1>CacheSame, Unloading DEF IInv
  <2>2. CASE UNCHANGED dirents
    <3>1. Directories'
      BY <2>2, <1>DirectoriesSame DEF IInv
    <3>2. \A f \in made : f.inum \in inodeBitmap'
      BY DEF IInv, Durable
    <3>3. Durable'
      BY <2>2, <3>2, <1>DurableSame, Unloading DEF IInv
    <3> QED
      BY <2>1, <3>1, <3>3
  <2>3. CASE WriteDirent(p, e)
    <3>1. PICK d, c, n, b : d = op[p].dir /\ c = Parent(p) /\ n = op[p].new /\ b = op[p].blk
      OBVIOUS
    <3>2. d \in Dirs /\ c \in Inodes /\ Firm(d) = c.sz
      <4>1. Workable(d, c, n, b)
        BY <3>1, Working
      <4> QED
        BY <4>1 DEF Workable
    <3>3. /\ Target(c) \in Indices /\ n.blocks[Target(c)] \in Blocks
          /\ \A h \in Dirs, l \in Indices :
               itable[h].blocks[l] = n.blocks[Target(c)] => h = d /\ l = Target(c)
      BY <3>1, TargetBlock, SMTT(30)
    <3>4. PICK a \in Blocks, t \in Indices, m \in Nat, s \in 0..(PerBlock - 1) :
            a = n.blocks[t] /\ t = Target(c) /\ m = c.sz /\ s = m % PerBlock /\ t = m \div PerBlock
      <4>1. PICK m \in Nat : m = c.sz
        BY <3>2, InodeFields
      <4>2. m % PerBlock \in 0..(PerBlock - 1)
        BY Division
      <4> QED
        BY <3>3, <4>1, <4>2 DEF Target
    <3>5. a = op[p].new.blocks[Parent(p).sz \div PerBlock] /\ s = Parent(p).sz % PerBlock
      BY <3>1, <3>4
    <3>6. /\ DOMAIN dirents' = Blocks /\ \A x \in Blocks : DOMAIN dirents'[x] = 0..(PerBlock - 1)
          /\ \A x \in Blocks, r \in 0..(PerBlock - 1) :
               x # a \/ r # s => dirents'[x][r] = dirents[x][r]
      <4>1. Directories
        BY DEF IInv
      <4> QED
        BY <2>3, <3>5, <4>1, DirentWritten, SMTT(30)
    <3>7. Directories'
      BY <3>6 DEF IInv, Directories
    <3>8. ASSUME NEW h \in Dirs, NEW k \in Nat, k < Firm(h)
          PROVE  Entry(itable[h], k)' = Entry(itable[h], k)
      <4>1. PICK j \in Indices, x \in Blocks, r \in 0..(PerBlock - 1) :
              j = k \div PerBlock /\ x = itable[h].blocks[j] /\ r = k % PerBlock
        BY <3>8, <1>FirmEntry, Division
      <4>2. x # a \/ r # s
        <5>1. SUFFICES ASSUME x = a, r = s PROVE FALSE
          OBVIOUS
        <5>2. h = d /\ j = t
          BY <3>3, <3>4, <4>1, <5>1
        <5>3. k = m
          BY <3>4, <4>1, <5>1, <5>2, SameSlot
        <5>4. k < m
          BY <3>2, <3>4, <3>8, <5>2
        <5> QED
          BY <5>3, <5>4, SMTT(30)
      <4>3. dirents'[x][r] = dirents[x][r]
        BY <3>6, <4>2
      <4> QED
        BY <4>1, <4>3 DEF Entry
    <3>9. Durable'
      <4>1. SUFFICES ASSUME NEW f \in made
                     PROVE  /\ f.dir \in Dirs /\ f.inum \in inodeBitmap'
                            /\ \E k \in Nat :
                                 /\ k < Firm(f.dir)'
                                 /\ Entry(itable[f.dir], k)' = [inum |-> f.inum, name |-> f.name]
        BY DEF Durable
      <4>2. f.inum \in inodeBitmap'
        BY DEF IInv, Durable
      <4>3. PICK h \in Dirs, k \in Nat :
              h = f.dir /\ k < Firm(h) /\ Entry(itable[h], k) = [inum |-> f.inum, name |-> f.name]
        BY DEF IInv, Durable
      <4>4. Firm(h)' = Firm(h) /\ Entry(itable[h], k)' = Entry(itable[h], k)
        BY <3>8, <4>3, <1>FirmSame, Unloading
      <4> QED
        BY <4>2, <4>3, <4>4
    <3> QED
      BY <2>1, <3>7, <3>9
  <2> QED
    BY <2>2, <2>3
<1>AddDirentKept.
    ASSUME IInv, NEW p \in Procs, \A q \in Procs : q = p, AddDirent(p)
    PROVE  IInv'
  <2> USE <1>AddDirentKept
  <2>1. Typed' /\ Objects'
    BY NextObjects DEF IInv, Next
  <2>2. /\ UNCHANGED <<inodeBitmap, dataBitmap, itable, cache, inner, op, buf, made>>
        /\ pc[p] = "dirent"
    BY DEF AddDirent, memory
  <2>3. PICK e : e = [inum |-> op[p].inum, name |-> op[p].name]
    OBVIOUS
  <2>4. /\ UNCHANGED dirents \/ WriteDirent(p, e)
        /\ pc'[p] \in {"readParent", "freeInode"} /\ (pc'[p] = "readParent" => WriteDirent(p, e))
    BY <2>3 DEF AddDirent, Goto, IInv, Typed
  <2>5. /\ pc[p] \in Writing \ {"block"} /\ pc'[p] \in Writing \ {"block"} /\ pc[p] \in Unlinked
        /\ pc[p] \in HasInode /\ pc[p] # "done"
        /\ pc'[p] \notin {"insert", "writeNew", "writeParent", "writeUndo"}
    BY <2>2, <2>4 DEF Writing, HasInode, Unlinked
  <2>6. Directories' /\ CacheFollows' /\ Durable'
    BY <2>2, <2>4, <2>5, <1>DirentKept
  <2>7. Parent(p)' = Parent(p) /\ op'[p] = op[p]
    BY <2>2 DEF Parent
  <2>8. Operation(pc[p], op[p], Parent(p), itable, dataBitmap)'
    BY <2>2, <2>5, <2>7, <1>OperationGoes
  <2>9. Operations' /\ Buffers'
    BY <2>5, <2>8 DEF Operations, Buffers
  <2>10. Allocated'
    BY <2>2, <2>5 DEF IInv, Allocated
  <2>11. Added'
    <3>1. SUFFICES ASSUME WriteDirent(p, e)
                   PROVE  Entry(op[p].new, Parent(p).sz)' = e
      BY <2>3, <2>4, <2>7 DEF Added
    <3>2. PICK d, c, n, b : d = op[p].dir /\ c = Parent(p) /\ n = op[p].new /\ b = op[p].blk
      OBVIOUS
    <3>3. c \in Inodes
      BY <3>2, ParentTyped DEF IInv
    <3>4. Target(c) \in Indices /\ n.blocks[Target(c)] \in Blocks
      BY <2>5, <3>2, TargetBlock, SMTT(30)
    <3>5. PICK a \in Blocks, m \in Nat, s \in 0..(PerBlock - 1) :
            a = n.blocks[m \div PerBlock] /\ m = c.sz /\ s = m % PerBlock
      BY <3>3, <3>4, InodeFields, Division DEF Target
    <3>6. a = op[p].new.blocks[Parent(p).sz \div PerBlock] /\ s = Parent(p).sz % PerBlock
      BY <3>2, <3>5
    <3>7. Directories
      BY DEF IInv
    <3>8. dirents'[a][s] = e
      <4>1. dirents' = [dirents EXCEPT ![a][s] = e]
        BY <3>1, <3>6 DEF WriteDirent
      <4>2. a \in DOMAIN dirents /\ s \in DOMAIN dirents[a]
        BY <3>5, <3>7 DEF Directories
      <4> QED
        BY <4>1, <4>2
    <3> QED
      BY <2>7, <3>6, <3>8 DEF Entry
  <2> QED
    BY <2>1, <2>6, <2>9, <2>10, <2>11 DEF IInv
<1>ClearDirentKept.
    ASSUME IInv, NEW p \in Procs, \A q \in Procs : q = p, ClearDirent(p)
    PROVE  IInv'
  <2> USE <1>ClearDirentKept
  <2>1. Typed' /\ Objects'
    BY NextObjects DEF IInv, Next
  <2>2. /\ UNCHANGED <<inodeBitmap, dataBitmap, itable, cache, inner, op, buf, made>>
        /\ pc[p] = "clearDirent" /\ pc'[p] = "readUndo"
    BY DEF ClearDirent, memory, Goto, IInv, Typed
  <2>3. UNCHANGED dirents \/ WriteDirent(p, Empty)
    BY DEF ClearDirent
  <2>4. /\ pc[p] \in Writing \ {"block"} /\ pc'[p] \in Writing \ {"block"} /\ pc'[p] \notin Unlinked
        /\ pc[p] \in HasInode /\ pc[p] # "done"
        /\ pc'[p] \notin {"insert", "writeNew", "writeParent", "writeUndo"}
        /\ pc'[p] \notin {"readParent", "writeParent"}
    BY <2>2 DEF Writing, HasInode, Unlinked
  <2>5. Directories' /\ CacheFollows' /\ Durable'
    BY <2>2, <2>3, <2>4, <1>DirentKept
  <2>6. Parent(p)' = Parent(p) /\ op'[p] = op[p]
    BY <2>2 DEF Parent
  <2>7. Operation(pc[p], op[p], Parent(p), itable, dataBitmap)'
    BY <2>2, <2>4, <2>6, <1>OperationGoes
  <2>8. Operations' /\ Buffers' /\ Added'
    BY <2>4, <2>7 DEF Operations, Buffers, Added
  <2>9. Allocated'
    BY <2>2, <2>4 DEF IInv, Allocated
  <2> QED
    BY <2>1, <2>5, <2>8, <2>9 DEF IInv
(* Writing one directory's inode keeps the blocks of directories apart, if *)
(* they are its own, except one at index t that is nobody's.               *)
<1>OwnedKept.
    ASSUME NEW T, NEW U, NEW B, BlocksOwned(T, B), NEW d \in Dirs, NEW t \in Indices,
           \A e \in Dirs \ {d} : U[e] = T[e],
           \A j \in Indices \ {t} : U[d].blocks[j] # 0 => U[d].blocks[j] = T[d].blocks[j],
           U[d].blocks[t] # 0 =>
             /\ U[d].blocks[t] \in Blocks /\ U[d].blocks[t] - DATA_BLOCK_START \in B
             /\ \A e \in Dirs, l \in Indices : T[e].blocks[l] = U[d].blocks[t] => e = d /\ l = t
    PROVE  BlocksOwned(U, B)
  <2> USE <1>OwnedKept
  <2>1. ASSUME NEW j \in Indices, NEW a, a = U[d].blocks[j], a # 0
        PROVE  /\ a \in Blocks /\ a - DATA_BLOCK_START \in B
               /\ \A e \in Dirs, l \in Indices : T[e].blocks[l] = a => e = d /\ l = j
    <3>1. CASE j = t
      BY <2>1, <3>1
    <3>2. CASE j # t
      <4>1. a = T[d].blocks[j]
        BY <2>1, <3>2
      <4> QED
        BY <2>1, <4>1, OwnedBlock, SMTT(30)
    <3> QED
      BY <3>1, <3>2
  <2>2. ASSUME NEW j \in Indices, NEW l \in Indices, U[d].blocks[j] = U[d].blocks[l], U[d].blocks[j] # 0
        PROVE  j = l
    <3>1. PICK a : a = U[d].blocks[j] /\ a = U[d].blocks[l] /\ a # 0
      BY <2>2
    <3>2. CASE j # t
      <4>1. T[d].blocks[j] = a
        BY <3>1, <3>2
      <4>2. \A e \in Dirs, m \in Indices : T[e].blocks[m] = a => e = d /\ m = l
        BY <2>1, <3>1
      <4> QED
        BY <4>1, <4>2
    <3>3. CASE l # t
      <4>1. T[d].blocks[l] = a
        BY <3>1, <3>3
      <4>2. \A e \in Dirs, m \in Indices : T[e].blocks[m] = a => e = d /\ m = j
        BY <2>1, <3>1
      <4> QED
        BY <4>1, <4>2
    <3> QED
      BY <3>2, <3>3
  <2>3. SUFFICES ASSUME NEW h \in Dirs, NEW j \in Indices, NEW a, a = U[h].blocks[j], a # 0
                 PROVE  /\ a \in Blocks /\ a - DATA_BLOCK_START \in B
                        /\ \A e \in Dirs, l \in Indices : a = U[e].blocks[l] => h = e /\ j = l
    BY SMTT(30) DEF BlocksOwned
  <2>4. CASE h = d
    <3>1. /\ a \in Blocks /\ a - DATA_BLOCK_START \in B
          /\ \A e \in Dirs, l \in Indices : T[e].blocks[l] = a => e = d /\ l = j
      BY <2>1, <2>3, <2>4
    <3>2. ASSUME NEW e \in Dirs, NEW l \in Indices, a = U[e].blocks[l]
          PROVE  h = e /\ j = l
      <4>1. CASE e = d
        BY <2>2, <2>3, <2>4, <3>2, <4>1
      <4>2. CASE e # d
        BY <3>1, <3>2, <4>2
      <4> QED
        BY <4>1, <4>2
    <3> QED
      BY <3>1, <3>2
  <2>5. CASE h # d
    <3>1. a = T[h].blocks[j]
      BY <2>3, <2>5
    <3>2. /\ a \in Blocks /\ a - DATA_BLOCK_START \in B
          /\ \A e \in Dirs, l \in Indices : T[e].blocks[l] = a => e = h /\ l = j
      BY <2>3, <3>1, OwnedBlock, SMTT(30)
    <3>3. ASSUME NEW e \in Dirs, NEW l \in Indices, a = U[e].blocks[l]
          PROVE  h = e /\ j = l
      <4>1. CASE e = d
        <5>1. \A g \in Dirs, m \in Indices : T[g].blocks[m] = a => g = d /\ m = l
          BY <2>1, <2>3, <3>3, <4>1
        <5> QED
          BY <2>5, <3>1, <5>1
      <4>2. CASE e # d
        BY <3>2, <3>3, <4>2
      <4> QED
        BY <4>1, <4>2
    <3> QED
      BY <3>2, <3>3
  <2> QED
    BY <2>4, <2>5
(* The two inodes that create_file writes for its directory: the grown one *)
(* and, undoing, the cached one.                                           *)
<1>InodeWritten.
    ASSUME IInv, Typed', NEW p \in Procs, pc[p] \in Writing \ {"block", "done"},
           NEW d, d = op[p].dir, NEW c, c = Parent(p), NEW n, n = op[p].new, NEW b, b = op[p].blk,
           NEW y, y = n \/ y = c, itable'[d] = y, \A e \in Dirs \ {d} : itable'[e] = itable[e],
           UNCHANGED <<dataBitmap, dirents>>
    PROVE  /\ Directories' /\ FitsSize(y) /\ Follows(y, c)
           /\ b # 0 => \A e \in Dirs, l \in Indices :
                itable'[e].blocks[l] = b => e = d /\ l = Target(c) /\ y # c
  <2> USE <1>InodeWritten
  <2>1. /\ d \in Dirs /\ c \in Inodes /\ n \in Inodes /\ b \in Nat
        /\ FitsSize(c) /\ Follows(itable[d], c)
        /\ Grown(c, n, b) /\ FitsSize(n) /\ Follows(n, c)
    <3>1. Workable(d, c, n, b)
      BY Working
    <3> QED
      BY <3>1 DEF Workable
  <2>2. b # 0 => \A e \in Dirs, l \in Indices : itable[e].blocks[l] = b => e = d /\ l = Target(c)
    <3>1. Workable(d, c, n, b)
      BY Working
    <3> QED
      BY <3>1 DEF Workable
  <2>3. /\ Target(c) \in Indices /\ n.blocks[Target(c)] \in Blocks
        /\ \A e \in Dirs, l \in Indices :
             itable[e].blocks[l] = n.blocks[Target(c)] => e = d /\ l = Target(c)
    BY TargetBlock, SMTT(30)
  <2>17. PICK T, U, B : T = itable /\ U = itable' /\ B = dataBitmap
    OBVIOUS
  <2>4. PICK t \in Indices : t = Target(c) /\ T = itable /\ U = itable' /\ B = dataBitmap
    BY <2>3, <2>17
  <2>5. BlocksOwned(T, B)
    BY <2>4 DEF IInv, Directories
  <2>6. b # 0 => b - DATA_BLOCK_START \in B
    BY <2>4, OperationNow DEF Operation
  <2>7. \A j \in Indices : c.blocks[j] # 0 => c.blocks[j] = T[d].blocks[j]
    BY <2>1, <2>4 DEF Follows
  <2>8. \A j \in Indices \ {t} : n.blocks[j] = c.blocks[j]
    BY <2>1, <2>4 DEF Grown
  <2>9. \A j \in Indices \ {t} : y.blocks[j] # 0 => y.blocks[j] = T[d].blocks[j]
    BY <2>7, <2>8
  <2>10. y.blocks[t] # 0 =>
           /\ y.blocks[t] \in Blocks /\ y.blocks[t] - DATA_BLOCK_START \in B
           /\ \A e \in Dirs, l \in Indices : T[e].blocks[l] = y.blocks[t] => e = d /\ l = t
    <3>1. SUFFICES ASSUME NEW a, a = y.blocks[t], a # 0
                   PROVE  /\ a \in Blocks /\ a - DATA_BLOCK_START \in B
                          /\ \A e \in Dirs, l \in Indices : T[e].blocks[l] = a => e = d /\ l = t
      OBVIOUS
    <3>2. CASE c.blocks[t] # 0
      <4>1. a = c.blocks[t]
        BY <2>1, <2>4, <3>1, <3>2 DEF Follows
      <4>2. a = T[d].blocks[t]
        BY <2>7, <3>2, <4>1
      <4> QED
        BY <2>1, <2>5, <3>1, <4>2, OwnedBlock, SMTT(30)
    <3>3. CASE c.blocks[t] = 0
      <4>1. y = n /\ b # 0 /\ a = b
        BY <2>1, <2>4, <3>1, <3>3 DEF Grown
      <4>2. a = n.blocks[Target(c)]
        BY <2>4, <3>1, <4>1
      <4> QED
        BY <2>3, <2>4, <2>6, <4>1, <4>2
    <3> QED
      BY <3>2, <3>3
  <2>11. BlocksOwned(U, B)
    <3>1. U[d] = y /\ \A e \in Dirs \ {d} : U[e] = T[e]
      BY <2>4
    <3>2. \A j \in Indices \ {t} : U[d].blocks[j] # 0 => U[d].blocks[j] = T[d].blocks[j]
      BY <2>9, <3>1
    <3>3. U[d].blocks[t] # 0 =>
             /\ U[d].blocks[t] \in Blocks /\ U[d].blocks[t] - DATA_BLOCK_START \in B
             /\ \A e \in Dirs, l \in Indices : T[e].blocks[l] = U[d].blocks[t] => e = d /\ l = t
      BY <2>10, <3>1
    <3> QED
      BY <2>1, <2>5, <3>1, <3>2, <3>3, <1>OwnedKept, SMTT(30)
  <2>12. FitsSize(y) /\ Follows(y, c) /\ y.ty = "dir"
    <3>1. c.ty = "dir"
      BY <2>1 DEF IInv, Directories, Follows
    <3>2. n.ty = "dir"
      BY <2>1, <3>1 DEF Grown
    <3> QED
      BY <2>1, <3>1, <3>2, FollowsItself
  <2>13. \A e \in Dirs : itable'[e].ty = "dir" /\ FitsSize(itable'[e])
    BY <2>12 DEF IInv, Directories
  <2>14. BlocksOwned(itable', dataBitmap')
    BY <2>4, <2>11
  <2>15. Directories'
    BY <2>13, <2>14 DEF IInv, Directories
  <2>16. ASSUME b # 0, NEW e \in Dirs, NEW l \in Indices, itable'[e].blocks[l] = b
         PROVE  e = d /\ l = t /\ y # c
    <3>1. e = d
      BY <2>2, <2>16
    <3>2. y.blocks[l] = b
      BY <2>16, <3>1
    <3>3. l = t
      BY <2>1, <2>2, <2>4, <2>9, <2>16, <3>2
    <3>4. c.blocks[t] = 0
      BY <2>1, <2>4, <2>16 DEF Grown
    <3> QED
      BY <2>16, <3>1, <3>2, <3>3, <3>4
  <2> QED
    BY <2>4, <2>12, <2>15, <2>16
(* The files made so far stay, when the directory's inode is written.      *)
<1>MadeStay.
    ASSUME IInv, NEW p \in Procs, pc[p] \in Writing \ {"block"},
           NEW d, d = op[p].dir, NEW c, c = Parent(p), NEW y, itable'[d] = y, Follows(y, c),
           \A e \in Dirs \ {d} : itable'[e] = itable[e] /\ Firm(e)' = Firm(e),
           c.sz <= Firm(d)', Firm(d)' \in Nat, UNCHANGED <<inodeBitmap, dirents>>, NEW f \in made
    PROVE  /\ f.dir \in Dirs /\ f.inum \in inodeBitmap'
           /\ \E k \in Nat : /\ k < Firm(f.dir)'
                             /\ Entry(itable[f.dir], k)' = [inum |-> f.inum, name |-> f.name]
  <2> USE <1>MadeStay
  <2>1. PICK n, b : n = op[p].new /\ b = op[p].blk
    OBVIOUS
  <2>2. d \in Dirs /\ c \in Inodes /\ Firm(d) = c.sz /\ FitsSize(c) /\ Follows(itable[d], c)
    <3>1. Workable(d, c, n, b)
      BY <2>1, Working
    <3> QED
      BY <3>1 DEF Workable
  <2>3. PICK h \in Dirs, k \in Nat :
          h = f.dir /\ k < Firm(h) /\ Entry(itable[h], k) = [inum |-> f.inum, name |-> f.name]
    BY DEF IInv, Durable
  <2>4. f.inum \in inodeBitmap'
    BY DEF IInv, Durable
  <2>5. CASE h # d
    <3>1. itable'[h] = itable[h] /\ Firm(h)' = Firm(h)
      BY <2>5
    <3>2. Entry(itable[h], k)' = Entry(itable[h], k)
      BY <3>1 DEF Entry
    <3> QED
      BY <2>3, <2>4, <3>1, <3>2
  <2>6. CASE h = d
    <3>1. PICK m \in Nat, s \in Nat : m = c.sz /\ s = Firm(d)' /\ m <= s /\ k < m
      BY <2>2, <2>3, <2>6, InodeFields
    <3>2. k < s
      BY <3>1, SMTT(30)
    <3>3. PICK x : x = itable[d]
      OBVIOUS
    <3>4. x.blocks[k \div PerBlock] = y.blocks[k \div PerBlock]
      <4>1. k < c.sz /\ Follows(x, c)
        BY <2>2, <3>1, <3>3
      <4> QED
        BY <2>2, <4>1, FirmBlocks, SMTT(30)
    <3>5. Entry(itable[d], k)' = Entry(itable[d], k)
      BY <3>3, <3>4 DEF Entry
    <3> QED
      BY <2>3, <2>4, <2>6, <3>1, <3>2, <3>5
  <2> QED
    BY <2>5, <2>6
(* While the directory is locked, its cached inode stays.                  *)
<1>InodeKept.
    ASSUME IInv, NEW p \in Procs, pc[p] \in Writing \ {"block", "done"},
           NEW d, d = op[p].dir, NEW c, c = Parent(p), NEW y, itable'[d] = y, Follows(y, c),
           \A e \in Dirs \ {d} : itable'[e] = itable[e],
           UNCHANGED <<inodeBitmap, dirents, cache, inner, made>>
    PROVE  CacheFollows' /\ Durable'
  <2> USE <1>InodeKept
  <2>1. PICK n, b : n = op[p].new /\ b = op[p].blk
    OBVIOUS
  <2>2. d \in Dirs /\ c \in Inodes /\ cache[d] # Absent /\ c = Cached(d) /\ FitsSize(c)
    <3>1. Workable(d, c, n, b)
      BY <2>1, Working
    <3> QED
      BY <3>1 DEF Workable
  <2>3. \A e \in Dirs : Cached(e)' = Cached(e)
    BY DEF Cached
  <2>4. CacheFollows'
    BY <2>2, <2>3 DEF IInv, CacheFollows
  <2>5. \A e \in Dirs \ {d} : Firm(e)' = Firm(e)
    BY <2>3 DEF Firm
  <2>6. Firm(d)' = c.sz /\ c.sz \in Nat
    BY <2>2, <2>3, InodeFields DEF Firm
  <2>7. c.sz <= Firm(d)' /\ Firm(d)' \in Nat
    BY <2>6, SMTT(30)
  <2>8. Durable'
    <3>1. SUFFICES ASSUME NEW f \in made
                   PROVE  /\ f.dir \in Dirs /\ f.inum \in inodeBitmap'
                          /\ \E k \in Nat :
                               /\ k < Firm(f.dir)'
                               /\ Entry(itable[f.dir], k)' = [inum |-> f.inum, name |-> f.name]
      BY DEF Durable
    <3> QED
      BY <2>5, <2>7, <1>MadeStay
  <2> QED
    BY <2>4, <2>8
(* An attempt to write the inode of the directory, from a fresh sector.    *)
<1>DirSector.
    ASSUME IInv, NEW p \in Procs, buf[p] = itable, NEW d \in Dirs, NEW x \in Inodes,
           WriteSector(p, d, x)
    PROVE  itable'[d] = x /\ \A e \in Dirs \ {d} : itable'[e] = itable[e]
  <2> USE <1>DirSector
  <2>1. d \in Inums /\ Dirs \subseteq Inums
    BY DirsTyped DEF IInv
  <2>2. itable'[d] = x /\ \A j \in Inums \ {d} : itable'[j] = itable[j]
    BY <2>1, SectorIs DEF IInv
  <2> QED
    BY <2>1, <2>2
<1>WriteUndoKept.
    ASSUME IInv, NEW p \in Procs, \A q \in Procs : q = p, WriteUndo(p)
    PROVE  IInv'
  <2> USE <1>WriteUndoKept
  <2>1. Typed' /\ Objects'
    BY NextObjects DEF IInv, Next
  <2>2. /\ UNCHANGED <<inodeBitmap, dataBitmap, dirents, cache, inner, op, buf, made>>
        /\ pc[p] = "writeUndo"
    BY DEF WriteUndo, memory
  <2>3. /\ pc[p] \in Writing \ {"block", "done"} /\ pc[p] \in HasInode /\ buf[p] = itable
    BY <2>2 DEF Writing, HasInode, IInv, Buffers
  <2>4. PICK d, c, n, b : d = op[p].dir /\ c = Parent(p) /\ n = op[p].new /\ b = op[p].blk
    OBVIOUS
  <2>5. d \in Dirs /\ c \in Inodes
    <3>1. Workable(d, c, n, b)
      BY <2>3, <2>4, Working
    <3> QED
      BY <3>1 DEF Workable
  <2>6. /\ UNCHANGED itable \/ WriteSector(p, d, c)
        /\ pc'[p] \in {"freeInode", "done"} /\ (pc'[p] = "freeInode" => WriteSector(p, d, c))
    BY <2>4 DEF WriteUndo, UndoFailed, Goto, IInv, Typed
  <2>7. /\ pc'[p] \in Writing \ {"block"} /\ pc'[p] \notin {"readParent", "writeParent"}
        /\ pc'[p] \notin {"insert", "writeNew", "writeParent", "writeUndo"}
        /\ pc'[p] \in HasInode => pc'[p] = "freeInode"
        /\ pc'[p] # "freeInode" => pc'[p] = "done" /\ pc'[p] \notin Unlinked
    BY <2>6 DEF Writing, HasInode, Unlinked
  <2>8. Parent(p)' = c /\ op'[p] = op[p]
    BY <2>2, <2>4 DEF Parent
  <2>9. Buffers' /\ Added'
    BY <2>7 DEF Buffers, Added
  <2>10. Allocated'
    BY <2>2, <2>3 DEF IInv, Allocated
  <2>11. CASE WriteSector(p, d, c)
    <3>1. itable'[d] = c /\ \A e \in Dirs \ {d} : itable'[e] = itable[e]
      BY <2>3, <2>5, <2>11, <1>DirSector
    <3>2. /\ Directories' /\ Follows(c, c)
          /\ b # 0 => \A e \in Dirs, l \in Indices : itable'[e].blocks[l] # b
      BY <2>1, <2>2, <2>3, <2>4, <3>1, <1>InodeWritten, SMTT(30)
    <3>3. CacheFollows' /\ Durable'
      BY <2>2, <2>3, <2>4, <3>1, <3>2, <1>InodeKept, SMTT(30)
    <3>4. PICK w, o, x, T, U, B :
            w = pc'[p] /\ o = op[p] /\ x = pc[p] /\ T = itable' /\ U = itable /\ B = dataBitmap
      OBVIOUS
    <3>5. Operation(x, o, c, U, B)
      BY <2>4, <3>4, OperationNow
    <3>6. /\ Grown(c, o.new, o.blk)
          /\ o.blk # 0 => o.blk - DATA_BLOCK_START \in B
      BY <2>3, <3>4, <3>5 DEF Operation
    <3>7. o.blk # 0 => \A e \in Dirs, l \in Indices : T[e].blocks[l] # o.blk
      BY <2>4, <3>2, <3>4
    <3>8. w \in Writing \ {"block"}
      BY <2>7, <3>4
    <3>9. Operation(w, o, c, T, B)
      BY <3>6, <3>7, <3>8 DEF Operation
    <3>10. Operations'
      BY <2>2, <2>8, <3>4, <3>9 DEF Operations
    <3> QED
      BY <2>1, <2>9, <2>10, <3>2, <3>3, <3>10 DEF IInv
  <2>12. CASE ~WriteSector(p, d, c)
    <3>1. UNCHANGED itable /\ pc'[p] = "done" /\ pc'[p] \notin Unlinked
      BY <2>6, <2>7, <2>12
    <3>2. Directories' /\ CacheFollows'
      BY <2>2, <3>1, <1>DirectoriesSame, <1>CacheSame, Unloading DEF IInv
    <3>3. \A f \in made : f.inum \in inodeBitmap'
      BY <2>2 DEF IInv, Durable
    <3>4. Durable'
      BY <2>2, <3>1, <3>3, <1>DurableSame, Unloading DEF IInv
    <3>5. Operation(pc[p], op[p], Parent(p), itable, dataBitmap)'
      BY <2>2, <2>3, <2>4, <2>7, <2>8, <3>1, <1>OperationGoes
    <3>6. Operations'
      BY <3>5 DEF Operations
    <3> QED
      BY <2>1, <2>9, <2>10, <3>2, <3>4, <3>6 DEF IInv
  <2> QED
    BY <2>11, <2>12
<1>WriteParentKept.
    ASSUME IInv, NEW p \in Procs, \A q \in Procs : q = p, WriteParent(p)
    PROVE  IInv'
  <2> USE <1>WriteParentKept
  <2>1. Typed' /\ Objects'
    BY NextObjects DEF IInv, Next
  <2>2. UNCHANGED <<inodeBitmap, dataBitmap, dirents>> /\ pc[p] = "writeParent"
    BY DEF WriteParent
  <2>3. pc[p] \in Writing \ {"block", "done"} /\ pc[p] \in HasInode /\ buf[p] = itable
    BY <2>2 DEF Writing, HasInode, IInv, Buffers
  <2>4. PICK d, c, n, b : d = op[p].dir /\ c = Parent(p) /\ n = op[p].new /\ b = op[p].blk
    OBVIOUS
  <2>5. d \in Dirs /\ d \in Inums /\ c \in Inodes /\ n \in Inodes /\ cache[d] # Absent
    <3>1. Workable(d, c, n, b)
      BY <2>3, <2>4, Working
    <3> QED
      BY <3>1 DEF Workable
  <2>6. Grown(c, n, b)
    <3>1. Workable(d, c, n, b)
      BY <2>3, <2>4, Working
    <3> QED
      BY <3>1 DEF Workable
  <2>7. WriteSector(p, d, n) => /\ itable'[d] = n
                                /\ \A e \in Dirs \ {d} : itable'[e] = itable[e]
    BY <2>3, <2>5, <1>DirSector
  <2>8. itable'[d] = n /\ (\A e \in Dirs \ {d} : itable'[e] = itable[e]) =>
          /\ Directories' /\ FitsSize(n) /\ Follows(n, c)
          /\ b # 0 => \A e \in Dirs, l \in Indices :
               itable'[e].blocks[l] = b => e = d /\ l = Target(c)
    BY <2>1, <2>2, <2>3, <2>4, <1>InodeWritten, SMTT(30)
  <2>9. CASE Return(p)
    <3>1. ~Goto(p, "clearDirent")
      BY <2>9 DEF Return, Goto, IInv, Typed
    <3>2. /\ WriteSector(p, d, n)
          /\ inner' = [inner EXCEPT ![op[p].dir][op[p].obj] = op[p].new,
                                    ![op[p].inum][p] = FileInode]
          /\ cache' = [cache EXCEPT ![op[p].inum] = p]
          /\ made' = made \cup {[dir |-> op[p].dir, name |-> op[p].name, inum |-> op[p].inum]}
      BY <2>4, <3>1 DEF WriteParent, CachedParent
    <3>3. PICK h \in Inums, l \in Loaders, x \in Inodes, i \in Inums \ Dirs :
            h = d /\ l = op[p].obj /\ x = n /\ i = op[p].inum /\ l = cache[d]
      BY <2>2, <2>3, <2>4, <2>5, OpFields DEF IInv, Objects
    <3>4. inner' = [inner EXCEPT ![h][l] = x, ![i][p] = FileInode] /\ cache' = [cache EXCEPT ![i] = p]
      BY <2>4, <3>2, <3>3
    <3>5. /\ \A e \in Dirs : cache'[e] = cache[e]
          /\ inner'[h][l] = x /\ \A e \in Dirs \ {h} : inner'[e] = inner[e]
      <4>1. Typed /\ Objects /\ h \in Dirs
        BY <2>5, <3>3 DEF IInv
      <4> QED
        BY <3>4, <4>1, ParentCached, ZenonT(90)
    <3>6. /\ itable'[d] = n /\ Directories' /\ FitsSize(n) /\ Follows(n, c)
          /\ \A e \in Dirs \ {d} : itable'[e] = itable[e]
      BY <2>7, <2>8, <3>2
    <3>7. Cached(d)' = n /\ cache'[d] # Absent /\ \A e \in Dirs \ {d} : Cached(e)' = Cached(e)
      BY <2>5, <3>3, <3>5 DEF Cached
    <3>8. CacheFollows'
      <4>1. SUFFICES ASSUME NEW e \in Dirs, cache'[e] # Absent
                     PROVE  FitsSize(Cached(e)') /\ Follows(itable'[e], Cached(e)')
        BY DEF CacheFollows
      <4>2. CASE e = d
        BY <2>5, <3>6, <3>7, <4>2, FollowsItself
      <4>3. CASE e # d
        <5>1. itable'[e] = itable[e] /\ Cached(e)' = Cached(e) /\ cache[e] # Absent
          BY <3>5, <3>6, <3>7, <4>1, <4>3
        <5> QED
          BY <5>1 DEF IInv, CacheFollows
      <4> QED
        BY <4>2, <4>3
    <3>9. /\ Firm(d)' = n.sz
          /\ \A e \in Dirs \ {d} : Firm(e)' = Firm(e)
      BY <3>5, <3>6, <3>7 DEF Firm
    <3>10. PICK m \in Nat : m = c.sz /\ n.sz = m + 1
      BY <2>5, <2>6, InodeFields DEF Grown
    <3>11. c.sz <= Firm(d)' /\ Firm(d)' \in Nat /\ m < Firm(d)'
      BY <3>9, <3>10, SMTT(30)
    <3>12. ASSUME NEW f \in made
           PROVE  /\ f.dir \in Dirs /\ f.inum \in inodeBitmap'
                  /\ \E k \in Nat : /\ k < Firm(f.dir)'
                                    /\ Entry(itable[f.dir], k)' = [inum |-> f.inum, name |-> f.name]
      BY <2>2, <2>3, <2>4, <3>6, <3>9, <3>11, <1>MadeStay
    <3>13. Entry(n, m)' = [inum |-> op[p].inum, name |-> op[p].name]
      <4>1. Entry(n, m) = [inum |-> op[p].inum, name |-> op[p].name]
        BY <2>2, <2>4, <3>10 DEF IInv, Added
      <4> QED
        BY <2>2, <4>1 DEF Entry
    <3>14. op[p].inum \in inodeBitmap'
      BY <2>2, <2>3 DEF IInv, Allocated
    <3>15. PICK g : g = [dir |-> op[p].dir, name |-> op[p].name, inum |-> op[p].inum]
      OBVIOUS
    <3>16. g.dir = d /\ g.name = op[p].name /\ g.inum = op[p].inum
      BY <2>4, <3>15, SMTT(30)
    <3>17. /\ g.dir \in Dirs /\ g.inum \in inodeBitmap'
           /\ \E k \in Nat : /\ k < Firm(g.dir)'
                             /\ Entry(itable[g.dir], k)' = [inum |-> g.inum, name |-> g.name]
      BY <2>5, <3>6, <3>11, <3>13, <3>14, <3>16
    <3>18. Durable'
      BY <3>2, <3>12, <3>15, <3>17 DEF Durable
    <3>19. Operations' /\ Buffers' /\ Added' /\ Allocated'
      BY <2>9, <1>ReturnSame DEF IInv
    <3> QED
      BY <2>1, <3>6, <3>8, <3>18, <3>19 DEF IInv
  <2>10. CASE ~Return(p)
    <3>1. /\ Goto(p, "clearDirent") /\ UNCHANGED <<cache, inner, op, buf, made>>
          /\ UNCHANGED itable \/ WriteSector(p, d, n)
      BY <2>4, <2>10 DEF WriteParent
    <3>2. pc'[p] = "clearDirent" /\ op'[p] = op[p] /\ Parent(p)' = c
      BY <2>4, <3>1 DEF Goto, IInv, Typed, Parent
    <3>3. /\ pc'[p] \in Writing \ {"block"} /\ pc'[p] \notin {"readParent", "writeParent"}
          /\ pc'[p] \notin {"insert", "writeNew", "writeParent", "writeUndo"}
          /\ pc'[p] # "done" /\ pc'[p] \notin Unlinked
      BY <3>2 DEF Writing, HasInode, Unlinked
    <3>4. Buffers' /\ Added'
      BY <3>3 DEF Buffers, Added
    <3>5. Allocated'
      BY <2>2, <2>3, <3>1 DEF IInv, Allocated
    <3>6. CASE UNCHANGED itable
      <4>1. Directories' /\ CacheFollows'
        BY <2>2, <3>1, <3>6, <1>DirectoriesSame, <1>CacheSame, Unloading DEF IInv
      <4>2. \A f \in made : f.inum \in inodeBitmap'
        BY <2>2 DEF IInv, Durable
      <4>3. Durable'
        BY <2>2, <3>1, <3>6, <4>2, <1>DurableSame, Unloading DEF IInv
      <4>4. Operation(pc[p], op[p], Parent(p), itable, dataBitmap)'
        BY <2>2, <2>3, <2>4, <3>2, <3>3, <3>6, <1>OperationGoes
      <4>5. Operations'
        BY <4>4 DEF Operations
      <4> QED
        BY <2>1, <3>4, <3>5, <4>1, <4>3, <4>5 DEF IInv
    <3>7. CASE WriteSector(p, d, n)
      <4>1. /\ itable'[d] = n /\ \A e \in Dirs \ {d} : itable'[e] = itable[e]
        BY <2>7, <3>7
      <4>2. /\ Directories' /\ Follows(n, c)
            /\ b # 0 => \A e \in Dirs, l \in Indices :
                 itable'[e].blocks[l] = b => e = d /\ l = Target(c)
        BY <2>8, <4>1
      <4>3. CacheFollows' /\ Durable'
        BY <2>2, <2>3, <2>4, <3>1, <4>1, <4>2, <1>InodeKept, SMTT(30)
      <4>4. PICK w, o, x, T, U, B :
              w = pc'[p] /\ o = op[p] /\ x = pc[p] /\ T = itable' /\ U = itable /\ B = dataBitmap
        OBVIOUS
      <4>5. Operation(x, o, c, U, B)
        BY <2>4, <4>4, OperationNow
      <4>6. o.blk # 0 => o.blk - DATA_BLOCK_START \in B
        BY <2>3, <4>4, <4>5 DEF Operation
      <4>7. /\ Grown(c, o.new, o.blk)
            /\ o.blk # 0 => \A e \in Dirs, l \in Indices :
                 T[e].blocks[l] = o.blk => e = o.dir /\ l = Target(c)
        BY <2>4, <2>6, <4>2, <4>4
      <4>8. w \in Writing \ {"block"} /\ w \notin Unlinked
        BY <3>3, <4>4
      <4>9. Operation(w, o, c, T, B)
        BY <4>6, <4>7, <4>8 DEF Operation
      <4>10. Operations'
        BY <2>2, <3>2, <4>4, <4>9 DEF Operations
      <4> QED
        BY <2>1, <3>4, <3>5, <4>2, <4>3, <4>10 DEF IInv
    <3> QED
      BY <3>1, <3>6, <3>7
  <2> QED
    BY <2>9, <2>10
<1>CrashKept.
    ASSUME IInv, Crash
    PROVE  IInv'
  <2> USE <1>CrashKept
  <2>1. Typed' /\ Objects'
    BY NextObjects DEF IInv, Next
  <2>2. UNCHANGED <<inodeBitmap, dataBitmap, itable, dirents, made>>
    BY DEF Crash, disk
  <2>3. Directories'
    BY <2>2, <1>DirectoriesSame DEF IInv
  <2>4. Dirs \subseteq Inums /\ Root \in Dirs /\ Root \in Inums
    BY DirsTyped DEF IInv
  <2>5. PICK T \in [Inums -> Inodes] : T = itable
    BY DEF IInv, Typed
  <2>6. PICK C, N : /\ C = cache' /\ C = [i \in Inums |-> IF i = Root THEN Mount ELSE Absent]
                    /\ N = inner'
                    /\ N = [i \in Inums |-> [l \in Loaders |->
                                               IF i = Root /\ l = Mount THEN T[i] ELSE Blank]]
    BY <2>5 DEF Crash
  <2>7. /\ \A d \in Inums : C[d] # Absent => d = Root
        /\ C[Root] = Mount /\ N[Root][C[Root]] = T[Root]
    BY <2>4, <2>6, RootMounted
  <2>8. \A d \in Dirs : cache'[d] # Absent => Cached(d)' = itable[d]
    BY <2>4, <2>5, <2>6, <2>7 DEF Cached
  <2>9. CacheFollows'
    <3>1. SUFFICES ASSUME NEW d \in Dirs, cache'[d] # Absent
                   PROVE  FitsSize(itable[d]) /\ Follows(itable[d], itable[d])
      BY <2>2, <2>8 DEF CacheFollows
    <3> QED
      BY DirInode, FollowsItself DEF IInv, Directories
  <2>10. \A d \in Dirs : Firm(d)' = itable[d].sz
    BY <2>2, <2>8 DEF Firm
  <2>11. Durable'
    <3>1. SUFFICES ASSUME NEW f \in made
                   PROVE  /\ f.dir \in Dirs /\ f.inum \in inodeBitmap'
                          /\ \E k \in Nat : /\ k < Firm(f.dir)'
                                            /\ Entry(itable[f.dir], k)' = [inum |-> f.inum, name |-> f.name]
      BY <2>2 DEF Durable
    <3>2. PICK d \in Dirs, k \in Nat :
            d = f.dir /\ k < Firm(d) /\ Entry(itable[d], k) = [inum |-> f.inum, name |-> f.name]
      BY DEF IInv, Durable
    <3>3. f.inum \in inodeBitmap'
      BY <2>2 DEF IInv, Durable
    <3>4. PICK m \in Nat, s \in Nat : m = Firm(d) /\ s = itable[d].sz /\ m <= s
      BY FirmBelow
    <3>5. k < s
      BY <3>2, <3>4, SMTT(30)
    <3>6. Entry(itable[d], k)' = Entry(itable[d], k)
      BY <2>2 DEF Entry
    <3> QED
      BY <2>10, <3>2, <3>3, <3>4, <3>5, <3>6
  <2>12. \A p \in Procs : /\ pc'[p] = "idle" /\ pc'[p] \notin Writing /\ pc'[p] \notin HasInode
                          /\ pc'[p] \notin Unlinked /\ op'[p].blk = 0
    BY Quiet DEF Crash
  <2>13. Operations'
    <3>1. SUFFICES ASSUME NEW p \in Procs
                   PROVE  Operation(pc'[p], op'[p], Parent(p)', itable', dataBitmap')
      BY DEF Operations
    <3>2. PICK w, o, c, S, B :
            w = pc'[p] /\ o = op'[p] /\ c = Parent(p)' /\ S = itable' /\ B = dataBitmap'
      OBVIOUS
    <3> QED
      BY <2>12, <3>2, QuietOperation
  <2>14. Buffers' /\ Added' /\ Allocated'
    BY <2>12 DEF Buffers, Added, Allocated
  <2> QED
    BY <2>1, <2>3, <2>9, <2>11, <2>13, <2>14 DEF IInv
<1> SUFFICES ASSUME OneHart, IInv, [Next]_vars
             PROVE  IInv'
  OBVIOUS
<1>1. ASSUME NEW p \in Procs PROVE \A q \in Procs : q = p
  BY DEF OneHart
<1>2. ASSUME NEW p \in Procs, NEW d \in Dirs, NEW n \in Names, Open(p, d, n)
      PROVE  IInv'
  BY <1>1, <1>2, <1>OpenKept
<1>3. ASSUME NEW p \in Procs,
             \/ Resolve(p) \/ Insert(p) \/ Lookup(p) \/ CreateFile(p) \/ ReadError(p)
             \/ AllocateBlock(p) \/ AllocateInode(p) \/ ReadSector(p) \/ WriteNewInode(p)
      PROVE  IInv'
  BY <1>1, <1>3, <1>ResolveKept, <1>InsertKept, <1>LookupKept, <1>CreateFileKept, <1>ReadErrorKept,
     <1>AllocateBlockKept, <1>AllocateInodeKept, <1>ReadSectorKept, <1>WriteNewInodeKept
<1>4. ASSUME NEW p \in Procs,
             \/ AddDirent(p) \/ WriteParent(p) \/ ClearDirent(p) \/ WriteUndo(p)
             \/ FreeInode(p) \/ FreeBlock(p) \/ Fail(p)
      PROVE  IInv'
  BY <1>1, <1>4, <1>AddDirentKept, <1>WriteParentKept, <1>ClearDirentKept, <1>WriteUndoKept,
     <1>FreeInodeKept, <1>FreeBlockKept, <1>ReadErrorKept
<1>5. CASE Crash
  BY <1>5, <1>CrashKept
<1>6. CASE UNCHANGED vars
  <2>1. /\ UNCHANGED <<inodeBitmap, dataBitmap, itable, dirents, cache, inner>>
        /\ UNCHANGED <<pc, op, buf, made>>
    BY <1>6 DEF vars, disk, memory
  <2>2. Typed' /\ Objects'
    BY <2>1 DEF IInv, Typed, Objects
  <2>3. Directories' /\ CacheFollows' /\ Durable'
    BY <2>1 DEF IInv, Directories, CacheFollows, Durable, Firm, Cached, Entry
  <2>4. Operations' /\ Buffers' /\ Added' /\ Allocated'
    BY <2>1 DEF IInv, Operations, Buffers, Added, Allocated, Parent, Entry
  <2> QED
    BY <2>2, <2>3, <2>4 DEF IInv
<1> QED
  BY <1>2, <1>3, <1>4, <1>5, <1>6 DEF Next

LEMMA KeptIsDurable ==
  ASSUME IInv
  PROVE  CreatedIsDurable
<1>1. SUFFICES ASSUME NEW f \in made
               PROVE  /\ [inum |-> f.inum, name |-> f.name] \in Entries(itable[f.dir])
                      /\ f.inum \in inodeBitmap
  BY DEF CreatedIsDurable
<1>2. PICK d \in Dirs, k \in Nat :
        d = f.dir /\ k < Firm(d) /\ Entry(itable[d], k) = [inum |-> f.inum, name |-> f.name]
  BY DEF IInv, Durable
<1>3. PICK m \in Nat, s \in Nat : m = Firm(d) /\ s = itable[d].sz /\ m <= s
  BY FirmBelow
<1>4. k \in 0..(itable[d].sz - 1)
  BY <1>2, <1>3, SMTT(30)
<1> QED
  BY <1>2, <1>4 DEF Entries, IInv, Durable

(* A file that create_file reported created is in its directory on the     *)
(* disk, and its inode allocated, ever after: no later creation, failing   *)
(* transfer, rollback or power loss takes it away. This is the default     *)
(* build, one hart; with several harts and inodes of two directories in a  *)
(* sector it is false, which MCVsfsSector shows.                           *)
THEOREM CreationDurable == OneHart => (Spec => []CreatedIsDurable)
<1> SUFFICES ASSUME OneHart
             PROVE  Spec => []CreatedIsDurable
  OBVIOUS
<1>1. Init => IInv
  BY InitKept
<1>2. IInv /\ [Next]_vars => IInv'
  BY NextKept
<1>3. IInv => CreatedIsDurable
  BY KeptIsDurable
<1> QED
  BY <1>1, <1>2, <1>3, PTL DEF Spec

-----------------------------------------------------------------------------
(* The entries on the disk.                                                *)
EntryOf(D, x, k) == D[x.blocks[k \div PerBlock]][k % PerBlock]

Undoing == {"clearDirent", "readUndo", "writeUndo"}
Entered == Undoing \cup {"readParent", "writeParent"}

(* An entry names an inode that is allocated and written ...               *)
Written(T, D, B) ==
  \A d \in Dirs, k \in Nat : k < T[d].sz /\ EntryOf(D, T[d], k) # Empty =>
    EntryOf(D, T[d], k).inum \in B /\ T[EntryOf(D, T[d], k).inum].ty # "none"

(* ... and two entries differ.                                             *)
Apart(T, D) ==
  \A d, e \in Dirs, k, l \in Nat :
    (/\ k < T[d].sz /\ EntryOf(D, T[d], k) # Empty
     /\ l < T[e].sz /\ EntryOf(D, T[e], l) # Empty /\ (d # e \/ k # l)) =>
      /\ d = e => EntryOf(D, T[d], k).name # EntryOf(D, T[e], l).name
      /\ EntryOf(D, T[d], k).name \in Names =>
           EntryOf(D, T[d], k).inum # EntryOf(D, T[e], l).inum

(* A creation in progress: its name is not in the cached directory, its    *)
(* inode is written before it is entered, and no other entry names it.     *)
Making(w, o, c, T, D) ==
  /\ w # "idle" => o.name \in Names
  /\ w \in Writing => \A k \in Nat : k < c.sz => EntryOf(D, c, k).name # o.name
  /\ w \in Entered \cup {"dirent"} => T[o.inum] = FileInode
  /\ w \in HasInode => \A d \in Dirs, k \in Nat :
       k < T[d].sz /\ EntryOf(D, T[d], k).inum = o.inum => w \in Entered /\ d = o.dir /\ k = c.sz
  /\ w = "freeInode" => T[o.dir].sz = c.sz

(* A directory on the disk is one entry longer than the cached one only    *)
(* while a creation is undone, or after two failures.                      *)
Lengths ==
  \A d \in Dirs : cache[d] # Absent =>
    /\ itable[d].sz <= Cached(d).sz + 1
    /\ itable[d].sz # Cached(d).sz =>
         \/ faults >= 2
         \/ faults >= 1 /\ \E p \in Procs : op[p].dir = d /\ pc[p] \in Undoing

(* The entries are sound as long as at most two transfers failed.          *)
EInv ==
  /\ faults \in Nat /\ Lengths
  /\ faults <= 2 =>
       /\ Written(itable, dirents, inodeBitmap) /\ Apart(itable, dirents)
       /\ \A p \in Procs : Making(pc[p], op[p], Parent(p), itable, dirents)

(* Without a failure, the cache is what the disk has.                      *)
Agree ==
  faults = 0 =>
    /\ \A i \in Inums : cache[i] # Absent => i \in inodeBitmap /\ inner[i][cache[i]] = itable[i]
    /\ \A p \in Procs : pc[p] \in HasInode => cache[op[p].inum] = Absent
    /\ \A p \in Procs : pc[p] # "freeInode" /\ pc[p] \notin Undoing

(* The inodes and the data blocks in use.                                  *)
Used == Dirs \cup {e.inum : e \in UNION {Entries(itable[d]) : d \in Dirs}}
Held == {b - DATA_BLOCK_START : b \in UNION {Owned(itable[i]) : i \in Used}}

HoldsBlock == HasInode \cup {"inode", "freeBlock"}

(* Without a failure or a power loss, what is allocated is in use, or is   *)
(* what a creation has taken and not entered yet.                          *)
Balance(w, o, U, H, I, A) ==
  /\ I = U \cup (IF w \in HasInode THEN {o.inum} ELSE {})
  /\ IF w \in HoldsBlock /\ o.blk # 0
     THEN A = H \cup {o.blk - DATA_BLOCK_START} /\ o.blk - DATA_BLOCK_START \notin H
     ELSE A = H

Balanced ==
  faults = 0 /\ ~crashed =>
    /\ NothingLeaks
    /\ \A p \in Procs : Balance(pc[p], op[p], Used, Held, inodeBitmap, dataBitmap)

-----------------------------------------------------------------------------
(* Entries.                                                                *)

(* Entry k of x is that of what begins with c.                             *)
SameEntry(D, c, x, k) ==
  /\ k < x.sz /\ EntryOf(D, c, k) = EntryOf(D, x, k)
  /\ \A y : Follows(y, c) => EntryOf(D, y, k) = EntryOf(D, x, k)

(* The step that gives the directory d its new inode n, and caches the     *)
(* file i.                                                                 *)
Stores(p, d, n, i) ==
  /\ i \in Inums \ Dirs /\ cache[d] # Absent /\ faults' = faults
  /\ itable'[d] = n /\ \A j \in Inums \ {d} : itable'[j] = itable[j]
  /\ cache'[i] = p /\ \A j \in Inums \ {i} : cache'[j] = cache[j]
  /\ inner'[d][cache[d]] = n /\ inner'[i][p] = FileInode
  /\ \A j \in Inums \ {d, i} : inner'[j] = inner[j]

WritesParent(d, c, n, i, b) ==
  /\ d \in Dirs /\ d \in Inums /\ c \in Inodes /\ n \in Inodes /\ Grown(c, n, b)
  /\ cache[d] # Absent /\ c = Cached(d) /\ i \in Inums \ Dirs
  /\ itable'[d] = n /\ \A j \in Inums \ {d} : itable'[j] = itable[j]

(* p adds to directory d, cached as c; it enters x there, as entry m.      *)
Adds(p, d, c) == d = op[p].dir /\ c = Parent(p)

Enters(p, d, m, o, x) ==
  d = op[p].dir /\ m = Parent(p).sz /\ o = op[p] /\ x = [inum |-> o.inum, name |-> o.name]

(* Entry m of directory h becomes x, and the others stay.                  *)
Changed(T, D, U, F, h, m, x) ==
  \A d \in Dirs, k \in Nat : k < U[d].sz =>
    \/ k < T[d].sz /\ EntryOf(F, U[d], k) = EntryOf(D, T[d], k)
    \/ d = h /\ k = m /\ EntryOf(F, U[d], k) = x

(* The entries on the disk once U has x as entry m of d.                   *)
HasEntry(U, d, m, o, x) ==
  /\ Written(U, dirents, inodeBitmap) /\ Apart(U, dirents)
  /\ Changed(itable, dirents, U, dirents, d, m, x) /\ U[o.inum] = FileInode

(* x is empty, or the entry of a new file.                                 *)
Enterable(T, D, U, C, h, m, x) ==
  \/ x = Empty
  \/ /\ x.inum \in C /\ U[x.inum].ty # "none"
     /\ \A d \in Dirs, k \in Nat : k < T[d].sz /\ (d # h \/ k # m) =>
          EntryOf(D, T[d], k).inum # x.inum /\ (d = h => EntryOf(D, T[d], k).name # x.name)

StillWritten(T, D, U, C) ==
  \A d \in Dirs, k \in Nat : k < T[d].sz /\ EntryOf(D, T[d], k) # Empty =>
    EntryOf(D, T[d], k).inum \in C /\ U[EntryOf(D, T[d], k).inum].ty # "none"

LEMMA EntriesKept ==
  ASSUME NEW T, NEW U, NEW D, NEW F, NEW B, NEW C, Written(T, D, B), Apart(T, D),
         NEW h, NEW m, NEW x, Changed(T, D, U, F, h, m, x), Enterable(T, D, U, C, h, m, x),
         StillWritten(T, D, U, C)
  PROVE  Written(U, F, C) /\ Apart(U, F)
<1>1. Written(U, F, C)
  <2>1. SUFFICES ASSUME NEW d \in Dirs, NEW k \in Nat, NEW y, y = EntryOf(F, U[d], k),
                        k < U[d].sz, y # Empty
                 PROVE  y.inum \in C /\ U[y.inum].ty # "none"
    BY DEF Written
  <2>2. CASE k < T[d].sz /\ y = EntryOf(D, T[d], k)
    BY <2>1, <2>2 DEF StillWritten
  <2>3. CASE y = x
    BY <2>1, <2>3 DEF Enterable
  <2> QED
    BY <2>1, <2>2, <2>3 DEF Changed
<1>2. Apart(U, F)
  <2>1. SUFFICES ASSUME NEW d \in Dirs, NEW e \in Dirs, NEW k \in Nat, NEW l \in Nat,
                        NEW y, y = EntryOf(F, U[d], k), NEW z, z = EntryOf(F, U[e], l),
                        k < U[d].sz, y # Empty, l < U[e].sz, z # Empty, d # e \/ k # l
                 PROVE  (d = e => y.name # z.name) /\ (y.name \in Names => y.inum # z.inum)
    BY SMTT(30) DEF Apart
  <2>2. \/ k < T[d].sz /\ y = EntryOf(D, T[d], k)
        \/ d = h /\ k = m /\ y = x
    BY <2>1 DEF Changed
  <2>3. \/ l < T[e].sz /\ z = EntryOf(D, T[e], l)
        \/ e = h /\ l = m /\ z = x
    BY <2>1 DEF Changed
  <2>4. CASE k < T[d].sz /\ y = EntryOf(D, T[d], k) /\ l < T[e].sz /\ z = EntryOf(D, T[e], l)
    <3>1. /\ k < T[d].sz /\ EntryOf(D, T[d], k) # Empty
          /\ l < T[e].sz /\ EntryOf(D, T[e], l) # Empty /\ (d # e \/ k # l)
      BY <2>1, <2>4
    <3>2. /\ d = e => EntryOf(D, T[d], k).name # EntryOf(D, T[e], l).name
          /\ EntryOf(D, T[d], k).name \in Names =>
               EntryOf(D, T[d], k).inum # EntryOf(D, T[e], l).inum
      BY <3>1, SMTT(30) DEF Apart
    <3> QED
      BY <2>4, <3>2
  <2>5. CASE d = h /\ k = m /\ y = x /\ l < T[e].sz /\ z = EntryOf(D, T[e], l)
    BY <2>1, <2>5 DEF Enterable
  <2>6. CASE k < T[d].sz /\ y = EntryOf(D, T[d], k) /\ e = h /\ l = m /\ z = x
    BY <2>1, <2>6 DEF Enterable
  <2> QED
    BY <2>1, <2>2, <2>3, <2>4, <2>5, <2>6
<1> QED
  BY <1>1, <1>2

Fewer(T, D, U, F) ==
  \A d \in Dirs, k \in Nat : k < U[d].sz =>
    k < T[d].sz /\ EntryOf(F, U[d], k) = EntryOf(D, T[d], k)

LEMMA FaultsStep ==
  ASSUME faults \in Nat, faults' = faults \/ faults' = faults + 1
  PROVE  /\ faults' \in Nat /\ (faults' <= 2 => faults <= 2) /\ (faults >= 2 => faults' >= 2)
         /\ (faults >= 1 => faults' >= 1) /\ (faults' = 0 => faults = 0)
         /\ (faults' = faults + 1 => faults' >= 1 /\ (faults' <= 2 => ~(faults >= 2)))
         /\ (faults >= 1 /\ faults' = faults + 1 => faults' >= 2)
BY SMTT(30)

LEMMA MakingNow ==
  ASSUME EInv, faults <= 2, NEW p \in Procs
  PROVE  /\ Written(itable, dirents, inodeBitmap) /\ Apart(itable, dirents)
         /\ Making(pc[p], op[p], Parent(p), itable, dirents)
BY DEF EInv

LEMMA IdleMaking ==
  ASSUME NEW w, w \notin Writing, NEW o, w # "idle" => o.name \in Names, NEW c, NEW T, NEW D
  PROVE  Making(w, o, c, T, D)
BY DEF Making, Writing, HasInode, Entered, Undoing

-----------------------------------------------------------------------------
-----------------------------------------------------------------------------
LEMMA NotTorn ==
  ASSUME IInv, EInv, NEW p \in Procs, \A q \in Procs : q = p,
         pc[p] \in Writing \ Undoing, ~(faults >= 2)
  PROVE  itable[op[p].dir].sz = Parent(p).sz
<1>1. pc[p] \notin {"idle", "resolve", "insert"}
  BY NotWriting
<1>2. op[p].dir \in Dirs /\ cache[op[p].dir] # Absent /\ Parent(p) = Cached(op[p].dir)
  BY <1>1, ParentIsCached DEF IInv
<1> QED
  BY <1>2 DEF EInv, Lengths

LEMMA EmptyInum == Empty.inum = 0
BY SMTT(30) DEF Empty

-----------------------------------------------------------------------------
(* Steps that write an entry or the directory's inode.                     *)

LEMMA FirmEntries ==
  ASSUME NEW c \in Inodes, NEW x, NEW y, FitsSize(c), Follows(x, c), Follows(y, c),
         NEW k \in Nat, k < c.sz, NEW D
  PROVE  EntryOf(D, x, k) = EntryOf(D, y, k)
<1>1. x.blocks[k \div PerBlock] = y.blocks[k \div PerBlock]
  BY FirmBlocks, SMTT(30)
<1> QED
  BY <1>1 DEF EntryOf

LEMMA CachedEntries ==
  ASSUME IInv, NEW p \in Procs, pc[p] \in Writing \ {"block"}, NEW d, NEW c, Adds(p, d, c),
         NEW k \in Nat, k < c.sz, NEW D
  PROVE  SameEntry(D, c, itable[d], k)
<1>1. PICK n, b : n = op[p].new /\ b = op[p].blk /\ d = op[p].dir /\ c = Parent(p)
  BY DEF Adds
<1>2. d \in Dirs /\ c \in Inodes /\ FitsSize(c) /\ Follows(itable[d], c)
  <2>1. Workable(d, c, n, b)
    BY <1>1, Working
  <2> QED
    BY <2>1 DEF Workable
<1>3. PICK x \in Inodes : x = itable[d]
  BY <1>2, DirInode DEF IInv
<1>4. x.sz \in Nat /\ c.sz \in Nat /\ c.sz <= x.sz
  BY <1>2, <1>3, InodeFields DEF Follows
<1>5. k < x.sz
  BY <1>4, SMTT(30)
<1>6. \A y : Follows(y, c) => EntryOf(D, y, k) = EntryOf(D, x, k)
  <2>1. SUFFICES ASSUME NEW y, Follows(y, c)
                 PROVE  EntryOf(D, y, k) = EntryOf(D, x, k)
    OBVIOUS
  <2>2. Follows(x, c)
    BY <1>2, <1>3
  <2> QED
    BY <1>2, <2>1, <2>2, FirmEntries, SMTT(30)
<1>7. Follows(c, c)
  BY <1>2, FollowsItself
<1> QED
  BY <1>3, <1>5, <1>6, <1>7 DEF SameEntry

LEMMA DirEntry ==
  ASSUME IInv, NEW d \in Dirs, NEW k \in Nat, k < itable[d].sz
  PROVE  k \div PerBlock \in Indices /\ itable[d].blocks[k \div PerBlock] \in Blocks
<1>1. PICK T, B : T = itable /\ B = dataBitmap
  OBVIOUS
<1>2. PICK x \in Inodes : x = T[d]
  BY <1>1, DirInode DEF IInv
<1>3. FitsSize(x) /\ BlocksOwned(T, B)
  BY <1>1, <1>2 DEF IInv, Directories
<1>4. k \div PerBlock \in Indices /\ x.blocks[k \div PerBlock] # 0
  BY <1>1, <1>2, <1>3, SlotHasBlock
<1>5. PICK j \in Indices : j = k \div PerBlock
  BY <1>4
<1>6. PICK b : b = T[d].blocks[j] /\ b # 0
  BY <1>2, <1>4, <1>5
<1>7. b \in Blocks
  BY <1>3, <1>6, OwnedBlock, SMTT(30)
<1> QED
  BY <1>1, <1>4, <1>5, <1>6, <1>7

(* write_dirent changes the entry behind the cached size, and no other     *)
(* entry of a directory.                                                   *)
LEMMA SlotWritten ==
  ASSUME IInv, NEW p \in Procs, pc[p] \in Writing \ {"block"}, NEW e,
         UNCHANGED dirents \/ WriteDirent(p, e),
         NEW d, d = op[p].dir, NEW c, c = Parent(p)
  PROVE  \A h \in Dirs, k \in Nat : k < itable[h].sz =>
           \/ EntryOf(dirents', itable[h], k) = EntryOf(dirents, itable[h], k)
           \/ h = d /\ k = c.sz /\ EntryOf(dirents', itable[h], k) = e
<1>1. CASE UNCHANGED dirents
  BY <1>1 DEF EntryOf
<1>2. CASE WriteDirent(p, e)
  <2>1. PICK n, b : n = op[p].new /\ b = op[p].blk
    OBVIOUS
  <2>2. c \in Inodes
    <3>1. Workable(d, c, n, b)
      BY <2>1, Working
    <3> QED
      BY <3>1 DEF Workable
  <2>3. /\ Target(c) \in Indices /\ n.blocks[Target(c)] \in Blocks
        /\ \A h \in Dirs, l \in Indices :
             itable[h].blocks[l] = n.blocks[Target(c)] => h = d /\ l = Target(c)
    BY <2>1, TargetBlock, SMTT(30)
  <2>4. PICK a \in Blocks, t \in Indices, m \in Nat, s \in 0..(PerBlock - 1) :
          a = n.blocks[t] /\ t = Target(c) /\ m = c.sz /\ s = m % PerBlock /\ t = m \div PerBlock
    <3>1. PICK m \in Nat : m = c.sz
      BY <2>2, InodeFields
    <3>2. m % PerBlock \in 0..(PerBlock - 1)
      BY Division
    <3> QED
      BY <2>3, <3>1, <3>2 DEF Target
  <2>5. a = op[p].new.blocks[Parent(p).sz \div PerBlock] /\ s = Parent(p).sz % PerBlock
    BY <2>1, <2>4
  <2>6. /\ dirents'[a][s] = e
        /\ \A x \in Blocks, r \in 0..(PerBlock - 1) :
             x # a \/ r # s => dirents'[x][r] = dirents[x][r]
    <3>1. Directories
      BY DEF IInv
    <3>2. \A x \in Blocks, r \in 0..(PerBlock - 1) :
             x # a \/ r # s => dirents'[x][r] = dirents[x][r]
      BY <1>2, <2>5, <3>1, DirentWritten, SMTT(30)
    <3>3. dirents' = [dirents EXCEPT ![a][s] = e]
      BY <1>2, <2>5 DEF WriteDirent
    <3>4. a \in DOMAIN dirents /\ s \in DOMAIN dirents[a]
      BY <2>4, <3>1 DEF Directories
    <3>5. dirents'[a][s] = e
      BY <3>3, <3>4
    <3> QED
      BY <3>2, <3>5
  <2>7. SUFFICES ASSUME NEW h \in Dirs, NEW k \in Nat, k < itable[h].sz
                 PROVE  \/ EntryOf(dirents', itable[h], k) = EntryOf(dirents, itable[h], k)
                        \/ h = d /\ k = c.sz /\ EntryOf(dirents', itable[h], k) = e
    OBVIOUS
  <2>8. PICK j \in Indices, x \in Blocks, r \in 0..(PerBlock - 1) :
          j = k \div PerBlock /\ x = itable[h].blocks[j] /\ r = k % PerBlock
    BY <2>7, DirEntry, Division
  <2>9. CASE x # a \/ r # s
    BY <2>6, <2>8, <2>9 DEF EntryOf
  <2>10. CASE x = a /\ r = s
    <3>1. h = d /\ j = t
      BY <2>3, <2>4, <2>8, <2>10
    <3>2. k = m
      BY <2>4, <2>8, <2>10, <3>1, SameSlot
    <3> QED
      BY <2>4, <2>6, <2>8, <2>10, <3>1, <3>2 DEF EntryOf
  <2> QED
    BY <2>9, <2>10
<1> QED
  BY <1>1, <1>2

(* The new file's entry has a name and an inode of its own.                *)
LEMMA NewEntry ==
  ASSUME IInv, EInv, faults <= 2, NEW p \in Procs, \A q \in Procs : q = p,
         pc[p] \in Entered \cup {"dirent"},
         NEW h, NEW m, NEW o, NEW x, Enters(p, h, m, o, x), NEW U, U[o.inum].ty # "none"
  PROVE  Enterable(itable, dirents, U, inodeBitmap, h, m, x)
<1> PICK c : c = Parent(p)
  OBVIOUS
<1> h = op[p].dir /\ m = c.sz /\ o = op[p] /\ x = [inum |-> o.inum, name |-> o.name]
  BY DEF Enters
<1>1. x.inum = o.inum /\ x.name = o.name
  BY SMTT(30)
<1>2. pc[p] \in HasInode /\ pc[p] \in Writing \ {"block"} /\ pc[p] \in Writing
  BY SMTT(30) DEF HasInode, Writing, Entered, Undoing
<1>3. x.inum \in inodeBitmap
  BY <1>1, <1>2 DEF IInv, Allocated
<1>4. Making(pc[p], op[p], Parent(p), itable, dirents)
  BY MakingNow
<1>5. ASSUME NEW d \in Dirs, NEW k \in Nat, k < itable[d].sz, d # h \/ k # m
      PROVE  /\ EntryOf(dirents, itable[d], k).inum # x.inum
             /\ d = h => EntryOf(dirents, itable[d], k).name # x.name
  <2>1. EntryOf(dirents, itable[d], k).inum # x.inum
    BY <1>1, <1>2, <1>4, <1>5 DEF Making
  <2>2. ASSUME d = h
        PROVE  EntryOf(dirents, itable[d], k).name # x.name
    <3>1. PICK n, b : n = op[p].new /\ b = op[p].blk
      OBVIOUS
    <3>2. h \in Dirs /\ c \in Inodes /\ cache[h] # Absent /\ c = Cached(h)
      <4>1. Workable(h, c, n, b)
        BY <1>2, <3>1, Working
      <4> QED
        BY <4>1 DEF Workable
    <3>3. itable[h].sz <= c.sz + 1
      BY <3>2 DEF EInv, Lengths
    <3>4. c.sz \in Nat /\ itable[h].sz \in Nat
      BY <3>2, InodeFields, DirInode DEF IInv
    <3>5. k < c.sz
      BY <1>5, <2>2, <3>3, <3>4, SMTT(30)
    <3>6. EntryOf(dirents, c, k) = EntryOf(dirents, itable[h], k)
      <4>1. Adds(p, h, c)
        BY DEF Adds
      <4>2. SameEntry(dirents, c, itable[h], k)
        BY <1>2, <3>5, <4>1, CachedEntries
      <4> QED
        BY <4>2 DEF SameEntry
    <3>7. EntryOf(dirents, c, k).name # o.name
      BY <1>2, <1>4, <3>5 DEF Making
    <3> QED
      BY <1>1, <2>2, <3>6, <3>7
  <2> QED
    BY <2>1, <2>2
<1> QED
  BY <1>1, <1>3, <1>5 DEF Enterable

LEMMA ParentStored ==
  ASSUME IInv, NEW p \in Procs, WriteParent(p), Return(p),
         NEW d, d = op[p].dir, NEW n, n = op[p].new, NEW i, i = op[p].inum
  PROVE  Stores(p, d, n, i)
<1>1. pc[p] = "writeParent" /\ ~Goto(p, "clearDirent")
  BY DEF Return, Goto, IInv, Typed, WriteParent
<1>2. pc[p] \in Writing \ {"block"} /\ pc[p] \in HasInode /\ buf[p] = itable
  BY <1>1 DEF Writing, HasInode, IInv, Buffers
<1>3. PICK c, b : c = Parent(p) /\ b = op[p].blk
  OBVIOUS
<1>4. d \in Dirs /\ d \in Inums /\ n \in Inodes /\ cache[d] # Absent
  <2>1. Workable(d, c, n, b)
    BY <1>2, <1>3, Working
  <2> QED
    BY <2>1 DEF Workable
<1>5. /\ WriteSector(p, d, n) /\ faults' = faults
      /\ inner' = [inner EXCEPT ![op[p].dir][op[p].obj] = op[p].new, ![op[p].inum][p] = FileInode]
      /\ cache' = [cache EXCEPT ![op[p].inum] = p]
  BY <1>1 DEF WriteParent, CachedParent, Count
<1>6. itable'[d] = n /\ \A j \in Inums \ {d} : itable'[j] = itable[j]
  BY <1>2, <1>4, <1>5, SectorIs, ZenonT(90) DEF IInv
<1>7. PICK l \in Loaders : l = op[p].obj /\ l = cache[d]
  BY <1>1, OpFields DEF IInv, Objects
<1>8. i \in Inums \ Dirs /\ i # d /\ p \in Loaders
  BY <1>2, <1>4 DEF IInv, Objects, Loaders
<1>9. PICK g : g = [inner[d] EXCEPT ![l] = n]
  OBVIOUS
<1>10. g[l] = n
  BY <1>4, <1>9 DEF IInv, Typed
<1>11. PICK f : f = [inner EXCEPT ![d] = g]
  OBVIOUS
<1>12. DOMAIN f = Inums /\ f[d] = g /\ \A j \in Inums \ {d} : f[j] = inner[j]
  BY <1>4, <1>11 DEF IInv, Typed
<1>13. inner' = [f EXCEPT ![i] = [f[i] EXCEPT ![p] = FileInode]]
  BY <1>5, <1>7, <1>9, <1>11
<1>14. PICK h : h = [f[i] EXCEPT ![p] = FileInode]
  OBVIOUS
<1>15. h[p] = FileInode
  <2>1. f[i] \in [Loaders -> Inodes]
    BY <1>8, <1>12 DEF IInv, Typed
  <2> QED
    BY <1>8, <1>14, <2>1
<1>16. inner'[i] = h /\ \A j \in Inums \ {i} : inner'[j] = f[j]
  BY <1>8, <1>12, <1>13, <1>14
<1>17. cache'[i] = p /\ \A j \in Inums \ {i} : cache'[j] = cache[j]
  BY <1>5, <1>8 DEF IInv, Typed
<1>18. inner'[d][cache[d]] = n
  BY <1>4, <1>7, <1>8, <1>10, <1>12, <1>16
<1>19. \A j \in Inums \ {d, i} : inner'[j] = inner[j]
  BY <1>12, <1>16
<1> QED
  BY <1>4, <1>5, <1>6, <1>8, <1>15, <1>16, <1>17, <1>18, <1>19 DEF Stores

LEMMA StillThere ==
  ASSUME IInv, Written(itable, dirents, inodeBitmap), NEW d \in Dirs, NEW U, U[d].ty # "none",
         \A j \in Inums \ {d} : U[j] = itable[j]
  PROVE  StillWritten(itable, dirents, U, inodeBitmap)
<1>1. SUFFICES ASSUME NEW h \in Dirs, NEW k \in Nat, NEW e, e = EntryOf(dirents, itable[h], k),
                      k < itable[h].sz, e # Empty
               PROVE  e.inum \in inodeBitmap /\ U[e.inum].ty # "none"
  BY DEF StillWritten
<1>2. e.inum \in inodeBitmap /\ itable[e.inum].ty # "none"
  BY <1>1 DEF Written
<1>3. e.inum \in Inums
  BY <1>2 DEF IInv, Typed
<1> QED
  BY <1>2, <1>3

(* The directory's inode with its new size shows the new entry.            *)
LEMMA ParentGrows ==
  ASSUME IInv, EInv, faults <= 2, NEW p \in Procs, \A q \in Procs : q = p, pc[p] = "writeParent",
         NEW d, NEW m, NEW o, NEW x, Enters(p, d, m, o, x),
         NEW U, U[d] = o.new, \A j \in Inums \ {d} : U[j] = itable[j]
  PROVE  HasEntry(U, d, m, o, x)
<1> PICK c, n : c = Parent(p) /\ n = o.new
  OBVIOUS
<1> /\ d = op[p].dir /\ m = c.sz /\ o = op[p] /\ x = [inum |-> o.inum, name |-> o.name]
    /\ n = op[p].new /\ U[d] = n
  BY DEF Enters
<1>1. PICK b : b = op[p].blk
  OBVIOUS
<1>2. pc[p] \in Entered \cup {"dirent"} /\ pc[p] \in HasInode /\ pc[p] \in Writing \ {"block"}
  BY DEF Entered, HasInode, Writing
<1>3. d \in Dirs /\ c \in Inodes /\ Follows(itable[d], c) /\ Grown(c, n, b) /\ Follows(n, c)
  <2>1. Workable(d, c, n, b)
    BY <1>1, <1>2, Working
  <2> QED
    BY <2>1 DEF Workable
<1>4. /\ Written(itable, dirents, inodeBitmap) /\ Apart(itable, dirents)
      /\ Making(pc[p], op[p], Parent(p), itable, dirents)
  BY MakingNow
<1>5. U[o.inum] = FileInode
  <2>1. o.inum \in Inums \ Dirs
    BY <1>2 DEF IInv, Objects
  <2>2. itable[o.inum] = FileInode
    BY <1>2, <1>4 DEF Making
  <2> QED
    BY <1>3, <2>1, <2>2
<1>6. U[o.inum].ty # "none"
  <2>1. FileInode.ty = "file"
    BY SMTT(30) DEF FileInode, Blank
  <2> QED
    BY <1>5, <2>1
<1>7. Enterable(itable, dirents, U, inodeBitmap, d, m, x)
  BY <1>2, <1>6, NewEntry
<1>8. Changed(itable, dirents, U, dirents, d, m, x)
  <2>1. SUFFICES ASSUME NEW h \in Dirs, NEW k \in Nat, k < U[h].sz
                 PROVE  \/ k < itable[h].sz /\ EntryOf(dirents, U[h], k) = EntryOf(dirents, itable[h], k)
                        \/ h = d /\ k = m /\ EntryOf(dirents, U[h], k) = x
    BY DEF Changed
  <2>2. CASE h # d
    <3>1. U[h] = itable[h]
      BY <2>2, DirsTyped DEF IInv
    <3> QED
      BY <2>1, <3>1
  <2>3. CASE h = d
    <3>1. m \in Nat /\ k < m + 1
      BY <1>3, <2>1, <2>3, InodeFields DEF Grown
    <3>2. k < m \/ k = m
      BY <3>1, SMTT(30)
    <3>3. CASE k < m
      <4>1. Adds(p, d, c) /\ k < c.sz
        BY <3>3 DEF Adds
      <4>2. SameEntry(dirents, c, itable[d], k)
        BY <1>2, <4>1, CachedEntries
      <4> QED
        BY <1>3, <2>3, <4>2 DEF SameEntry
    <3>4. CASE k = m
      <4>1. Entry(op[p].new, Parent(p).sz) = [inum |-> op[p].inum, name |-> op[p].name]
        BY DEF IInv, Added
      <4>2. Entry(n, m) = x
        BY <4>1
      <4> QED
        BY <2>3, <3>4, <4>2 DEF Entry, EntryOf
    <3> QED
      BY <3>2, <3>3, <3>4
  <2> QED
    BY <2>2, <2>3
<1>9. StillWritten(itable, dirents, U, inodeBitmap)
  <2>1. n.ty = "dir"
    BY <1>3 DEF IInv, Directories, Grown, Follows
  <2> QED
    BY <1>3, <1>4, <2>1, StillThere
<1>10. PICK T, D, B : T = itable /\ D = dirents /\ B = inodeBitmap
  OBVIOUS
<1>11. Written(U, D, B) /\ Apart(U, D)
  BY <1>4, <1>7, <1>8, <1>9, <1>10, EntriesKept
<1> QED
  BY <1>5, <1>8, <1>10, <1>11 DEF HasEntry

-----------------------------------------------------------------------------
LEMMA EntriesSound ==
  ASSUME IInv, EInv, faults <= 2
  PROVE  DiskSound
<1> DEFINE Slots == {s \in Dirs \X (0..(PerBlock * DIRECT_BLOCKS - 1)) : s[2] < itable[s[1]].sz}
           At(s) == Entry(itable[s[1]], s[2])
           Block(s) == itable[s[1]].blocks[s[2] \div PerBlock]
<1>1. Written(itable, dirents, inodeBitmap) /\ Apart(itable, dirents)
  BY DEF EInv
<1>2. ASSUME NEW s \in Slots
      PROVE  \E d \in Dirs, k \in Nat, j \in Indices :
               /\ s = <<d, k>> /\ s[1] = d /\ s[2] = k /\ k < itable[d].sz /\ j = k \div PerBlock
               /\ At(s) = EntryOf(dirents, itable[d], k)
               /\ Block(s) = itable[d].blocks[j] /\ Block(s) # 0
  <2>1. PICK d \in Dirs, k \in 0..(PerBlock * DIRECT_BLOCKS - 1) : s = <<d, k>>
    <3>1. PICK K : K = 0..(PerBlock * DIRECT_BLOCKS - 1) /\ s \in Dirs \X K
      BY <1>2
    <3>2. \E d \in Dirs, k \in K : s = <<d, k>>
      BY <3>1, SMTT(30)
    <3> QED
      BY <3>1, <3>2
  <2>2. s[1] = d /\ s[2] = k /\ k < itable[d].sz
    BY <2>1
  <2>3. k \in Nat
    BY <2>1, VsfsAssumption, SMTT(30)
  <2>4. PICK x \in Inodes : x = itable[d] /\ FitsSize(x)
    BY DirInode DEF IInv, Directories
  <2>5. k \div PerBlock \in Indices /\ x.blocks[k \div PerBlock] # 0
    BY <2>2, <2>3, <2>4, SlotHasBlock
  <2>6. At(s) = EntryOf(dirents, itable[d], k)
    BY <2>2 DEF EntryOf, Entry
  <2> QED
    BY <2>1, <2>2, <2>3, <2>4, <2>5, <2>6
<1> HIDE DEF Slots, At, Block
<1>3. PICK T, B : T = itable /\ B = dataBitmap /\ BlocksOwned(T, B)
  BY DEF IInv, Directories
<1>4. ASSUME NEW s \in Slots
      PROVE  /\ Block(s) - DATA_BLOCK_START \in dataBitmap
             /\ At(s) # Empty => At(s).inum \in inodeBitmap /\ itable[At(s).inum].ty # "none"
  <2>1. PICK d \in Dirs, k \in Nat, j \in Indices :
               /\ k < itable[d].sz
               /\ At(s) = EntryOf(dirents, itable[d], k)
               /\ Block(s) = itable[d].blocks[j] /\ Block(s) # 0
    BY <1>2
  <2>2. PICK b : b = Block(s)
    OBVIOUS
  <2>3. b = T[d].blocks[j] /\ b # 0 /\ BlocksOwned(T, B)
    BY <1>3, <2>1, <2>2
  <2>4. b - DATA_BLOCK_START \in B
    BY <2>3, OwnedBlock, SMTT(30)
  <2> QED
    BY <1>1, <1>3, <2>1, <2>2, <2>4 DEF Written
<1>5. ASSUME NEW s \in Slots, NEW t \in Slots
      PROVE  /\ Block(s) = Block(t) => s[1] = t[1] /\ s[2] \div PerBlock = t[2] \div PerBlock
             /\ (s # t /\ At(s) # Empty /\ At(t) # Empty) =>
                  /\ s[1] = t[1] => At(s).name # At(t).name
                  /\ At(s).name \in Names => At(s).inum # At(t).inum
  <2>1. PICK d \in Dirs, k \in Nat, j \in Indices :
               /\ s = <<d, k>> /\ s[1] = d /\ s[2] = k /\ k < itable[d].sz /\ j = k \div PerBlock
               /\ At(s) = EntryOf(dirents, itable[d], k)
               /\ Block(s) = itable[d].blocks[j] /\ Block(s) # 0
    BY <1>2
  <2>2. PICK e \in Dirs, l \in Nat, i \in Indices :
               /\ t = <<e, l>> /\ t[1] = e /\ t[2] = l /\ l < itable[e].sz /\ i = l \div PerBlock
               /\ At(t) = EntryOf(dirents, itable[e], l)
               /\ Block(t) = itable[e].blocks[i] /\ Block(t) # 0
    BY <1>2
  <2>3. ASSUME Block(s) = Block(t)
        PROVE  d = e /\ j = i
    <3>1. PICK b : b = T[d].blocks[j] /\ b # 0 /\ b = T[e].blocks[i]
      BY <1>3, <2>1, <2>2, <2>3
    <3>2. BlocksOwned(T, B)
      BY <1>3
    <3> QED
      BY <3>1, <3>2 DEF BlocksOwned
  <2>4. ASSUME s # t, At(s) # Empty, At(t) # Empty
        PROVE  /\ d = e => At(s).name # At(t).name
               /\ At(s).name \in Names => At(s).inum # At(t).inum
    <3>1. d # e \/ k # l
      BY <2>1, <2>2, <2>4
    <3>2. PICK D : D = dirents /\ Apart(T, D)
      BY <1>1, <1>3
    <3>3. (/\ k < T[d].sz /\ EntryOf(D, T[d], k) # Empty
           /\ l < T[e].sz /\ EntryOf(D, T[e], l) # Empty /\ (d # e \/ k # l)) =>
             /\ d = e => EntryOf(D, T[d], k).name # EntryOf(D, T[e], l).name
             /\ EntryOf(D, T[d], k).name \in Names =>
                  EntryOf(D, T[d], k).inum # EntryOf(D, T[e], l).inum
      BY <3>2, SMTT(30) DEF Apart
    <3> QED
      BY <1>3, <2>1, <2>2, <2>4, <3>1, <3>2, <3>3
  <2> QED
    BY <2>1, <2>2, <2>3, <2>4
<1>6. \A d \in Dirs : itable[d].ty = "dir"
  BY DEF IInv, Directories
<1> QED
  BY <1>4, <1>5, <1>6 DEF DiskSound, Slots, At, Block

LEMMA InitEntries == Init /\ DiskSound => IInv /\ EInv
(* Mounting the image.                                                     *)
<1>MountEntries.
    ASSUME Typed, Objects, \A d \in Dirs : cache[d] # Absent => Cached(d) = itable[d],
           \A p \in Procs : pc[p] = "idle", faults \in Nat,
           faults <= 2 => Written(itable, dirents, inodeBitmap) /\ Apart(itable, dirents)
    PROVE  EInv
  <2> USE <1>MountEntries
  <2>1. Lengths
    <3>1. SUFFICES ASSUME NEW d \in Dirs, cache[d] # Absent
                   PROVE  itable[d].sz <= Cached(d).sz + 1 /\ itable[d].sz = Cached(d).sz
      BY DEF Lengths
    <3>2. PICK m \in Nat : m = itable[d].sz
      BY DirInode, InodeFields
    <3>3. m <= m + 1
      BY SMTT(30)
    <3> QED
      BY <3>1, <3>2, <3>3
  <2>2. ASSUME NEW p \in Procs
        PROVE  Making(pc[p], op[p], Parent(p), itable, dirents)
    <3>1. PICK w, o, c, T, D :
            w = pc[p] /\ o = op[p] /\ c = Parent(p) /\ T = itable /\ D = dirents
      OBVIOUS
    <3>2. w \notin Writing /\ w = "idle"
      BY <3>1, NotWriting
    <3> QED
      BY <3>1, <3>2, IdleMaking
  <2> QED
    BY <2>1, <2>2 DEF EInv
(* A slot of DiskSound is an entry within the size of a directory.         *)
<1>Slot.
    ASSUME IInv, NEW d \in Dirs, NEW k \in Nat, k < itable[d].sz
    PROVE  k \in 0..(PerBlock * DIRECT_BLOCKS - 1)
  <2> USE <1>Slot
  <2>1. PICK s \in Nat : s = itable[d].sz
    BY DirInode, InodeFields DEF IInv
  <2>2. s <= PerBlock * DIRECT_BLOCKS
    BY <2>1 DEF IInv, Directories, FitsSize
  <2>3. PICK m \in Nat : m = PerBlock * DIRECT_BLOCKS
    BY VsfsAssumption, SMTT(30)
  <2>4. k \in 0..(m - 1)
    BY <2>1, <2>2, <2>3, SMTT(30)
  <2> QED
    BY <2>3, <2>4
<1>SoundEntries.
    ASSUME IInv, DiskSound
    PROVE  Written(itable, dirents, inodeBitmap) /\ Apart(itable, dirents)
  <2> USE <1>SoundEntries
  <2> DEFINE Slots == {s \in Dirs \X (0..(PerBlock * DIRECT_BLOCKS - 1)) : s[2] < itable[s[1]].sz}
             At(s) == Entry(itable[s[1]], s[2])
  <2>1. /\ \A s \in Slots : At(s) # Empty => At(s).inum \in inodeBitmap /\ itable[At(s).inum].ty # "none"
        /\ \A s, t \in Slots :
             (s # t /\ At(s) # Empty /\ At(t) # Empty) =>
               /\ s[1] = t[1] => At(s).name # At(t).name
               /\ At(s).name \in Names => At(s).inum # At(t).inum
    BY DEF DiskSound
  <2>2. ASSUME NEW d \in Dirs, NEW k \in Nat, k < itable[d].sz
        PROVE  <<d, k>> \in Slots /\ At(<<d, k>>) = EntryOf(dirents, itable[d], k)
    <3>1. k \in 0..(PerBlock * DIRECT_BLOCKS - 1)
      BY <2>2, <1>Slot
    <3>2. PICK s : s = <<d, k>> /\ s[1] = d /\ s[2] = k
      <4>1. PICK s : s = <<d, k>>
        OBVIOUS
      <4>2. s[1] = d /\ s[2] = k
        BY <4>1, SMTT(30)
      <4> QED
        BY <4>1, <4>2
    <3>3. s \in Dirs \X (0..(PerBlock * DIRECT_BLOCKS - 1))
      BY <3>1, <3>2
    <3>4. s \in Slots
      BY <2>2, <3>2, <3>3
    <3> QED
      BY <3>2, <3>4 DEF EntryOf, Entry
  <2> HIDE DEF Slots, At
  <2>3. Written(itable, dirents, inodeBitmap)
    <3>1. SUFFICES ASSUME NEW d \in Dirs, NEW k \in Nat, NEW e, e = EntryOf(dirents, itable[d], k),
                          k < itable[d].sz, e # Empty
                   PROVE  e.inum \in inodeBitmap /\ itable[e.inum].ty # "none"
      BY DEF Written
    <3> QED
      BY <2>1, <2>2, <3>1
  <2>4. Apart(itable, dirents)
    <3>1. SUFFICES ASSUME NEW d \in Dirs, NEW e \in Dirs, NEW k \in Nat, NEW l \in Nat,
                          NEW y, y = EntryOf(dirents, itable[d], k),
                          NEW z, z = EntryOf(dirents, itable[e], l),
                          k < itable[d].sz, y # Empty, l < itable[e].sz, z # Empty, d # e \/ k # l
                   PROVE  (d = e => y.name # z.name) /\ (y.name \in Names => y.inum # z.inum)
      BY SMTT(30) DEF Apart
    <3>2. PICK s \in Slots : s = <<d, k>> /\ At(s) = y
      BY <2>2, <3>1
    <3>3. PICK t \in Slots : t = <<e, l>> /\ At(t) = z
      BY <2>2, <3>1
    <3>4. s # t /\ s[1] = d /\ t[1] = e
      BY <3>1, <3>2, <3>3
    <3> QED
      BY <2>1, <3>1, <3>2, <3>3, <3>4
  <2> QED
    BY <2>3, <2>4
<1> SUFFICES ASSUME Init, DiskSound
             PROVE  IInv /\ EInv
  OBVIOUS
<1>1. IInv
  BY InitKept
<1>2. Typed /\ Objects /\ Dirs \subseteq Inums /\ Root \in Dirs /\ Root \in Inums
  BY <1>1, DirsTyped DEF IInv
<1>3. PICK T \in [Inums -> Inodes] : T = itable
  BY <1>2 DEF Typed
<1>4. PICK C, N : /\ C = cache /\ C = [i \in Inums |-> IF i = Root THEN Mount ELSE Absent]
                  /\ N = inner
                  /\ N = [i \in Inums |-> [l \in Loaders |->
                                             IF i = Root /\ l = Mount THEN T[i] ELSE Blank]]
  BY <1>3 DEF Init
<1>5. /\ \A d \in Inums : C[d] # Absent => d = Root
      /\ C[Root] = Mount /\ N[Root][C[Root]] = T[Root]
  BY <1>2, <1>4, RootMounted
<1>6. \A d \in Dirs : cache[d] # Absent => Cached(d) = itable[d]
  BY <1>2, <1>3, <1>4, <1>5 DEF Cached
<1>7. \A p \in Procs : pc[p] = "idle"
  BY DEF Init
<1>8. faults \in Nat
  BY SMTT(30) DEF Init
<1> QED
  BY <1>1, <1>2, <1>6, <1>7, <1>8, <1>SoundEntries, <1>MountEntries

LEMMA NextEntries == OneHart /\ IInv /\ EInv /\ [Next]_vars => EInv'
<1>EntriesFewer.
    ASSUME NEW T, NEW U, NEW D, NEW F, NEW B, NEW C, Written(T, D, B), Apart(T, D),
           Fewer(T, D, U, F), StillWritten(T, D, U, C)
    PROVE  Written(U, F, C) /\ Apart(U, F)
  <2> USE <1>EntriesFewer
  <2>1. PICK h, m, x : x = Empty
    OBVIOUS
  <2>2. Changed(T, D, U, F, h, m, x)
    BY DEF Changed, Fewer
  <2>3. Enterable(T, D, U, C, h, m, x)
    BY <2>1 DEF Enterable
  <2> QED
    BY <2>2, <2>3, EntriesKept
<1>EntriesSame.
    ASSUME Written(itable, dirents, inodeBitmap), Apart(itable, dirents),
           UNCHANGED <<itable, dirents>>, inodeBitmap \subseteq inodeBitmap'
    PROVE  Written(itable, dirents, inodeBitmap)' /\ Apart(itable, dirents)'
  <2> USE <1>EntriesSame
  <2>1. Apart(itable, dirents)'
    <3>1. PICK T, D : T = itable /\ T = itable' /\ D = dirents /\ D = dirents'
      OBVIOUS
    <3>2. Apart(T, D)
      BY <3>1
    <3> QED
      BY <3>1, <3>2
  <2> QED
    BY <2>1 DEF Written, EntryOf
(* The place of p decides who may be longer on the disk.                   *)
<1>LengthsSame.
    ASSUME Lengths, Loading, NEW p \in Procs, \A q \in Procs : q = p,
           faults >= 2 => faults' >= 2, faults >= 1 => faults' >= 1,
           pc[p] \in Undoing /\ faults >= 1 =>
             faults' >= 2 \/ (pc'[p] \in Undoing /\ op'[p].dir = op[p].dir),
           IInv
    PROVE  Lengths'
  <2> USE <1>LengthsSame
  <2>1. SUFFICES ASSUME NEW d \in Dirs, cache'[d] # Absent
                 PROVE  /\ itable'[d].sz <= Cached(d)'.sz + 1
                        /\ itable'[d].sz # Cached(d)'.sz =>
                             \/ faults' >= 2
                             \/ faults' >= 1 /\ \E q \in Procs : op'[q].dir = d /\ pc'[q] \in Undoing
    BY DEF Lengths
  <2>2. CASE cache[d] # Absent
    <3>1. itable'[d] = itable[d] /\ Cached(d)' = Cached(d)
      BY <2>2 DEF Loading, Cached
    <3> QED
      BY <2>2, <3>1, ZenonT(90) DEF Lengths
  <2>3. CASE cache[d] = Absent
    <3>1. itable'[d] = itable[d] /\ Cached(d)' = itable[d]
      BY <2>1, <2>3 DEF Loading, Cached
    <3>2. PICK m \in Nat : m = itable[d].sz
      BY DirInode, InodeFields DEF IInv
    <3>3. m <= m + 1
      BY SMTT(30)
    <3> QED
      BY <3>1, <3>2, <3>3
  <2> QED
    BY <2>2, <2>3
<1>EntriesStep.
    ASSUME NEW p \in Procs, \A q \in Procs : q = p, faults' \in Nat, Lengths',
           faults' <= 2 => /\ Written(itable, dirents, inodeBitmap)' /\ Apart(itable, dirents)'
                           /\ Making(pc[p], op[p], Parent(p), itable, dirents)'
    PROVE  EInv'
  BY <1>EntriesStep DEF EInv
(* Steps before create_file has locked the directory, or after.            *)
<1>EarlyEntries.
    ASSUME IInv, EInv, NEW p \in Procs, \A q \in Procs : q = p, Loading,
           UNCHANGED <<itable, dirents, inodeBitmap>>, faults' = faults \/ faults' = faults + 1,
           pc[p] \notin Undoing, pc'[p] \notin Writing,
           faults' <= 2 /\ pc'[p] # "idle" => op'[p].name \in Names
    PROVE  EInv'
  <2> USE <1>EarlyEntries
  <2>1. /\ faults' \in Nat /\ (faults' <= 2 => faults <= 2) /\ (faults >= 2 => faults' >= 2)
        /\ (faults >= 1 => faults' >= 1)
    BY FaultsStep DEF EInv
  <2>2. Lengths'
    BY <2>1, <1>LengthsSame DEF EInv
  <2>3. ASSUME faults' <= 2
        PROVE  Written(itable, dirents, inodeBitmap)' /\ Apart(itable, dirents)'
    BY <2>1, <2>3, <1>EntriesSame DEF EInv
  <2>4. ASSUME faults' <= 2
        PROVE  Making(pc[p], op[p], Parent(p), itable, dirents)'
    <3>1. PICK w, o, c, T, D :
            w = pc'[p] /\ o = op'[p] /\ c = Parent(p)' /\ T = itable' /\ D = dirents'
      OBVIOUS
    <3>2. Making(w, o, c, T, D)
      BY <2>4, <3>1, IdleMaking
    <3> QED
      BY <3>1, <3>2
  <2> QED
    BY <2>1, <2>2, <2>3, <2>4, <1>EntriesStep
<1>ReturnEntries.
    ASSUME IInv, EInv, NEW p \in Procs, \A q \in Procs : q = p, Loading, Return(p),
           UNCHANGED <<itable, dirents, inodeBitmap>>, faults' = faults \/ faults' = faults + 1,
           pc[p] \notin Undoing
    PROVE  EInv'
  <2> USE <1>ReturnEntries
  <2>1. pc'[p] = "idle"
    BY Returns DEF IInv
  <2>2. pc'[p] \notin Writing
    BY <2>1, NotWriting
  <2> QED
    BY <2>1, <2>2, <1>EarlyEntries
(* Steps outside create_file.                                              *)
<1>OpenEntries.
    ASSUME IInv, EInv, NEW p \in Procs, \A q \in Procs : q = p,
           NEW d \in Dirs, NEW n \in Names, Open(p, d, n)
    PROVE  EInv'
  <2> USE <1>OpenEntries
  <2>1. UNCHANGED <<inodeBitmap, itable, dirents, cache, inner, faults>> /\ pc[p] = "idle"
    BY DEF Open, disk, memory
  <2>2. pc'[p] = "resolve" /\ op'[p] = [NoOp EXCEPT !.dir = d, !.name = n]
    BY DEF Open, Goto, IInv, Typed
  <2>3. op'[p].name = n
    BY <2>2, SMTT(30) DEF NoOp
  <2>4. pc'[p] \notin Writing /\ pc[p] \notin Undoing
    BY <2>1, <2>2, NotWriting DEF Undoing
  <2> QED
    BY <2>1, <2>3, <2>4, <1>EarlyEntries, Unloading
<1>NameNow.
    ASSUME EInv, faults <= 2, NEW p \in Procs, pc[p] # "idle"
    PROVE  op[p].name \in Names
  BY <1>NameNow DEF EInv, Making
<1>ResolveEntries.
    ASSUME IInv, EInv, NEW p \in Procs, \A q \in Procs : q = p, Resolve(p)
    PROVE  EInv'
  <2> USE <1>ResolveEntries
  <2>1. UNCHANGED <<inodeBitmap, itable, dirents, cache, inner, faults>> /\ pc[p] = "resolve"
    BY DEF Resolve, disk
  <2>2. op'[p].name = op[p].name /\ (pc'[p] = "open" \/ pc'[p] = "insert")
    <3>1. PICK o \in Ops : o = op[p]
      BY OpFields DEF IInv
    <3>2. CASE cache[op[p].dir] # Absent
      <4>1. PICK y : y = [o EXCEPT !.obj = cache[op[p].dir]]
        OBVIOUS
      <4>2. y.name = o.name
        BY <4>1, SMTT(30) DEF Ops
      <4>3. op' = [op EXCEPT ![p] = y]
        BY <3>1, <3>2, <4>1 DEF Resolve
      <4>4. pc'[p] = "open" /\ op'[p] = y
        BY <3>2, <4>3 DEF Resolve, Goto, IInv, Typed
      <4> QED
        BY <3>1, <4>2, <4>4
    <3>3. CASE cache[op[p].dir] = Absent
      BY <3>3 DEF Resolve, Goto, IInv, Typed
    <3> QED
      BY <3>2, <3>3
  <2>3. pc'[p] \notin Writing /\ pc[p] \notin Undoing
    BY <2>1, <2>2, NotWriting DEF Undoing
  <2>4. faults' <= 2 => op'[p].name \in Names
    BY <2>1, <2>2, <1>NameNow
  <2> QED
    BY <2>1, <2>3, <2>4, <1>EarlyEntries, Unloading
<1>InsertEntries.
    ASSUME IInv, EInv, NEW p \in Procs, \A q \in Procs : q = p, Insert(p)
    PROVE  EInv'
  <2> USE <1>InsertEntries
  <2>1. UNCHANGED <<inodeBitmap, itable, dirents, faults>> /\ pc[p] = "insert"
    BY DEF Insert, disk
  <2>2. Loading /\ op'[p].name = op[p].name /\ pc'[p] = "open"
    BY InsertLoads
  <2>3. pc'[p] \notin Writing /\ pc[p] \notin Undoing
    BY <2>1, <2>2, NotWriting DEF Undoing
  <2>4. faults' <= 2 => op'[p].name \in Names
    BY <2>1, <2>2, <1>NameNow
  <2> QED
    BY <2>1, <2>2, <2>3, <2>4, <1>EarlyEntries
<1>LookupEntries.
    ASSUME IInv, EInv, NEW p \in Procs, \A q \in Procs : q = p, Lookup(p)
    PROVE  EInv'
  <2> USE <1>LookupEntries
  <2>1. UNCHANGED <<inodeBitmap, itable, dirents, faults>> /\ pc[p] = "open"
    BY DEF Lookup, disk
  <2>2. pc[p] \notin Undoing
    BY <2>1 DEF Undoing
  <2>3. CASE Found(p) # {}
    <3>1. CacheFound(p) /\ Return(p)
      BY <2>3 DEF Lookup
    <3> QED
      BY <2>1, <2>2, <3>1, FoundLoads, <1>ReturnEntries
  <2>4. CASE Found(p) = {}
    <3>1. UNCHANGED <<cache, inner, op>> /\ pc'[p] = "create"
      BY <2>4 DEF Lookup, Goto, IInv, Typed
    <3>2. faults' <= 2 => op'[p].name \in Names
      BY <2>1, <3>1, <1>NameNow
    <3>3. pc'[p] \notin Writing
      BY <3>1, NotWriting
    <3> QED
      BY <2>1, <2>2, <3>1, <3>2, <3>3, <1>EarlyEntries, Unloading
  <2> QED
    BY <2>3, <2>4
<1>ReadErrorEntries.
    ASSUME IInv, EInv, NEW p \in Procs, \A q \in Procs : q = p, ReadError(p) \/ Fail(p)
    PROVE  EInv'
  <2> USE <1>ReadErrorEntries
  <2>1. /\ UNCHANGED <<inodeBitmap, itable, dirents, cache, inner>> /\ Return(p)
        /\ pc[p] \in {"resolve", "open", "create", "done"}
        /\ faults' = faults \/ faults' = faults + 1
    BY DEF ReadError, Fail, disk, memory, Count
  <2>2. pc[p] \notin Undoing
    BY <2>1 DEF Undoing
  <2> QED
    BY <2>1, <2>2, <1>ReturnEntries, Unloading
(* Steps of create_file that leave the directories as they are.            *)
<1>MakingMoves.
    ASSUME NEW w \in Writing, NEW x \in Writing, NEW o, NEW v, v.name = o.name,
           x \in HasInode => w \in HasInode /\ v.inum = o.inum /\ v.dir = o.dir,
           x \in Entered \cup {"dirent"} => w \in Entered \cup {"dirent"},
           w \in Entered /\ x \in HasInode => x \in Entered,
           NEW c, NEW T, NEW D, x = "freeInode" => T[o.dir].sz = c.sz, Making(w, o, c, T, D)
    PROVE  Making(x, v, c, T, D)
  <2> USE <1>MakingMoves
  <2>1. w # "idle" /\ (x \in Entered \cup {"dirent"} \/ x = "freeInode" => x \in HasInode)
    BY NotWriting DEF Entered, Undoing, HasInode
  <2>2. x # "idle" => v.name \in Names
    BY <2>1 DEF Making
  <2>3. x \in Writing => \A k \in Nat : k < c.sz => EntryOf(D, c, k).name # v.name
    BY DEF Making
  <2>4. x \in Entered \cup {"dirent"} => T[v.inum] = FileInode
    BY <2>1 DEF Making
  <2>5. x \in HasInode => \A d \in Dirs, k \in Nat :
          k < T[d].sz /\ EntryOf(D, T[d], k).inum = v.inum => x \in Entered /\ d = v.dir /\ k = c.sz
    BY DEF Making
  <2>6. x = "freeInode" => T[v.dir].sz = c.sz
    BY <2>1
  <2> QED
    BY <2>2, <2>3, <2>4, <2>5, <2>6 DEF Making
<1>LateEntries.
    ASSUME IInv, EInv, NEW p \in Procs, \A q \in Procs : q = p,
           UNCHANGED <<itable, dirents, cache, inner>>, inodeBitmap \subseteq inodeBitmap',
           faults' = faults \/ faults' = faults + 1,
           pc[p] \in Writing, pc'[p] \in Writing,
           op'[p].name = op[p].name, op'[p].dir = op[p].dir, op'[p].obj = op[p].obj,
           pc'[p] \in HasInode => pc[p] \in HasInode /\ op'[p].inum = op[p].inum,
           pc'[p] \in Entered \cup {"dirent"} => pc[p] \in Entered \cup {"dirent"},
           pc[p] \in Entered /\ pc'[p] \in HasInode => pc'[p] \in Entered,
           pc'[p] = "freeInode" => faults' = faults + 1,
           pc[p] \in Undoing => pc'[p] \in Undoing \/ faults' = faults + 1
    PROVE  EInv'
  <2> USE <1>LateEntries
  <2>1. /\ faults' \in Nat /\ (faults' <= 2 => faults <= 2) /\ (faults >= 2 => faults' >= 2)
        /\ (faults >= 1 => faults' >= 1)
        /\ (faults' = faults + 1 => faults' >= 1 /\ (faults' <= 2 => ~(faults >= 2)))
        /\ (faults >= 1 /\ faults' = faults + 1 => faults' >= 2)
    BY FaultsStep DEF EInv
  <2>2. Lengths'
    BY <2>1, <1>LengthsSame, Unloading DEF EInv
  <2>3. ASSUME faults' <= 2
        PROVE  /\ Written(itable, dirents, inodeBitmap)' /\ Apart(itable, dirents)'
               /\ Making(pc[p], op[p], Parent(p), itable, dirents)'
    <3>1. /\ Written(itable, dirents, inodeBitmap) /\ Apart(itable, dirents)
          /\ Making(pc[p], op[p], Parent(p), itable, dirents)
      BY <2>1, <2>3, MakingNow
    <3>2. Written(itable, dirents, inodeBitmap)' /\ Apart(itable, dirents)'
      BY <3>1, <1>EntriesSame
    <3>3. pc'[p] = "freeInode" => itable[op[p].dir].sz = Parent(p).sz
      <4>1. SUFFICES ASSUME pc'[p] = "freeInode"
                     PROVE  itable[op[p].dir].sz = Parent(p).sz
        OBVIOUS
      <4>2. "freeInode" \in HasInode /\ "freeInode" \notin Entered
        BY DEF HasInode, Entered, Undoing
      <4>3. pc[p] \notin Undoing
        BY <4>1, <4>2 DEF Entered
      <4> QED
        BY <2>1, <2>3, <4>1, <4>3, NotTorn
    <3>4. PICK w, o, c, T, D : /\ w = pc[p] /\ o = op[p] /\ c = Parent(p) /\ T = itable /\ D = dirents
      OBVIOUS
    <3>5. PICK x, v : x = pc'[p] /\ v = op'[p]
      OBVIOUS
    <3>6. c = Parent(p)' /\ T = itable' /\ D = dirents'
      BY <3>4 DEF Parent
    <3>7. Making(w, o, c, T, D)
      BY <3>1, <3>4
    <3>8. Making(x, v, c, T, D)
      BY <3>3, <3>4, <3>5, <3>7, <1>MakingMoves
    <3> QED
      BY <3>2, <3>5, <3>6, <3>8
  <2> QED
    BY <2>1, <2>2, <2>3, <1>EntriesStep
<1>ReadSectorEntries.
    ASSUME IInv, EInv, NEW p \in Procs, \A q \in Procs : q = p, ReadSector(p)
    PROVE  EInv'
  <2> USE <1>ReadSectorEntries
  <2>1. /\ UNCHANGED <<itable, dirents, cache, inner, inodeBitmap, op>>
        /\ pc[p] \in {"readNew", "readParent", "readUndo"}
    BY DEF ReadSector, disk, memory
  <2>2. /\ faults' = faults \/ faults' = faults + 1
        /\ \/ pc[p] = "readNew" /\ pc'[p] = "writeNew"
           \/ pc[p] = "readNew" /\ pc'[p] = "freeInode" /\ faults' = faults + 1
           \/ pc[p] = "readParent" /\ pc'[p] \in {"writeParent", "clearDirent"}
           \/ pc[p] = "readUndo" /\ pc'[p] = "writeUndo"
           \/ pc[p] = "readUndo" /\ pc'[p] = "done" /\ faults' = faults + 1
    <3>1. PICK ok \in BOOLEAN :
            /\ Count(ok)
            /\ Goto(p, CASE pc[p] = "readNew"    -> IF ok THEN "writeNew" ELSE "freeInode"
                         [] pc[p] = "readParent" -> IF ok THEN "writeParent" ELSE "clearDirent"
                         [] OTHER                -> IF ok THEN "writeUndo" ELSE "done")
      BY DEF ReadSector
    <3>2. p \in DOMAIN pc
      BY DEF IInv, Typed
    <3> QED
      BY <2>1, <3>1, <3>2, SMTT(30) DEF Count, Goto
  <2>3. /\ pc[p] \in Writing /\ pc'[p] \in Writing /\ (pc'[p] \in HasInode => pc[p] \in HasInode)
        /\ pc'[p] \in Entered \cup {"dirent"} => pc[p] \in Entered \cup {"dirent"}
        /\ pc[p] \in Entered /\ pc'[p] \in HasInode => pc'[p] \in Entered
        /\ pc'[p] = "freeInode" => faults' = faults + 1
        /\ pc[p] \in Undoing => pc'[p] \in Undoing \/ faults' = faults + 1
    BY <2>2, SMTT(30) DEF Writing, HasInode, Entered, Undoing
  <2> QED
    BY <2>1, <2>2, <2>3, <1>LateEntries
<1>FreeBlockEntries.
    ASSUME IInv, EInv, NEW p \in Procs, \A q \in Procs : q = p, FreeBlock(p)
    PROVE  EInv'
  <2> USE <1>FreeBlockEntries
  <2>1. /\ UNCHANGED <<itable, dirents, cache, inner, inodeBitmap, op>>
        /\ pc[p] = "freeBlock" /\ pc'[p] = "done" /\ (faults' = faults \/ faults' = faults + 1)
    BY DEF FreeBlock, Goto, memory, Count, IInv, Typed
  <2>2. /\ pc[p] \in Writing /\ pc'[p] \in Writing /\ pc'[p] \notin HasInode
        /\ pc'[p] \notin Entered \cup {"dirent"} /\ pc'[p] # "freeInode" /\ pc[p] \notin Undoing
    BY <2>1, SMTT(30) DEF Writing, HasInode, Entered, Undoing
  <2> QED
    BY <2>1, <2>2, <1>LateEntries
(* create_file has looked the name up under the lock.                      *)
<1>CreateFileEntries.
    ASSUME IInv, EInv, NEW p \in Procs, \A q \in Procs : q = p, CreateFile(p)
    PROVE  EInv'
  <2> USE <1>CreateFileEntries
  <2>1. UNCHANGED <<inodeBitmap, itable, dirents, faults>> /\ pc[p] = "create"
    BY DEF CreateFile, disk
  <2>2. pc[p] \notin Undoing
    BY <2>1 DEF Undoing
  <2>3. CASE NameTaken(p)
    <3>1. CacheFound(p) /\ Return(p)
      BY <2>3 DEF CreateFile
    <3> QED
      BY <2>1, <2>2, <3>1, FoundLoads, <1>ReturnEntries
  <2>4. CASE ~NameTaken(p) /\ Parent(p).sz \div PerBlock >= DIRECT_BLOCKS
    <3>1. UNCHANGED <<cache, inner>> /\ Return(p)
      BY <2>4 DEF CreateFile
    <3> QED
      BY <2>1, <2>2, <3>1, <1>ReturnEntries, Unloading
  <2>5. CASE ~NameTaken(p) /\ ~(Parent(p).sz \div PerBlock >= DIRECT_BLOCKS)
    <3>1. PICK c \in Inodes, o \in Ops : c = Parent(p) /\ o = op[p]
      BY OpFields, ParentTyped DEF IInv
    <3>2. PICK x : x = [c EXCEPT !.sz = @ + 1]
      OBVIOUS
    <3>3. x \in Inodes
      BY <3>2, SMTT(30) DEF Inodes
    <3>4. PICK v \in Ops :
            /\ v = [o EXCEPT !.new = x] /\ v.new = x
            /\ v.obj = o.obj /\ v.dir = o.dir /\ v.inum = o.inum /\ v.blk = o.blk /\ v.name = o.name
      BY <3>3, NewSet
    <3>5. /\ op' = [op EXCEPT ![p] = v] /\ UNCHANGED <<cache, inner>>
          /\ Goto(p, "block") \/ Goto(p, "inode")
      BY <2>5, <3>1, <3>2, <3>4 DEF CreateFile
    <3>6. op'[p] = v /\ (pc'[p] = "block" \/ pc'[p] = "inode")
      BY <3>5 DEF Goto, IInv, Typed
    <3>7. Parent(p)' = c
      BY <3>1, <3>4, <3>5, <3>6 DEF Parent
    <3>8. Lengths' /\ faults' \in Nat
      BY <2>1, <2>2, <3>5, <1>LengthsSame, Unloading DEF EInv
    <3>9. ASSUME faults' <= 2
          PROVE  /\ Written(itable, dirents, inodeBitmap)' /\ Apart(itable, dirents)'
                 /\ Making(pc[p], op[p], Parent(p), itable, dirents)'
      <4>1. Written(itable, dirents, inodeBitmap)' /\ Apart(itable, dirents)'
        BY <2>1, <3>9, MakingNow, <1>EntriesSame
      <4>2. \A k \in Nat : k < c.sz => EntryOf(dirents, c, k).name # o.name
        <5>1. SUFFICES ASSUME NEW k \in Nat, k < c.sz, EntryOf(dirents, c, k).name = o.name
                       PROVE  FALSE
          OBVIOUS
        <5>2. k \in 0..(c.sz - 1)
          BY <5>1, InodeFields, SMTT(30)
        <5>3. EntryOf(dirents, c, k) \in Entries(c)
          BY <5>2 DEF Entries, Entry, EntryOf
        <5> QED
          BY <2>5, <3>1, <5>1, <5>3 DEF NameTaken, Found
      <4>3. v.name \in Names
        BY <2>1, <3>1, <3>4, <3>9, <1>NameNow
      <4>4. PICK w, D, T : w = pc'[p] /\ D = dirents /\ D = dirents' /\ T = itable'
        BY <2>1
      <4>5. w \notin HasInode /\ w \notin Entered \cup {"dirent"} /\ w # "freeInode"
        BY <3>6, <4>4 DEF HasInode, Entered, Undoing
      <4>6. Making(w, v, c, T, D)
        BY <3>4, <4>2, <4>3, <4>4, <4>5 DEF Making
      <4> QED
        BY <3>6, <3>7, <4>1, <4>4, <4>6
    <3> QED
      BY <3>8, <3>9, <1>EntriesStep
  <2> QED
    BY <2>3, <2>4, <2>5
<1>AllocateBlockEntries.
    ASSUME IInv, EInv, NEW p \in Procs, \A q \in Procs : q = p, AllocateBlock(p)
    PROVE  EInv'
  <2> USE <1>AllocateBlockEntries
  <2>1. UNCHANGED <<inodeBitmap, itable, dirents, cache, inner>> /\ pc[p] = "block"
    BY DEF AllocateBlock
  <2>2. faults' = faults \/ faults' = faults + 1
    BY DEF AllocateBlock, Count
  <2>3. pc[p] \notin Undoing /\ pc[p] \in Writing /\ pc[p] \notin Entered
    BY <2>1 DEF Entered, Undoing, Writing
  <2>4. CASE Return(p)
    BY <2>1, <2>2, <2>3, <2>4, <1>ReturnEntries, Unloading
  <2>5. CASE ~Return(p)
    <3>1. PICK v \in Ops : /\ op' = [op EXCEPT ![p] = v] /\ v.obj = op[p].obj /\ v.dir = op[p].dir
                           /\ v.name = op[p].name /\ Goto(p, "inode")
      BY <2>5, BlockTaken DEF IInv
    <3>2. op'[p] = v /\ pc'[p] = "inode"
      BY <3>1 DEF Goto, IInv, Typed
    <3>3. /\ pc'[p] \in Writing /\ pc'[p] \notin HasInode /\ pc'[p] # "freeInode"
          /\ pc'[p] \notin Entered \cup {"dirent"}
      BY <3>2 DEF HasInode, Entered, Undoing, Writing
    <3> QED
      BY <2>1, <2>2, <2>3, <3>1, <3>2, <3>3, <1>LateEntries
  <2> QED
    BY <2>4, <2>5
(* The inode number is new: every entry's is allocated already.            *)
<1>AllocateInodeEntries.
    ASSUME IInv, EInv, NEW p \in Procs, \A q \in Procs : q = p, AllocateInode(p)
    PROVE  EInv'
  <2> USE <1>AllocateInodeEntries
  <2>1. UNCHANGED <<itable, dirents, cache, inner>> /\ pc[p] = "inode"
    BY DEF AllocateInode, memory
  <2>2. inodeBitmap \subseteq inodeBitmap' /\ (faults' = faults \/ faults' = faults + 1)
    BY DEF AllocateInode, Count
  <2>3. pc[p] \notin Undoing /\ pc[p] \in Writing /\ pc[p] \notin Entered
    BY <2>1 DEF Entered, Undoing, Writing
  <2>4. CASE Goto(p, "freeBlock") /\ UNCHANGED op
    <3>1. pc'[p] = "freeBlock"
      BY <2>4 DEF Goto, IInv, Typed
    <3>2. /\ pc'[p] \in Writing /\ pc'[p] \notin HasInode /\ pc'[p] # "freeInode"
          /\ pc'[p] \notin Entered \cup {"dirent"}
      BY <3>1 DEF HasInode, Entered, Undoing, Writing
    <3> QED
      BY <2>1, <2>2, <2>3, <2>4, <3>2, <1>LateEntries
  <2>5. CASE ~(Goto(p, "freeBlock") /\ UNCHANGED op)
    <3>1. PICK i \in Least(FreeInums) : op' = [op EXCEPT ![p].inum = i] /\ Goto(p, "readNew")
      BY <2>5 DEF AllocateInode, NoInode
    <3>2. i \in Nat /\ i \notin inodeBitmap /\ i # 0
      BY <3>1, SMTT(30) DEF Least, FreeInums, Inums
    <3>3. PICK o \in Ops : o = op[p]
      BY OpFields DEF IInv
    <3>4. PICK v \in Ops :
            /\ v = [o EXCEPT !.inum = i] /\ v.inum = i
            /\ v.obj = o.obj /\ v.dir = o.dir /\ v.blk = o.blk /\ v.new = o.new /\ v.name = o.name
      BY <3>2, InumSet
    <3>5. op' = [op EXCEPT ![p] = v]
      BY <3>1, <3>3, <3>4
    <3>6. pc'[p] = "readNew" /\ op'[p] = v
      BY <3>1, <3>5 DEF Goto, IInv, Typed
    <3>7. Parent(p)' = Parent(p)
      BY <2>1, <3>3, <3>4, <3>6 DEF Parent
    <3>8. /\ faults' \in Nat /\ (faults' <= 2 => faults <= 2) /\ (faults >= 2 => faults' >= 2)
          /\ (faults >= 1 => faults' >= 1)
      BY <2>2, FaultsStep DEF EInv
    <3>9. Lengths'
      BY <2>1, <2>3, <3>8, <1>LengthsSame, Unloading DEF EInv
    <3>10. ASSUME faults' <= 2
           PROVE  /\ Written(itable, dirents, inodeBitmap)' /\ Apart(itable, dirents)'
                  /\ Making(pc[p], op[p], Parent(p), itable, dirents)'
      <4>1. /\ Written(itable, dirents, inodeBitmap) /\ Apart(itable, dirents)
            /\ Making(pc[p], op[p], Parent(p), itable, dirents)
        BY <3>8, <3>10, MakingNow
      <4>2. Written(itable, dirents, inodeBitmap)' /\ Apart(itable, dirents)'
        BY <2>1, <2>2, <4>1, <1>EntriesSame
      <4>3. PICK w, c, T, D : /\ w = pc'[p] /\ c = Parent(p) /\ T = itable /\ D = dirents
        OBVIOUS
      <4>4. \A d \in Dirs, k \in Nat : k < T[d].sz => EntryOf(D, T[d], k).inum # i
        <5>1. SUFFICES ASSUME NEW d \in Dirs, NEW k \in Nat, k < T[d].sz
                       PROVE  EntryOf(D, T[d], k).inum # i
          OBVIOUS
        <5>2. CASE EntryOf(D, T[d], k) = Empty
          BY <3>2, <5>2, EmptyInum
        <5>3. CASE EntryOf(D, T[d], k) # Empty
          <6>1. Written(T, D, inodeBitmap)
            BY <4>1, <4>3
          <6> QED
            BY <3>2, <5>1, <5>3, <6>1 DEF Written
        <5> QED
          BY <5>2, <5>3
      <4>5. w = "readNew" /\ w \notin Entered \cup {"dirent"}
        BY <3>6, <4>3 DEF Entered, Undoing
      <4>6. v.name \in Names /\ \A k \in Nat : k < c.sz => EntryOf(D, c, k).name # v.name
        BY <2>1, <2>3, <3>3, <3>4, <4>1, <4>3 DEF Making
      <4>7. Making(w, v, c, T, D)
        BY <3>4, <4>4, <4>5, <4>6 DEF Making
      <4> QED
        BY <2>1, <3>6, <3>7, <4>2, <4>3, <4>7
    <3> QED
      BY <3>8, <3>9, <3>10, <1>EntriesStep
  <2> QED
    BY <2>4, <2>5
(* No entry names the inode that is freed.                                 *)
<1>FreeInodeEntries.
    ASSUME IInv, EInv, NEW p \in Procs, \A q \in Procs : q = p, FreeInode(p)
    PROVE  EInv'
  <2> USE <1>FreeInodeEntries
  <2>1. /\ UNCHANGED <<itable, dirents, cache, inner, op>>
        /\ pc[p] = "freeInode" /\ pc'[p] = "freeBlock"
    BY DEF FreeInode, memory, Goto, IInv, Typed
  <2>2. /\ inodeBitmap' = inodeBitmap \ {op[p].inum} \/ inodeBitmap' = inodeBitmap
        /\ faults' = faults \/ faults' = faults + 1
    BY DEF FreeInode, Count
  <2>3. /\ pc[p] \notin Undoing /\ pc[p] \in HasInode /\ pc[p] \notin Entered /\ pc[p] \in Writing
        /\ pc'[p] \in Writing /\ pc'[p] \notin HasInode /\ pc'[p] # "freeInode"
        /\ pc'[p] \notin Entered \cup {"dirent"}
    BY <2>1, SMTT(30) DEF HasInode, Entered, Undoing, Writing
  <2>4. /\ faults' \in Nat /\ (faults' <= 2 => faults <= 2) /\ (faults >= 2 => faults' >= 2)
        /\ (faults >= 1 => faults' >= 1)
    BY <2>2, FaultsStep DEF EInv
  <2>5. Lengths'
    BY <2>1, <2>3, <2>4, <1>LengthsSame, Unloading DEF EInv
  <2>6. ASSUME faults' <= 2
        PROVE  /\ Written(itable, dirents, inodeBitmap)' /\ Apart(itable, dirents)'
               /\ Making(pc[p], op[p], Parent(p), itable, dirents)'
    <3>1. /\ Written(itable, dirents, inodeBitmap) /\ Apart(itable, dirents)
          /\ Making(pc[p], op[p], Parent(p), itable, dirents)
      BY <2>4, <2>6, MakingNow
    <3>2. PICK w, x, o, c, T, D, B, C :
            /\ w = pc[p] /\ x = pc'[p] /\ o = op[p] /\ c = Parent(p) /\ T = itable /\ D = dirents
            /\ B = inodeBitmap /\ C = inodeBitmap'
      OBVIOUS
    <3>3. Written(T, D, B) /\ Apart(T, D) /\ Making(w, o, c, T, D)
      BY <3>1, <3>2
    <3>4. Written(T, D, C)
      <4>1. SUFFICES ASSUME NEW d \in Dirs, NEW k \in Nat, NEW e, e = EntryOf(D, T[d], k),
                            k < T[d].sz, e # Empty
                     PROVE  e.inum \in C /\ T[e.inum].ty # "none"
        BY DEF Written
      <4>2. e.inum \in B /\ T[e.inum].ty # "none"
        BY <3>3, <4>1 DEF Written
      <4>3. e.inum # o.inum
        BY <2>3, <3>2, <3>3, <4>1 DEF Making
      <4> QED
        BY <2>2, <3>2, <4>2, <4>3
    <3>5. Making(x, o, c, T, D)
      BY <2>3, <3>2, <3>3, <1>MakingMoves
    <3>6. T = itable' /\ D = dirents' /\ o = op'[p] /\ c = Parent(p)'
      BY <2>1, <3>2 DEF Parent
    <3> QED
      BY <3>2, <3>3, <3>4, <3>5, <3>6
  <2> QED
    BY <2>4, <2>5, <2>6, <1>EntriesStep
(* No entry names the inode that is written.                               *)
<1>WriteNewInodeEntries.
    ASSUME IInv, EInv, NEW p \in Procs, \A q \in Procs : q = p, WriteNewInode(p)
    PROVE  EInv'
  <2> USE <1>WriteNewInodeEntries
  <2>1. UNCHANGED <<inodeBitmap, dirents, cache, inner, op>> /\ pc[p] = "writeNew"
    BY DEF WriteNewInode, memory
  <2>2. PICK i \in Inums \ Dirs : i = op[p].inum
    BY <2>1 DEF IInv, Objects, HasInode
  <2>3. /\ \A j \in Inums \ {i} : itable'[j] = itable[j]
        /\ itable'[i] = FileInode \/ itable' = itable
        /\ \/ pc'[p] = "dirent" /\ itable'[i] = FileInode /\ faults' = faults
           \/ pc'[p] = "freeInode" /\ faults' = faults + 1
    <3>1. buf[p] = itable
      BY <2>1 DEF IInv, Buffers
    <3>2. PICK ok \in BOOLEAN, landed \in BOOLEAN :
            /\ ok => landed
            /\ Count(ok)
            /\ IF landed THEN WriteSector(p, op[p].inum, FileInode) ELSE UNCHANGED itable
            /\ Goto(p, IF ok THEN "dirent" ELSE "freeInode")
      BY DEF WriteNewInode
    <3>3. IF landed THEN itable'[i] = FileInode /\ \A j \in Inums \ {i} : itable'[j] = itable[j]
                    ELSE UNCHANGED itable
      BY <2>2, <3>1, <3>2, SectorIs, BlankTyped DEF IInv
    <3>4. p \in DOMAIN pc
      BY DEF IInv, Typed
    <3>5. \/ ok /\ pc'[p] = "dirent" /\ faults' = faults
          \/ pc'[p] = "freeInode" /\ faults' = faults + 1
      BY <3>2, <3>4 DEF Goto, Count
    <3> QED
      BY <3>2, <3>3, <3>5
  <2>4. \A d \in Dirs : d \in Inums /\ itable'[d] = itable[d]
    BY <2>2, <2>3, DirsTyped DEF IInv
  <2>5. Loading
    BY <2>1, <2>4 DEF Loading
  <2>6. /\ pc[p] \notin Undoing /\ pc[p] \in HasInode /\ pc[p] \notin Entered /\ pc[p] \in Writing
    BY <2>1, SMTT(30) DEF HasInode, Entered, Undoing, Writing
  <2>7. /\ faults' \in Nat /\ (faults' <= 2 => faults <= 2) /\ (faults >= 2 => faults' >= 2)
        /\ (faults >= 1 => faults' >= 1)
        /\ (faults' = faults + 1 => faults' >= 1 /\ (faults' <= 2 => ~(faults >= 2)))
    BY <2>3, FaultsStep DEF EInv
  <2>8. Lengths'
    BY <2>5, <2>6, <2>7, <1>LengthsSame DEF EInv
  <2>9. ASSUME faults' <= 2
        PROVE  /\ Written(itable, dirents, inodeBitmap)' /\ Apart(itable, dirents)'
               /\ Making(pc[p], op[p], Parent(p), itable, dirents)'
    <3>1. /\ Written(itable, dirents, inodeBitmap) /\ Apart(itable, dirents)
          /\ Making(pc[p], op[p], Parent(p), itable, dirents)
      BY <2>7, <2>9, MakingNow
    <3>2. PICK w, x, o, c, T, U, D, B :
            /\ w = pc[p] /\ x = pc'[p] /\ o = op[p] /\ c = Parent(p) /\ T = itable /\ U = itable'
            /\ D = dirents /\ B = inodeBitmap
      OBVIOUS
    <3>3. Written(T, D, B) /\ Apart(T, D) /\ Making(w, o, c, T, D)
      BY <3>1, <3>2
    <3>4. \A d \in Dirs, k \in Nat : k < T[d].sz => EntryOf(D, T[d], k).inum # i
      BY <2>2, <2>6, <3>2, <3>3 DEF Making
    <3>5. StillWritten(T, D, U, B)
      <4>1. SUFFICES ASSUME NEW d \in Dirs, NEW k \in Nat, NEW e, e = EntryOf(D, T[d], k),
                            k < T[d].sz, e # Empty
                     PROVE  e.inum \in B /\ U[e.inum].ty # "none"
        BY DEF StillWritten
      <4>2. e.inum \in B /\ T[e.inum].ty # "none" /\ e.inum # i
        BY <3>3, <3>4, <4>1 DEF Written
      <4>3. e.inum \in Inums
        BY <3>2, <4>2 DEF IInv, Typed
      <4> QED
        BY <2>3, <3>2, <4>2, <4>3
    <3>6. \A d \in Dirs : U[d] = T[d]
      BY <2>4, <3>2
    <3>7. Written(U, D, B) /\ Apart(U, D)
      <4>1. Fewer(T, D, U, D)
        BY <3>6 DEF Fewer
      <4> QED
        BY <3>3, <3>5, <4>1, <1>EntriesFewer
    <3>8. Making(x, o, c, U, D)
      <4>1. x # "idle" => o.name \in Names
        BY <2>1, <3>2, <3>3 DEF Making
      <4>2. \A k \in Nat : k < c.sz => EntryOf(D, c, k).name # o.name
        BY <2>6, <3>2, <3>3 DEF Making
      <4>3. x \in Entered \cup {"dirent"} => U[o.inum] = FileInode
        <5>1. "freeInode" \notin Entered \cup {"dirent"}
          BY DEF Entered, Undoing
        <5> QED
          BY <2>2, <2>3, <3>2, <5>1
      <4>4. \A d \in Dirs, k \in Nat : k < U[d].sz => EntryOf(D, U[d], k).inum # o.inum
        BY <2>2, <3>2, <3>4, <3>6
      <4>5. x = "freeInode" => U[o.dir].sz = c.sz
        <5>1. SUFFICES ASSUME x = "freeInode"
                       PROVE  U[o.dir].sz = c.sz
          OBVIOUS
        <5>2. faults' = faults + 1
          BY <2>3, <3>2, <5>1
        <5>3. T[o.dir].sz = c.sz
          BY <2>6, <2>7, <2>9, <3>2, <5>2, NotTorn
        <5>4. o.dir \in Dirs
          BY <3>2, OpFields DEF IInv
        <5> QED
          BY <3>6, <5>3, <5>4
      <4> QED
        BY <4>1, <4>2, <4>3, <4>4, <4>5 DEF Making
    <3>9. D = dirents' /\ o = op'[p] /\ c = Parent(p)' /\ B = inodeBitmap'
      BY <2>1, <3>2 DEF Parent
    <3> QED
      BY <3>2, <3>7, <3>8, <3>9
  <2> QED
    BY <2>7, <2>8, <2>9, <1>EntriesStep
<1>SlotEntries.
    ASSUME IInv, EInv, NEW p \in Procs, \A q \in Procs : q = p, pc[p] \in Entered \cup {"dirent"},
           NEW e, UNCHANGED dirents \/ WriteDirent(p, e),
           e = Empty \/ e = [inum |-> op[p].inum, name |-> op[p].name],
           UNCHANGED <<itable, cache, inner, inodeBitmap, op>>,
           faults' = faults \/ faults' = faults + 1,
           \/ pc'[p] \in Entered
           \/ pc'[p] = "freeInode" /\ pc[p] = "dirent" /\ faults' = faults + 1,
           pc[p] \in Undoing => pc'[p] \in Undoing
    PROVE  EInv'
  <2> USE <1>SlotEntries
  <2>1. /\ faults' \in Nat /\ (faults' <= 2 => faults <= 2) /\ (faults >= 2 => faults' >= 2)
        /\ (faults >= 1 => faults' >= 1)
        /\ (faults' = faults + 1 => faults' >= 1 /\ (faults' <= 2 => ~(faults >= 2)))
    BY FaultsStep DEF EInv
  <2>2. Lengths'
    BY <2>1, <1>LengthsSame, Unloading DEF EInv
  <2>3. ASSUME faults' <= 2
        PROVE  /\ Written(itable, dirents, inodeBitmap)' /\ Apart(itable, dirents)'
               /\ Making(pc[p], op[p], Parent(p), itable, dirents)'
    <3>1. /\ Written(itable, dirents, inodeBitmap) /\ Apart(itable, dirents)
          /\ Making(pc[p], op[p], Parent(p), itable, dirents)
      BY <2>1, <2>3, MakingNow
    <3>2. PICK w, x, o, c, h, m, T, D, F, B :
            /\ w = pc[p] /\ x = pc'[p] /\ o = op[p] /\ c = Parent(p) /\ h = op[p].dir /\ m = c.sz
            /\ T = itable /\ D = dirents /\ F = dirents' /\ B = inodeBitmap
      OBVIOUS
    <3>3. Written(T, D, B) /\ Apart(T, D) /\ Making(w, o, c, T, D)
      BY <3>1, <3>2
    <3>4. w \in HasInode /\ w \in Writing \ {"block"} /\ w \in Writing /\ w # "idle"
      BY <3>2, SMTT(30) DEF HasInode, Writing, Entered, Undoing
    <3>5. \A d \in Dirs, k \in Nat : k < T[d].sz =>
             \/ EntryOf(F, T[d], k) = EntryOf(D, T[d], k)
             \/ d = h /\ k = m /\ EntryOf(F, T[d], k) = e
      BY <3>2, <3>4, SlotWritten, SMTT(30)
    <3>6. T[o.inum] = FileInode /\ T[o.inum].ty # "none"
      <4>1. T[o.inum] = FileInode
        BY <3>2, <3>3 DEF Making
      <4>2. FileInode.ty = "file"
        BY SMTT(30) DEF FileInode, Blank
      <4> QED
        BY <4>1, <4>2
    <3>7. Enterable(T, D, T, B, h, m, e)
      <4>1. CASE e = Empty
        BY <4>1 DEF Enterable
      <4>2. CASE e = [inum |-> o.inum, name |-> o.name]
        <5>1. Enters(p, h, m, o, e) /\ faults <= 2
          BY <2>1, <2>3, <3>2, <4>2 DEF Enters
        <5>2. Enterable(itable, dirents, T, inodeBitmap, h, m, e)
          BY <3>6, <5>1, NewEntry
        <5> QED
          BY <3>2, <5>2
      <4> QED
        BY <3>2, <4>1, <4>2
    <3>8. Written(T, F, B) /\ Apart(T, F)
      <4>1. Changed(T, D, T, F, h, m, e)
        BY <3>5 DEF Changed
      <4>2. StillWritten(T, D, T, B)
        BY <3>3 DEF StillWritten, Written
      <4> QED
        BY <3>3, <3>7, <4>1, <4>2, EntriesKept
    <3>9. Making(x, o, c, T, F)
      <4>1. o.name \in Names
        BY <3>3, <3>4 DEF Making
      <4>2. ASSUME NEW k \in Nat, k < c.sz
            PROVE  EntryOf(F, c, k).name # o.name
        <5>1. PICK n, b : n = op[p].new /\ b = op[p].blk
          OBVIOUS
        <5>2. h \in Dirs /\ c \in Inodes
          <6>1. Workable(h, c, n, b)
            BY <3>2, <3>4, <5>1, Working
          <6> QED
            BY <6>1 DEF Workable
        <5>3. k # m
          <6>1. m \in Nat /\ k < m
            BY <3>2, <4>2, <5>2, InodeFields
          <6>2. \A r \in Nat : ~(r < r)
            BY SMTT(30)
          <6> QED
            BY <6>1, <6>2
        <5>4. /\ k < T[h].sz /\ EntryOf(D, c, k) = EntryOf(D, T[h], k)
              /\ EntryOf(F, c, k) = EntryOf(F, T[h], k)
          <6>1. Adds(p, h, c) /\ pc[p] \in Writing \ {"block"}
            BY <3>2, <3>4 DEF Adds
          <6>2. SameEntry(D, c, itable[h], k) /\ SameEntry(F, c, itable[h], k)
            BY <4>2, <6>1, CachedEntries
          <6> QED
            BY <3>2, <6>2 DEF SameEntry
        <5>5. EntryOf(F, c, k) = EntryOf(D, c, k)
          BY <3>5, <5>2, <5>3, <5>4
        <5> QED
          BY <3>3, <3>4, <4>2, <5>5 DEF Making
      <4>3. x = "freeInode" => T[o.dir].sz = c.sz
        <5>1. SUFFICES ASSUME x = "freeInode"
                       PROVE  T[o.dir].sz = c.sz
          OBVIOUS
        <5>2. "freeInode" \notin Entered /\ "dirent" \in Writing \ Undoing
          BY DEF Entered, Undoing, Writing, HasInode
        <5>3. pc[p] = "dirent" /\ faults' = faults + 1
          BY <3>2, <5>1, <5>2
        <5> QED
          BY <2>1, <2>3, <3>2, <5>2, <5>3, NotTorn
      <4>4. ASSUME NEW d \in Dirs, NEW k \in Nat, k < T[d].sz, EntryOf(F, T[d], k).inum = o.inum
            PROVE  x \in Entered /\ d = o.dir /\ k = c.sz
        <5>1. d = h /\ k = m
          <6>1. CASE EntryOf(F, T[d], k) = EntryOf(D, T[d], k)
            BY <3>2, <3>3, <3>4, <4>4, <6>1 DEF Making
          <6> QED
            BY <3>5, <4>4, <6>1
        <5>2. x # "freeInode"
          <6>1. SUFFICES ASSUME x = "freeInode" PROVE FALSE
            OBVIOUS
          <6>2. k < k
            BY <3>2, <4>3, <4>4, <5>1, <6>1
          <6> QED
            BY <6>2, SMTT(30)
        <5> QED
          BY <3>2, <5>1, <5>2
      <4> QED
        BY <3>6, <4>1, <4>2, <4>3, <4>4 DEF Making
    <3>10. T = itable' /\ o = op'[p] /\ c = Parent(p)' /\ B = inodeBitmap'
      BY <3>2 DEF Parent
    <3> QED
      BY <3>2, <3>8, <3>9, <3>10
  <2> QED
    BY <2>1, <2>2, <2>3, <1>EntriesStep
<1>AddDirentEntries.
    ASSUME IInv, EInv, NEW p \in Procs, \A q \in Procs : q = p, AddDirent(p)
    PROVE  EInv'
  <2> USE <1>AddDirentEntries
  <2>1. UNCHANGED <<inodeBitmap, itable, cache, inner, op>> /\ pc[p] = "dirent"
    BY DEF AddDirent, memory
  <2>2. PICK e : e = [inum |-> op[p].inum, name |-> op[p].name]
    OBVIOUS
  <2>3. /\ UNCHANGED dirents \/ WriteDirent(p, e)
        /\ faults' = faults \/ faults' = faults + 1
        /\ pc'[p] = "readParent" \/ (pc'[p] = "freeInode" /\ faults' = faults + 1)
    BY <2>2 DEF AddDirent, Goto, Count, IInv, Typed
  <2>4. "readParent" \in Entered /\ pc[p] \notin Undoing
    BY <2>1 DEF Entered, Undoing
  <2> QED
    BY <2>1, <2>2, <2>3, <2>4, <1>SlotEntries
<1>ClearDirentEntries.
    ASSUME IInv, EInv, NEW p \in Procs, \A q \in Procs : q = p, ClearDirent(p)
    PROVE  EInv'
  <2> USE <1>ClearDirentEntries
  <2>1. UNCHANGED <<inodeBitmap, itable, cache, inner, op>> /\ pc[p] = "clearDirent"
    BY DEF ClearDirent, memory
  <2>2. PICK e : e = Empty
    OBVIOUS
  <2>3. /\ UNCHANGED dirents \/ WriteDirent(p, e)
        /\ faults' = faults \/ faults' = faults + 1
        /\ pc'[p] = "readUndo"
    BY <2>2 DEF ClearDirent, Goto, Count, IInv, Typed
  <2>4. pc[p] \in Entered \cup {"dirent"} /\ pc'[p] \in Entered /\ pc'[p] \in Undoing
    BY <2>1, <2>3 DEF Entered, Undoing
  <2> QED
    BY <2>1, <2>2, <2>3, <2>4, <1>SlotEntries
<1>WriteParentEntries.
    ASSUME IInv, EInv, NEW p \in Procs, \A q \in Procs : q = p, WriteParent(p)
    PROVE  EInv'
  <2> USE <1>WriteParentEntries
  <2>1. UNCHANGED <<inodeBitmap, dirents>> /\ pc[p] = "writeParent"
    BY DEF WriteParent
  <2>2. faults' = faults \/ faults' = faults + 1
    BY DEF WriteParent, Count
  <2>3. /\ faults' \in Nat /\ (faults' <= 2 => faults <= 2) /\ (faults >= 2 => faults' >= 2)
        /\ (faults >= 1 => faults' >= 1) /\ (faults' = faults + 1 => faults' >= 1)
    BY <2>2, FaultsStep DEF EInv
  <2>4. /\ pc[p] \in Writing \ {"block"} /\ pc[p] \in Writing /\ pc[p] \in HasInode
        /\ pc[p] \in Entered /\ pc[p] \notin Undoing /\ buf[p] = itable /\ pc[p] # "idle"
    BY <2>1, SMTT(30) DEF Writing, HasInode, Entered, Undoing, IInv, Buffers
  <2>5. PICK d, c, n, b, o, i :
          /\ d = op[p].dir /\ c = Parent(p) /\ n = op[p].new /\ b = op[p].blk
          /\ o = op[p] /\ i = op[p].inum
    OBVIOUS
  <2>6. /\ d \in Dirs /\ d \in Inums /\ c \in Inodes /\ n \in Inodes
        /\ cache[d] # Absent /\ c = Cached(d) /\ Grown(c, n, b)
    <3>1. Workable(d, c, n, b)
      BY <2>4, <2>5, Working
    <3> QED
      BY <3>1 DEF Workable
  <2>7. PICK m \in Nat : m = c.sz /\ n.sz = m + 1
    BY <2>6, InodeFields DEF Grown
  <2>8. m + 1 <= m + 1 /\ m + 1 <= (m + 1) + 1 /\ m + 1 \in Nat
    BY SMTT(30)
  <2>9. PICK x : x = [inum |-> o.inum, name |-> o.name]
    OBVIOUS
  <2>10. PICK U : U = itable'
    OBVIOUS
  <2>11. ASSUME U[d] = n, \A j \in Inums \ {d} : U[j] = itable[j], faults <= 2
         PROVE  /\ Written(itable, dirents, inodeBitmap)' /\ Apart(itable, dirents)'
                /\ Changed(itable, dirents, U, dirents, d, m, x) /\ U[o.inum] = FileInode
    <3>1. /\ Written(U, dirents, inodeBitmap) /\ Apart(U, dirents)
          /\ Changed(itable, dirents, U, dirents, d, m, x) /\ U[o.inum] = FileInode
      <4>1. Enters(p, d, m, o, x) /\ U[d] = o.new
        BY <2>5, <2>7, <2>9, <2>11 DEF Enters
      <4>2. faults <= 2 /\ \A j \in Inums \ {d} : U[j] = itable[j]
        BY <2>11
      <4>3. HasEntry(U, d, m, o, x)
        BY <2>1, <4>1, <4>2, ParentGrows
      <4> QED
        BY <4>3 DEF HasEntry
    <3> QED
      BY <2>1, <2>10, <3>1
  <2>12. CASE Return(p)
    <3>1. /\ i \in Inums \ Dirs /\ faults' = faults
          /\ itable'[d] = n /\ \A j \in Inums \ {d} : itable'[j] = itable[j]
          /\ \A j \in Inums \ {i} : cache'[j] = cache[j]
          /\ inner'[d][cache[d]] = n
          /\ \A j \in Inums \ {d, i} : inner'[j] = inner[j]
      <4>1. Stores(p, d, n, i)
        BY <2>5, <2>12, ParentStored
      <4> QED
        BY <4>1 DEF Stores
    <3>2. Lengths'
      <4>1. SUFFICES ASSUME NEW e \in Dirs, cache'[e] # Absent
                     PROVE  /\ itable'[e].sz <= Cached(e)'.sz + 1
                            /\ itable'[e].sz # Cached(e)'.sz => faults' >= 2
        BY DEF Lengths
      <4>2. e \in Inums /\ cache'[e] = cache[e]
        BY <3>1, DirsTyped DEF IInv
      <4>3. CASE e = d
        <5>1. Cached(e)' = n /\ itable'[e] = n
          BY <3>1, <4>2, <4>3 DEF Cached
        <5> QED
          BY <2>7, <2>8, <5>1
      <4>4. CASE e # d
        <5>1. Cached(e)' = Cached(e) /\ itable'[e] = itable[e]
          BY <3>1, <4>2, <4>4 DEF Cached
        <5> QED
          BY <2>3, <2>4, <4>1, <4>2, <5>1 DEF EInv, Lengths
      <4> QED
        BY <4>3, <4>4
    <3>3. ASSUME faults' <= 2
          PROVE  /\ Written(itable, dirents, inodeBitmap)' /\ Apart(itable, dirents)'
                 /\ Making(pc[p], op[p], Parent(p), itable, dirents)'
      <4>1. Written(itable, dirents, inodeBitmap)' /\ Apart(itable, dirents)'
        BY <2>3, <2>10, <2>11, <3>1, <3>3
      <4>2. pc'[p] = "idle" /\ pc'[p] \notin Writing
        BY <2>12, Returns, NotWriting DEF IInv
      <4>3. PICK w, v, y, T, D :
              w = pc'[p] /\ v = op'[p] /\ y = Parent(p)' /\ T = itable' /\ D = dirents'
        OBVIOUS
      <4>4. Making(w, v, y, T, D)
        BY <4>2, <4>3, IdleMaking
      <4> QED
        BY <4>1, <4>3, <4>4
    <3> QED
      BY <2>3, <3>2, <3>3, <1>EntriesStep
  <2>13. CASE ~Return(p)
    <3>1. /\ Goto(p, "clearDirent") /\ UNCHANGED <<cache, inner, op>> /\ faults' = faults + 1
          /\ UNCHANGED itable \/ WriteSector(p, d, n)
      BY <2>5, <2>13 DEF WriteParent, Count
    <3>2. pc'[p] = "clearDirent" /\ op'[p] = o /\ Parent(p)' = c
      BY <2>5, <3>1 DEF Goto, IInv, Typed, Parent
    <3>3. /\ pc'[p] \in Writing /\ pc'[p] \in HasInode /\ pc'[p] \in Entered
          /\ pc'[p] \in Undoing /\ pc'[p] # "freeInode"
      BY <3>2, SMTT(30) DEF Writing, HasInode, Entered, Undoing
    <3>4. CASE UNCHANGED itable
      BY <2>1, <2>2, <2>4, <3>1, <3>2, <3>3, <3>4, <1>LateEntries
    <3>5. CASE WriteSector(p, d, n)
      <4>1. itable'[d] = n /\ \A j \in Inums \ {d} : itable'[j] = itable[j]
        BY <2>4, <2>6, <3>5, SectorIs DEF IInv
      <4>2. Lengths'
        <5>1. SUFFICES ASSUME NEW e \in Dirs, cache'[e] # Absent
                       PROVE  /\ itable'[e].sz <= Cached(e)'.sz + 1
                              /\ itable'[e].sz # Cached(e)'.sz =>
                                   \/ faults' >= 2
                                   \/ faults' >= 1 /\ \E q \in Procs : op'[q].dir = e /\ pc'[q] \in Undoing
          BY DEF Lengths
        <5>2. e \in Inums /\ Cached(e)' = Cached(e)
          BY <3>1, DirsTyped DEF IInv, Cached
        <5>3. CASE e = d
          <6>1. op'[p].dir = e /\ pc'[p] \in Undoing /\ faults' >= 1
            BY <2>3, <2>5, <3>1, <3>2, <3>3, <5>3
          <6> QED
            BY <2>6, <2>7, <2>8, <4>1, <5>2, <5>3, <6>1
        <5>4. CASE e # d
          <6>1. itable'[e] = itable[e] /\ cache[e] # Absent
            BY <3>1, <4>1, <5>1, <5>2, <5>4
          <6> QED
            BY <2>3, <2>4, <5>2, <6>1 DEF EInv, Lengths
        <5> QED
          BY <5>3, <5>4
      <4>3. ASSUME faults' <= 2
            PROVE  /\ Written(itable, dirents, inodeBitmap)' /\ Apart(itable, dirents)'
                   /\ Making(pc[p], op[p], Parent(p), itable, dirents)'
        <5>1. /\ Written(itable, dirents, inodeBitmap)' /\ Apart(itable, dirents)'
              /\ Changed(itable, dirents, U, dirents, d, m, x) /\ U[o.inum] = FileInode
          BY <2>3, <2>10, <2>11, <4>1, <4>3
        <5>2. PICK w, v, T, D : w = pc[p] /\ v = pc'[p] /\ T = itable /\ D = dirents
          OBVIOUS
        <5>3. Making(w, o, c, T, D)
          BY <2>3, <2>5, <4>3, <5>2, MakingNow
        <5>4. o.name \in Names /\ \A k \in Nat : k < c.sz => EntryOf(D, c, k).name # o.name
          BY <2>4, <5>2, <5>3 DEF Making
        <5>5. ASSUME NEW h \in Dirs, NEW k \in Nat, k < U[h].sz, EntryOf(D, U[h], k).inum = o.inum
              PROVE  h = o.dir /\ k = c.sz
          <6>1. CASE h = d /\ k = m
            BY <2>5, <2>7, <6>1
          <6>2. CASE k < T[h].sz /\ EntryOf(D, U[h], k) = EntryOf(D, T[h], k)
            BY <2>4, <5>2, <5>3, <5>5, <6>2 DEF Making
          <6> QED
            BY <5>1, <5>2, <5>5, <6>1, <6>2 DEF Changed
        <5>6. Making(v, o, c, U, D)
          BY <3>3, <5>1, <5>2, <5>4, <5>5 DEF Making
        <5>7. D = dirents'
          BY <2>1, <5>2
        <5> QED
          BY <2>10, <3>2, <5>1, <5>2, <5>6, <5>7
      <4> QED
        BY <2>3, <4>2, <4>3, <1>EntriesStep
    <3> QED
      BY <3>1, <3>4, <3>5
  <2> QED
    BY <2>12, <2>13
(* The directory's old inode shows the entries before the new one.         *)
<1>WriteUndoEntries.
    ASSUME IInv, EInv, NEW p \in Procs, \A q \in Procs : q = p, WriteUndo(p)
    PROVE  EInv'
  <2> USE <1>WriteUndoEntries
  <2>1. UNCHANGED <<inodeBitmap, dirents, cache, inner, op>> /\ pc[p] = "writeUndo"
    BY DEF WriteUndo, memory
  <2>2. PICK d, c, n, b, o :
          d = op[p].dir /\ c = Parent(p) /\ n = op[p].new /\ b = op[p].blk /\ o = op[p]
    OBVIOUS
  <2>3. /\ UNCHANGED itable \/ WriteSector(p, d, c)
        /\ \/ pc'[p] = "freeInode" /\ WriteSector(p, d, c) /\ faults' = faults
           \/ pc'[p] = "done" /\ faults' = faults + 1
    BY <2>2 DEF WriteUndo, UndoFailed, Goto, Count, IInv, Typed
  <2>4. /\ faults' \in Nat /\ (faults' <= 2 => faults <= 2) /\ (faults >= 2 => faults' >= 2)
        /\ (faults >= 1 => faults' >= 1) /\ (faults >= 1 /\ faults' = faults + 1 => faults' >= 2)
    BY <2>3, FaultsStep DEF EInv
  <2>5. /\ pc[p] \in Writing \ {"block"} /\ pc[p] \in Writing /\ pc[p] \in HasInode
        /\ pc[p] \in Entered /\ buf[p] = itable /\ pc[p] # "idle"
    BY <2>1, SMTT(30) DEF Writing, HasInode, Entered, Undoing, IInv, Buffers
  <2>6. /\ "done" \in Writing /\ "done" \notin HasInode
        /\ "done" \notin Entered \cup {"dirent"} /\ "freeInode" \notin Entered \cup {"dirent"}
    BY SMTT(30) DEF Writing, HasInode, Entered, Undoing
  <2>7. /\ d \in Dirs /\ d \in Inums /\ c \in Inodes /\ cache[d] # Absent /\ c = Cached(d)
        /\ Follows(itable[d], c)
    <3>1. Workable(d, c, n, b)
      BY <2>2, <2>5, Working
    <3> QED
      BY <3>1 DEF Workable
  <2>8. op'[p] = o /\ Parent(p)' = c
    BY <2>1, <2>2 DEF Parent
  <2>9. CASE UNCHANGED itable /\ pc'[p] = "done" /\ faults' = faults + 1
    BY <2>1, <2>5, <2>6, <2>9, <1>LateEntries
  <2>10. CASE WriteSector(p, d, c)
    <3>1. itable'[d] = c /\ \A j \in Inums \ {d} : itable'[j] = itable[j]
      BY <2>5, <2>7, <2>10, SectorIs DEF IInv
    <3>2. PICK m \in Nat : m = c.sz /\ m <= m + 1
      <4>1. PICK m \in Nat : m = c.sz
        BY <2>7, InodeFields
      <4>2. m <= m + 1
        BY SMTT(30)
      <4> QED
        BY <4>1, <4>2
    <3>3. Lengths'
      <4>1. SUFFICES ASSUME NEW e \in Dirs, cache'[e] # Absent
                     PROVE  /\ itable'[e].sz <= Cached(e)'.sz + 1
                            /\ itable'[e].sz # Cached(e)'.sz => faults' >= 2
        BY DEF Lengths
      <4>2. e \in Inums /\ Cached(e)' = Cached(e)
        BY <2>1, DirsTyped DEF IInv, Cached
      <4>3. CASE e = d
        BY <2>7, <3>1, <3>2, <4>2, <4>3
      <4>4. CASE e # d
        <5>1. itable'[e] = itable[e] /\ cache[e] # Absent
          BY <2>1, <3>1, <4>1, <4>2, <4>4
        <5>2. \A q \in Procs : op[q].dir # e
          BY <2>2, <4>4
        <5> QED
          BY <2>4, <4>2, <5>1, <5>2 DEF EInv, Lengths
      <4> QED
        BY <4>3, <4>4
    <3>4. ASSUME faults' <= 2
          PROVE  /\ Written(itable, dirents, inodeBitmap)' /\ Apart(itable, dirents)'
                 /\ Making(pc[p], op[p], Parent(p), itable, dirents)'
      <4>1. /\ Written(itable, dirents, inodeBitmap) /\ Apart(itable, dirents)
            /\ Making(pc[p], op[p], Parent(p), itable, dirents)
        BY <2>4, <3>4, MakingNow
      <4>2. PICK w, v, T, U, D, B : /\ w = pc[p] /\ v = pc'[p] /\ T = itable /\ U = itable'
                                    /\ D = dirents /\ B = inodeBitmap
        OBVIOUS
      <4>3. Written(T, D, B) /\ Apart(T, D) /\ Making(w, o, c, T, D)
        BY <2>2, <4>1, <4>2
      <4>4. Fewer(T, D, U, D)
        <5>1. SUFFICES ASSUME NEW h \in Dirs, NEW k \in Nat, k < U[h].sz
                       PROVE  k < T[h].sz /\ EntryOf(D, U[h], k) = EntryOf(D, T[h], k)
          BY DEF Fewer
        <5>2. CASE h # d
          <6>1. U[h] = T[h]
            BY <3>1, <4>2, <5>2, DirsTyped DEF IInv
          <6> QED
            BY <5>1, <6>1
        <5>3. CASE h = d
          <6>1. U[h] = c /\ k < c.sz
            BY <3>1, <4>2, <5>1, <5>3
          <6>2. k < itable[d].sz /\ EntryOf(D, c, k) = EntryOf(D, itable[d], k)
            <7>1. Adds(p, d, c)
              BY <2>2 DEF Adds
            <7>2. SameEntry(D, c, itable[d], k)
              BY <2>5, <6>1, <7>1, CachedEntries
            <7> QED
              BY <7>2 DEF SameEntry
          <6> QED
            BY <4>2, <5>3, <6>1, <6>2
        <5> QED
          BY <5>2, <5>3
      <4>5. StillWritten(T, D, U, B)
        <5>1. c.ty = "dir"
          BY <2>7 DEF IInv, Directories, Follows
        <5> QED
          BY <2>7, <3>1, <4>1, <4>2, <5>1, StillThere
      <4>6. Written(U, D, B) /\ Apart(U, D)
        BY <4>3, <4>4, <4>5, <1>EntriesFewer
      <4>7. o.name \in Names /\ \A k \in Nat : k < c.sz => EntryOf(D, c, k).name # o.name
        BY <2>5, <4>2, <4>3 DEF Making
      <4>8. ASSUME NEW h \in Dirs, NEW k \in Nat, k < U[h].sz
            PROVE  EntryOf(D, U[h], k).inum # o.inum
        <5>1. SUFFICES ASSUME EntryOf(D, U[h], k).inum = o.inum PROVE FALSE
          OBVIOUS
        <5>2. k < T[h].sz /\ EntryOf(D, T[h], k).inum = o.inum
          BY <4>4, <4>8, <5>1 DEF Fewer
        <5>3. h = o.dir /\ k = c.sz
          BY <2>5, <4>2, <4>3, <5>2 DEF Making
        <5>4. k < k
          BY <2>2, <3>1, <4>2, <4>8, <5>3
        <5> QED
          BY <5>4, SMTT(30)
      <4>9. Making(v, o, c, U, D)
        BY <2>2, <2>3, <2>6, <3>1, <4>2, <4>7, <4>8 DEF Making
      <4>10. D = dirents' /\ B = inodeBitmap'
        BY <2>1, <4>2
      <4> QED
        BY <2>8, <4>2, <4>6, <4>9, <4>10
    <3> QED
      BY <2>4, <3>3, <3>4, <1>EntriesStep
  <2> QED
    BY <2>3, <2>9, <2>10
<1>CrashEntries.
    ASSUME IInv, EInv, Crash
    PROVE  EInv'
  <2> USE <1>CrashEntries
  <2>1. UNCHANGED <<inodeBitmap, dataBitmap, itable, dirents, faults>>
    BY DEF Crash, disk
  <2>2. Dirs \subseteq Inums /\ Root \in Dirs /\ Root \in Inums
    BY DirsTyped DEF IInv
  <2>3. PICK T \in [Inums -> Inodes] : T = itable
    BY DEF IInv, Typed
  <2>4. PICK C, N : /\ C = cache' /\ C = [i \in Inums |-> IF i = Root THEN Mount ELSE Absent]
                    /\ N = inner'
                    /\ N = [i \in Inums |-> [l \in Loaders |->
                                               IF i = Root /\ l = Mount THEN T[i] ELSE Blank]]
    BY <2>3 DEF Crash
  <2>5. /\ \A d \in Inums : C[d] # Absent => d = Root
        /\ C[Root] = Mount /\ N[Root][C[Root]] = T[Root]
    BY <2>2, <2>4, RootMounted
  <2>6. \A d \in Dirs : cache'[d] # Absent => Cached(d)' = itable[d]
    BY <2>2, <2>3, <2>4, <2>5 DEF Cached
  <2>7. Lengths'
    <3>1. SUFFICES ASSUME NEW d \in Dirs, cache'[d] # Absent
                   PROVE  itable'[d].sz <= Cached(d)'.sz + 1 /\ itable'[d].sz = Cached(d)'.sz
      BY DEF Lengths
    <3>2. PICK m \in Nat : m = itable[d].sz
      BY DirInode, InodeFields DEF IInv
    <3>3. m <= m + 1
      BY SMTT(30)
    <3> QED
      BY <2>1, <2>6, <3>1, <3>2, <3>3
  <2>8. ASSUME faults' <= 2
        PROVE  /\ Written(itable, dirents, inodeBitmap)' /\ Apart(itable, dirents)'
               /\ \A p \in Procs : Making(pc[p], op[p], Parent(p), itable, dirents)'
    <3>1. Written(itable, dirents, inodeBitmap)' /\ Apart(itable, dirents)'
      BY <2>1, <2>8, <1>EntriesSame DEF EInv
    <3>2. ASSUME NEW p \in Procs
          PROVE  Making(pc[p], op[p], Parent(p), itable, dirents)'
      <4>1. PICK w, o, c, U, D :
              w = pc'[p] /\ o = op'[p] /\ c = Parent(p)' /\ U = itable' /\ D = dirents'
        OBVIOUS
      <4>2. w \notin Writing /\ w = "idle"
        BY <4>1, Quiet DEF Crash
      <4> QED
        BY <4>1, <4>2, IdleMaking
    <3> QED
      BY <3>1, <3>2
  <2> QED
    BY <2>1, <2>7, <2>8 DEF EInv
<1>StutterEntries.
    ASSUME EInv, UNCHANGED vars
    PROVE  EInv'
  <2> USE <1>StutterEntries
  <2>1. UNCHANGED <<inodeBitmap, itable, dirents, cache, inner, pc, op, faults>>
    BY DEF vars, disk, memory
  <2>2. Lengths'
    BY <2>1 DEF EInv, Lengths, Cached
  <2>3. ASSUME faults' <= 2
        PROVE  /\ Written(itable, dirents, inodeBitmap)' /\ Apart(itable, dirents)'
               /\ \A p \in Procs : Making(pc[p], op[p], Parent(p), itable, dirents)'
    <3>1. Written(itable, dirents, inodeBitmap)' /\ Apart(itable, dirents)'
      BY <2>1, <2>3, <1>EntriesSame DEF EInv
    <3>2. ASSUME NEW p \in Procs
          PROVE  Making(pc[p], op[p], Parent(p), itable, dirents)'
      <4>1. PICK w, o, c, T, D :
              w = pc[p] /\ o = op[p] /\ c = Parent(p) /\ T = itable /\ D = dirents
        OBVIOUS
      <4>2. Making(w, o, c, T, D)
        BY <2>1, <2>3, <4>1, MakingNow
      <4>3. w = pc'[p] /\ o = op'[p] /\ c = Parent(p)' /\ T = itable' /\ D = dirents'
        BY <2>1, <4>1 DEF Parent
      <4> QED
        BY <4>2, <4>3
    <3> QED
      BY <3>1, <3>2
  <2> QED
    BY <2>1, <2>2, <2>3 DEF EInv
<1> SUFFICES ASSUME OneHart, IInv, EInv, [Next]_vars
             PROVE  EInv'
  OBVIOUS
<1>1. ASSUME NEW p \in Procs PROVE \A q \in Procs : q = p
  BY DEF OneHart
<1>2. ASSUME NEW p \in Procs, NEW d \in Dirs, NEW n \in Names, Open(p, d, n)
      PROVE  EInv'
  BY <1>1, <1>2, <1>OpenEntries
<1>3. ASSUME NEW p \in Procs,
             \/ Resolve(p) \/ Insert(p) \/ Lookup(p) \/ CreateFile(p) \/ ReadError(p)
             \/ AllocateBlock(p) \/ AllocateInode(p) \/ ReadSector(p) \/ WriteNewInode(p)
      PROVE  EInv'
  BY <1>1, <1>3, <1>ResolveEntries, <1>InsertEntries, <1>LookupEntries, <1>CreateFileEntries,
     <1>ReadErrorEntries, <1>AllocateBlockEntries, <1>AllocateInodeEntries, <1>ReadSectorEntries,
     <1>WriteNewInodeEntries
<1>4. ASSUME NEW p \in Procs,
             \/ AddDirent(p) \/ WriteParent(p) \/ ClearDirent(p) \/ WriteUndo(p)
             \/ FreeInode(p) \/ FreeBlock(p) \/ Fail(p)
      PROVE  EInv'
  BY <1>1, <1>4, <1>AddDirentEntries, <1>WriteParentEntries, <1>ClearDirentEntries, <1>WriteUndoEntries,
     <1>FreeInodeEntries, <1>FreeBlockEntries, <1>ReadErrorEntries
<1>5. CASE Crash
  BY <1>5, <1>CrashEntries
<1>6. CASE UNCHANGED vars
  BY <1>6, <1>StutterEntries
<1> QED
  BY <1>2, <1>3, <1>4, <1>5, <1>6 DEF Next

(* With one hart and at most two failed transfers, whatever the kernel     *)
(* creates and wherever the machine stops leaves a sound image sound:      *)
(* create_file writes the inode before its entry and the entry before the  *)
(* directory's size, and undoes in the reverse order.  A third failure can *)
(* leave the entry of a file that was undone.                              *)
THEOREM DiskStaysSound == OneHart => (Spec /\ DiskSound => [](faults <= 2 => DiskSound))
<1> SUFFICES ASSUME OneHart
             PROVE  Spec /\ DiskSound => [](faults <= 2 => DiskSound)
  OBVIOUS
<1>1. Init /\ DiskSound => IInv /\ EInv
  BY InitEntries
<1>2. IInv /\ EInv /\ [Next]_vars => (IInv /\ EInv)'
  BY NextKept, NextEntries
<1>3. IInv /\ EInv => (faults <= 2 => DiskSound)
  BY EntriesSound
<1> QED
  BY <1>1, <1>2, <1>3, PTL DEF Spec

-----------------------------------------------------------------------------
(* The cache and the disk.                                                 *)

(* A step that only loads objects of allocated inodes.                     *)
Filling ==
  \A j \in Inums :
    \/ cache'[j] = cache[j] /\ inner'[j] = inner[j]
    \/ j \in inodeBitmap /\ inner'[j][cache'[j]] = itable[j]

LEMMA NoInodeYet ==
  ASSUME NEW w, w \notin HasInode
  PROVE  w # "freeInode" /\ w \notin Undoing
BY DEF HasInode, Undoing

LEMMA NoFaults ==
  ASSUME faults \in Nat
  PROVE  /\ faults' = faults + 1 => ~(faults' = 0)
         /\ faults = 0 => faults <= 2 /\ ~(faults >= 2)
BY SMTT(30)

LEMMA InitAgree ==
  ASSUME Init
  PROVE  Agree
<1>1. Typed /\ Objects
  BY InitObjects
<1>2. Dirs \subseteq Inums /\ Root \in Dirs /\ Root \in Inums /\ Root \in inodeBitmap
  BY <1>1, DirsTyped DEF Objects
<1>3. PICK T \in [Inums -> Inodes] : T = itable
  BY <1>1 DEF Typed
<1>4. PICK C, N : /\ C = cache /\ C = [i \in Inums |-> IF i = Root THEN Mount ELSE Absent]
                  /\ N = inner
                  /\ N = [i \in Inums |-> [l \in Loaders |->
                                             IF i = Root /\ l = Mount THEN T[i] ELSE Blank]]
  BY <1>3 DEF Init
<1>5. /\ \A d \in Inums : C[d] # Absent => d = Root
      /\ C[Root] = Mount /\ N[Root][C[Root]] = T[Root]
  BY <1>2, <1>4, RootMounted
<1>6. \A p \in Procs : pc[p] \notin HasInode /\ pc[p] # "freeInode" /\ pc[p] \notin Undoing
  <2>1. \A p \in Procs : pc[p] \notin HasInode
    BY Quiet DEF Init
  <2> QED
    BY <2>1, NoInodeYet
<1> QED
  BY <1>2, <1>3, <1>4, <1>5, <1>6 DEF Agree

LEMMA NextAgree == OneHart /\ IInv /\ EInv /\ Agree /\ [Next]_vars => Agree'
<1>AgreeEarly.
    ASSUME Agree, NEW p \in Procs, \A q \in Procs : q = p, UNCHANGED itable,
           inodeBitmap \subseteq inodeBitmap', faults' = 0 => faults = 0 /\ Filling,
           faults' = 0 => pc'[p] \notin HasInode
    PROVE  Agree'
  <2> USE <1>AgreeEarly
  <2>1. SUFFICES ASSUME faults' = 0
                 PROVE  /\ \A i \in Inums : cache'[i] # Absent =>
                             i \in inodeBitmap' /\ inner'[i][cache'[i]] = itable'[i]
                        /\ \A q \in Procs : pc'[q] \in HasInode => cache'[op'[q].inum] = Absent
                        /\ \A q \in Procs : pc'[q] # "freeInode" /\ pc'[q] \notin Undoing
    BY DEF Agree
  <2>2. pc'[p] # "freeInode" /\ pc'[p] \notin Undoing
    BY <2>1, NoInodeYet
  <2>3. ASSUME NEW i \in Inums, cache'[i] # Absent
        PROVE  i \in inodeBitmap' /\ inner'[i][cache'[i]] = itable'[i]
    <3>1. CASE cache'[i] = cache[i] /\ inner'[i] = inner[i]
      BY <2>1, <2>3, <3>1 DEF Agree
    <3>2. CASE i \in inodeBitmap /\ inner'[i][cache'[i]] = itable[i]
      BY <3>2
    <3> QED
      BY <2>1, <3>1, <3>2 DEF Filling
  <2> QED
    BY <2>1, <2>2, <2>3
<1>AgreeLate.
    ASSUME Agree, NEW p \in Procs, \A q \in Procs : q = p, UNCHANGED <<cache, inner>>,
           inodeBitmap \subseteq inodeBitmap', faults' = 0 => faults = 0,
           faults' = 0 => \A i \in Inums : cache[i] # Absent => itable'[i] = itable[i],
           faults' = 0 /\ pc'[p] \in HasInode => cache[op'[p].inum] = Absent,
           faults' = 0 => pc'[p] # "freeInode" /\ pc'[p] \notin Undoing
    PROVE  Agree'
  BY <1>AgreeLate DEF Agree
<1>NothingFilled.
    ASSUME UNCHANGED <<cache, inner>>
    PROVE  Filling
  BY <1>NothingFilled DEF Filling
<1>InsertFills.
    ASSUME IInv, NEW p \in Procs, Insert(p)
    PROVE  Filling
  <2> USE <1>InsertFills
  <2>1. UNCHANGED itable /\ pc[p] = "insert"
    BY DEF Insert, disk
  <2>2. PICK d \in Dirs : d = op[p].dir
    BY OpFields DEF IInv
  <2>3. buf[p] = itable /\ d \in Inums /\ d \in inodeBitmap
    BY <2>1, <2>2, DirsTyped DEF IInv, Buffers, Objects
  <2>4. CASE cache[d] = Absent
    <3>1. PICK x \in Inodes : x = itable[d]
      BY DirInode DEF IInv
    <3>2. cache' = [cache EXCEPT ![d] = p] /\ inner' = [inner EXCEPT ![d][p] = x]
      BY <2>2, <2>3, <2>4, <3>1 DEF Insert, Inserts
    <3>3. /\ cache'[d] = p /\ inner'[d][p] = x
          /\ \A j \in Inums \ {d} : cache'[j] = cache[j] /\ inner'[j] = inner[j]
      BY <2>3, <3>2, Loads, ZenonT(90) DEF IInv
    <3> QED
      BY <2>3, <3>1, <3>3 DEF Filling
  <2>5. CASE cache[d] # Absent
    BY <2>2, <2>5, <1>NothingFilled DEF Insert, Inserts
  <2> QED
    BY <2>4, <2>5
(* The entry that is found names an allocated inode.                       *)
<1>FoundFills.
    ASSUME IInv, EInv, Agree, faults = 0, NEW p \in Procs, Found(p) # {}, CacheFound(p),
           pc[p] \in {"open", "create"}
    PROVE  Filling
  <2> USE <1>FoundFills
  <2>1. PICK e \in Found(p) : e = CHOOSE f \in Found(p) : TRUE
    OBVIOUS
  <2>2. PICK i : i = e.inum
    OBVIOUS
  <2>3. i \in Inums => i \in inodeBitmap
    <3>1. SUFFICES ASSUME i \in Inums
                   PROVE  i \in inodeBitmap
      OBVIOUS
    <3>2. pc[p] \notin {"idle", "resolve", "insert"}
      OBVIOUS
    <3>3. PICK d \in Dirs : d = op[p].dir /\ cache[d] # Absent /\ Parent(p) = Cached(d)
      BY <3>2, ParentIsCached DEF IInv
    <3>4. Parent(p) = itable[d]
      BY <3>3, DirsTyped DEF IInv, Agree, Cached
    <3>5. PICK k \in 0..(itable[d].sz - 1) : e = Entry(itable[d], k)
      BY <2>1, <3>4 DEF Found, Entries
    <3>6. PICK s \in Nat : s = itable[d].sz
      BY DirInode, InodeFields DEF IInv
    <3>7. k \in Nat /\ k < s
      BY <3>5, <3>6, SMTT(30)
    <3>8. 0 \notin Inums
      BY SMTT(30) DEF Inums
    <3>9. e # Empty
      BY <2>2, <3>1, <3>8, EmptyInum
    <3>10. Written(itable, dirents, inodeBitmap)
      BY NoFaults, MakingNow DEF EInv
    <3>11. e = EntryOf(dirents, itable[d], k)
      BY <3>5 DEF Entry, EntryOf
    <3> QED
      BY <2>2, <3>6, <3>7, <3>9, <3>10, <3>11 DEF Written
  <2>4. CASE cache[i] = Absent
    <3>1. PICK x : x = itable[i]
      OBVIOUS
    <3>2. cache' = [cache EXCEPT ![i] = p] /\ inner' = [inner EXCEPT ![i][p] = x]
      BY <2>1, <2>2, <2>4, <3>1 DEF CacheFound
    <3>3. i \in Inums => x \in Inodes
      BY <3>1 DEF IInv, Typed
    <3>4. /\ i \in Inums => cache'[i] = p /\ inner'[i][p] = x
          /\ \A j \in Inums \ {i} : cache'[j] = cache[j] /\ inner'[j] = inner[j]
      BY <3>2, <3>3, Loads, ZenonT(90) DEF IInv
    <3> QED
      BY <2>3, <3>1, <3>4 DEF Filling
  <2>5. CASE cache[i] # Absent
    BY <2>1, <2>2, <2>5, <1>NothingFilled DEF CacheFound
  <2> QED
    BY <2>4, <2>5
<1>EarlyAgree.
    ASSUME IInv, EInv, Agree, NEW p \in Procs, \A q \in Procs : q = p,
           \/ \E d \in Dirs, n \in Names : Open(p, d, n)
           \/ Resolve(p) \/ Insert(p) \/ Lookup(p) \/ CreateFile(p) \/ ReadError(p) \/ Fail(p)
    PROVE  Agree'
  <2> USE <1>EarlyAgree
  <2>1. UNCHANGED <<itable, inodeBitmap>> /\ (faults' = faults \/ faults' = faults + 1)
    BY DEF Open, Resolve, Insert, Lookup, CreateFile, ReadError, Fail, disk, Count
  <2>2. faults' = 0 => faults = 0
    BY <2>1, FaultsStep DEF EInv
  <2>3. pc'[p] \in {"idle", "resolve", "insert", "open", "create", "block", "inode"}
    <3>1. \E w \in {"idle", "resolve", "insert", "open", "create", "block", "inode"} : Goto(p, w)
      BY DEF Open, Resolve, Insert, Lookup, CreateFile, ReadError, Fail, Return
    <3> QED
      BY <3>1 DEF Goto, IInv, Typed
  <2>4. pc'[p] \notin HasInode
    BY <2>3 DEF HasInode
  <2>5. ASSUME faults = 0
        PROVE  Filling
    <3>1. CASE UNCHANGED <<cache, inner>>
      BY <3>1, <1>NothingFilled
    <3>2. CASE Insert(p)
      BY <3>2, <1>InsertFills
    <3>3. CASE Lookup(p) /\ Found(p) # {}
      <4>1. CacheFound(p) /\ pc[p] \in {"open", "create"}
        BY <3>3 DEF Lookup
      <4> QED
        BY <2>5, <3>3, <4>1, <1>FoundFills
    <3>4. CASE CreateFile(p) /\ Found(p) # {}
      <4>1. CacheFound(p) /\ pc[p] \in {"open", "create"}
        BY <3>4 DEF CreateFile, NameTaken
      <4> QED
        BY <2>5, <3>4, <4>1, <1>FoundFills
    <3> QED
      BY <3>1, <3>2, <3>3, <3>4
         DEF Open, Resolve, Lookup, CreateFile, NameTaken, ReadError, Fail, memory
  <2> QED
    BY <2>1, <2>2, <2>4, <2>5, <1>AgreeEarly
<1>QuietlyAgree.
    ASSUME IInv, EInv, Agree, NEW p \in Procs, \A q \in Procs : q = p,
           AllocateBlock(p) \/ FreeBlock(p)
    PROVE  Agree'
  <2> USE <1>QuietlyAgree
  <2>1. /\ UNCHANGED <<itable, inodeBitmap, cache, inner>>
        /\ faults' = faults \/ faults' = faults + 1
    BY DEF AllocateBlock, FreeBlock, memory, Count
  <2>2. pc'[p] \in {"idle", "inode", "done"}
    <3>1. \E w \in {"idle", "inode", "done"} : Goto(p, w)
      BY DEF AllocateBlock, FreeBlock, Return
    <3> QED
      BY <3>1 DEF Goto, IInv, Typed
  <2>3. pc'[p] \notin HasInode
    BY <2>2 DEF HasInode
  <2>4. faults' = 0 => faults = 0
    BY <2>1, FaultsStep DEF EInv
  <2> QED
    BY <2>1, <2>3, <2>4, <1>AgreeEarly, <1>NothingFilled
<1>AllocateInodeAgree.
    ASSUME IInv, EInv, Agree, NEW p \in Procs, \A q \in Procs : q = p, AllocateInode(p)
    PROVE  Agree'
  <2> USE <1>AllocateInodeAgree
  <2>1. /\ UNCHANGED <<itable, cache, inner>> /\ inodeBitmap \subseteq inodeBitmap'
        /\ faults' = faults \/ faults' = faults + 1
    BY DEF AllocateInode, memory, Count
  <2>2. faults' = 0 => faults = 0
    BY <2>1, FaultsStep DEF EInv
  <2>3. CASE Goto(p, "freeBlock")
    <3>1. pc'[p] = "freeBlock"
      BY <2>3 DEF Goto, IInv, Typed
    <3>2. pc'[p] \notin HasInode
      BY <3>1 DEF HasInode
    <3> QED
      BY <2>1, <2>2, <3>2, <1>AgreeEarly, <1>NothingFilled
  <2>4. CASE ~Goto(p, "freeBlock")
    <3>1. PICK i \in Least(FreeInums) : op' = [op EXCEPT ![p].inum = i] /\ Goto(p, "readNew")
      BY <2>4 DEF AllocateInode, NoInode
    <3>2. i \in Nat /\ i \in Inums /\ i \notin inodeBitmap
      BY <3>1, SMTT(30) DEF Least, FreeInums, Inums
    <3>3. PICK o \in Ops : o = op[p]
      BY OpFields DEF IInv
    <3>4. PICK v \in Ops : v = [o EXCEPT !.inum = i] /\ v.inum = i
      BY <3>2, InumSet
    <3>5. op' = [op EXCEPT ![p] = v]
      BY <3>1, <3>3, <3>4
    <3>6. pc'[p] = "readNew" /\ op'[p] = v
      BY <3>1, <3>5 DEF Goto, IInv, Typed
    <3>7. pc'[p] # "freeInode" /\ pc'[p] \notin Undoing
      BY <3>6 DEF Undoing
    <3>8. faults' = 0 => cache[op'[p].inum] = Absent
      BY <2>2, <3>2, <3>4, <3>6 DEF Agree
    <3> QED
      BY <2>1, <2>2, <3>7, <3>8, <1>AgreeLate
  <2> QED
    BY <2>3, <2>4
<1>WritingAgree.
    ASSUME IInv, EInv, Agree, NEW p \in Procs, \A q \in Procs : q = p,
           \/ ReadSector(p) \/ WriteNewInode(p) \/ AddDirent(p)
           \/ ClearDirent(p) \/ WriteUndo(p) \/ FreeInode(p)
    PROVE  Agree'
  <2> USE <1>WritingAgree
  <2>1. /\ UNCHANGED <<cache, inner, op>> /\ (faults' = faults \/ faults' = faults + 1)
        /\ FreeInode(p) \/ inodeBitmap' = inodeBitmap
    BY DEF ReadSector, WriteNewInode, AddDirent, ClearDirent, WriteUndo, FreeInode, memory, disk,
           Count
  <2>2. faults' = 0 => faults = 0
    BY <2>1, FaultsStep DEF EInv
  <2>3. SUFFICES ASSUME faults' = 0
                 PROVE  Agree'
    BY DEF Agree
  <2>4. pc[p] # "freeInode" /\ pc[p] \notin Undoing /\ faults' # faults + 1
    BY <2>2, <2>3, NoFaults DEF Agree, EInv
  <2>5. pc[p] \in HasInode => cache[op'[p].inum] = Absent
    BY <2>1, <2>2, <2>3 DEF Agree
  <2>6. p \in DOMAIN pc
    BY DEF IInv, Typed
  <2>7. CASE ReadSector(p)
    <3>1. PICK ok \in BOOLEAN :
            /\ Count(ok)
            /\ Goto(p, CASE pc[p] = "readNew"    -> IF ok THEN "writeNew" ELSE "freeInode"
                         [] pc[p] = "readParent" -> IF ok THEN "writeParent" ELSE "clearDirent"
                         [] OTHER                -> IF ok THEN "writeUndo" ELSE "done")
      BY <2>7 DEF ReadSector
    <3>2. ok /\ pc[p] \in {"readNew", "readParent"}
      BY <2>4, <2>7, <3>1 DEF ReadSector, Count, Undoing
    <3>3. pc'[p] \in {"writeNew", "writeParent"}
      BY <2>6, <3>1, <3>2, SMTT(30) DEF Goto
    <3>4. pc'[p] # "freeInode" /\ pc'[p] \notin Undoing /\ pc[p] \in HasInode
      BY <3>2, <3>3 DEF Undoing, HasInode
    <3>5. UNCHANGED <<itable, inodeBitmap>>
      BY <2>7 DEF ReadSector, disk
    <3> QED
      BY <2>1, <2>2, <2>5, <3>4, <3>5, <1>AgreeLate
  <2>8. CASE WriteNewInode(p)
    <3>1. pc[p] = "writeNew" /\ UNCHANGED inodeBitmap
      BY <2>8 DEF WriteNewInode
    <3>2. buf[p] = itable /\ pc[p] \in HasInode
      BY <3>1 DEF IInv, Buffers, HasInode
    <3>3. WriteSector(p, op[p].inum, FileInode) /\ Goto(p, "dirent")
      BY <2>4, <2>8 DEF WriteNewInode, Count
    <3>4. PICK i \in Inums : i = op[p].inum
      BY <3>2 DEF IInv, Objects
    <3>5. \A j \in Inums \ {i} : itable'[j] = itable[j]
      BY <3>2, <3>3, <3>4, SectorIs, BlankTyped DEF IInv
    <3>6. \A j \in Inums : cache[j] # Absent => itable'[j] = itable[j]
      BY <2>1, <2>5, <3>2, <3>4, <3>5
    <3>7. pc'[p] = "dirent"
      BY <2>6, <3>3 DEF Goto
    <3>8. pc'[p] # "freeInode" /\ pc'[p] \notin Undoing
      BY <3>7 DEF Undoing
    <3> QED
      BY <2>1, <2>2, <2>5, <3>1, <3>2, <3>6, <3>8, <1>AgreeLate
  <2>9. CASE AddDirent(p)
    <3>1. pc[p] = "dirent" /\ UNCHANGED <<itable, inodeBitmap>> /\ Goto(p, "readParent")
      BY <2>4, <2>9 DEF AddDirent, Count
    <3>2. pc'[p] = "readParent" /\ pc[p] \in HasInode
      BY <2>6, <3>1 DEF Goto, HasInode
    <3>3. pc'[p] # "freeInode" /\ pc'[p] \notin Undoing
      BY <3>2 DEF Undoing
    <3> QED
      BY <2>1, <2>2, <2>5, <3>1, <3>2, <3>3, <1>AgreeLate
  <2>10. ~ClearDirent(p) /\ ~WriteUndo(p) /\ ~FreeInode(p)
    BY <2>4 DEF ClearDirent, WriteUndo, FreeInode, Undoing
  <2> QED
    BY <2>7, <2>8, <2>9, <2>10
(* The cached directory and the cached new file are what was written.      *)
<1>WriteParentAgree.
    ASSUME IInv, EInv, Agree, NEW p \in Procs, \A q \in Procs : q = p, WriteParent(p)
    PROVE  Agree'
  <2> USE <1>WriteParentAgree
  <2>1. faults' = faults \/ faults' = faults + 1
    BY DEF WriteParent, Count
  <2>2. faults' = 0 => faults = 0
    BY <2>1, FaultsStep DEF EInv
  <2>3. SUFFICES ASSUME faults' = 0
                 PROVE  Agree'
    BY DEF Agree
  <2>4. Return(p) /\ pc[p] = "writeParent" /\ UNCHANGED inodeBitmap
    BY <2>2, <2>3, NoFaults DEF WriteParent, Count, EInv
  <2>5. PICK d, n, i, o : d = op[p].dir /\ n = op[p].new /\ i = op[p].inum /\ o = op[p]
    OBVIOUS
  <2>6. /\ i \in Inums \ Dirs /\ cache[d] # Absent
        /\ itable'[d] = n /\ \A j \in Inums \ {d} : itable'[j] = itable[j]
        /\ cache'[i] = p /\ \A j \in Inums \ {i} : cache'[j] = cache[j]
        /\ inner'[d][cache[d]] = n /\ inner'[i][p] = FileInode
        /\ \A j \in Inums \ {d, i} : inner'[j] = inner[j]
    <3>1. Stores(p, d, n, i)
      BY <2>4, <2>5, ParentStored
    <3> QED
      BY <3>1 DEF Stores
  <2>7. d \in Dirs /\ d \in Inums /\ d \in inodeBitmap
    BY <2>5, OpFields, DirsTyped DEF IInv, Objects
  <2>8. pc[p] \in HasInode /\ pc[p] \in Entered \cup {"dirent"}
    BY <2>4 DEF HasInode, Entered
  <2>9. i \in inodeBitmap /\ itable[i] = FileInode
    <3>1. Making(pc[p], op[p], Parent(p), itable, dirents)
      BY <2>2, <2>3, NoFaults, MakingNow DEF EInv
    <3> QED
      BY <2>5, <2>8, <3>1 DEF Making, IInv, Allocated
  <2>10. ASSUME NEW j \in Inums, cache'[j] # Absent
         PROVE  j \in inodeBitmap' /\ inner'[j][cache'[j]] = itable'[j]
    <3>1. CASE j = i
      BY <2>4, <2>6, <2>7, <2>9, <3>1
    <3>2. CASE j = d
      BY <2>4, <2>6, <2>7, <3>2
    <3>3. CASE j # i /\ j # d
      BY <2>2, <2>3, <2>4, <2>6, <2>10, <3>3 DEF Agree
    <3> QED
      BY <3>1, <3>2, <3>3
  <2>11. pc'[p] = "idle" /\ pc'[p] \notin HasInode
    BY <2>4, Returns DEF IInv, HasInode
  <2>12. pc'[p] # "freeInode" /\ pc'[p] \notin Undoing
    BY <2>11, NoInodeYet
  <2> QED
    BY <2>10, <2>11, <2>12 DEF Agree
<1>CrashAgree.
    ASSUME IInv, Crash
    PROVE  Agree'
  <2> USE <1>CrashAgree
  <2>1. UNCHANGED <<inodeBitmap, itable>>
    BY DEF Crash, disk
  <2>2. Dirs \subseteq Inums /\ Root \in Dirs /\ Root \in Inums /\ Root \in inodeBitmap
    BY DirsTyped DEF IInv, Objects
  <2>3. PICK T \in [Inums -> Inodes] : T = itable
    BY DEF IInv, Typed
  <2>4. PICK C, N : /\ C = cache' /\ C = [i \in Inums |-> IF i = Root THEN Mount ELSE Absent]
                    /\ N = inner'
                    /\ N = [i \in Inums |-> [l \in Loaders |->
                                               IF i = Root /\ l = Mount THEN T[i] ELSE Blank]]
    BY <2>3 DEF Crash
  <2>5. /\ \A d \in Inums : C[d] # Absent => d = Root
        /\ C[Root] = Mount /\ N[Root][C[Root]] = T[Root]
    BY <2>2, <2>4, RootMounted
  <2>6. \A p \in Procs : pc'[p] \notin HasInode /\ pc'[p] # "freeInode" /\ pc'[p] \notin Undoing
    <3>1. \A p \in Procs : pc'[p] \notin HasInode
      BY Quiet DEF Crash
    <3> QED
      BY <3>1, NoInodeYet
  <2> QED
    BY <2>1, <2>2, <2>3, <2>4, <2>5, <2>6 DEF Agree
<1> SUFFICES ASSUME OneHart, IInv, EInv, Agree, [Next]_vars
             PROVE  Agree'
  OBVIOUS
<1>1. ASSUME NEW p \in Procs PROVE \A q \in Procs : q = p
  BY DEF OneHart
<1>2. ASSUME NEW p \in Procs,
             \/ \E d \in Dirs, n \in Names : Open(p, d, n)
             \/ Resolve(p) \/ Insert(p) \/ Lookup(p) \/ CreateFile(p) \/ ReadError(p) \/ Fail(p)
      PROVE  Agree'
  BY <1>1, <1>2, <1>EarlyAgree
<1>3. ASSUME NEW p \in Procs,
             \/ AllocateBlock(p) \/ AllocateInode(p) \/ ReadSector(p) \/ WriteNewInode(p)
             \/ AddDirent(p) \/ WriteParent(p) \/ ClearDirent(p) \/ WriteUndo(p)
             \/ FreeInode(p) \/ FreeBlock(p)
      PROVE  Agree'
  BY <1>1, <1>3, <1>QuietlyAgree, <1>AllocateInodeAgree, <1>WritingAgree, <1>WriteParentAgree
<1>4. CASE Crash
  BY <1>4, <1>CrashAgree
<1>5. CASE UNCHANGED vars
  <2>1. UNCHANGED <<inodeBitmap, itable, cache, inner, pc, op, faults>>
    BY <1>5 DEF vars, disk, memory
  <2> QED
    BY <2>1 DEF Agree
<1> QED
  BY <1>2, <1>3, <1>4, <1>5 DEF Next

(* With one hart and no failed transfer, a cached inode is what the disk   *)
(* holds: read_inode caches what it read, and create_file updates the      *)
(* cached directory to what it wrote.                                      *)
THEOREM CacheCorrect == OneHart => (Spec /\ DiskSound => []CacheMatchesDisk)
<1> SUFFICES ASSUME OneHart
             PROVE  Spec /\ DiskSound => []CacheMatchesDisk
  OBVIOUS
<1>1. Init /\ DiskSound => IInv /\ EInv /\ Agree
  BY InitEntries, InitAgree
<1>2. IInv /\ EInv /\ Agree /\ [Next]_vars => (IInv /\ EInv /\ Agree)'
  BY NextKept, NextEntries, NextAgree
<1>3. Agree => CacheMatchesDisk
  BY DEF Agree, CacheMatchesDisk
<1> QED
  BY <1>1, <1>2, <1>3, PTL DEF Spec

-----------------------------------------------------------------------------
LEMMA InitBalanced ==
  ASSUME Init, NothingLeaks
  PROVE  Balanced
<1>1. \A p \in Procs : pc[p] = "idle"
  BY DEF Init
<1>2. faults = 0 /\ ~crashed
  BY DEF Init
<1>3. inodeBitmap = Used /\ dataBitmap = Held
  BY <1>1, <1>2 DEF NothingLeaks, Used, Held
<1>4. "idle" \notin HasInode /\ "idle" \notin HoldsBlock
  BY SMTT(30) DEF HasInode, HoldsBlock
<1> QED
  BY <1>1, <1>3, <1>4 DEF Balanced, Balance

LEMMA NextBalanced == OneHart /\ IInv /\ IInv' /\ EInv /\ Agree /\ Balanced /\ [Next]_vars => Balanced'
(* What is allocated.                                                      *)
<1>UsedIs.
    ASSUME IInv, NEW i
    PROVE  i \in Used <=> \/ i \in Dirs
                          \/ \E d \in Dirs, k \in Nat :
                               k < itable[d].sz /\ i = EntryOf(dirents, itable[d], k).inum
  <2> USE <1>UsedIs
  <2>1. \A d \in Dirs : itable[d].sz \in Nat
    BY DirInode, InodeFields DEF IInv
  <2>2. \A d \in Dirs : \A k : k \in 0..(itable[d].sz - 1) <=> k \in Nat /\ k < itable[d].sz
    BY <2>1, SMTT(30)
  <2>3. \A d \in Dirs : \A e :
          e \in Entries(itable[d]) <=>
            \E k \in Nat : k < itable[d].sz /\ e = EntryOf(dirents, itable[d], k)
    BY <2>2 DEF Entries, Entry, EntryOf
  <2>4. \A e : e \in UNION {Entries(itable[d]) : d \in Dirs} <=>
                \E d \in Dirs : e \in Entries(itable[d])
    OBVIOUS
  <2>5. i \in Used <=> \/ i \in Dirs
                      \/ \E e \in UNION {Entries(itable[d]) : d \in Dirs} : i = e.inum
    BY DEF Used
  <2>6. i \in Used <=> i \in Dirs \/ \E d \in Dirs : \E e \in Entries(itable[d]) : i = e.inum
    BY <2>4, <2>5
  <2>7. ASSUME NEW d \in Dirs
        PROVE  (\E e \in Entries(itable[d]) : i = e.inum) <=>
               \E k \in Nat : k < itable[d].sz /\ i = EntryOf(dirents, itable[d], k).inum
    <3>1. PICK D, x, E : D = dirents /\ x = itable[d] /\ E = Entries(itable[d])
      OBVIOUS
    <3>2. \A e : e \in E <=> \E k \in Nat : k < x.sz /\ e = EntryOf(D, x, k)
      BY <2>3, <3>1
    <3>3. ASSUME NEW e \in E, i = e.inum
          PROVE  \E k \in Nat : k < x.sz /\ i = EntryOf(D, x, k).inum
      BY <3>2, <3>3
    <3>4. ASSUME NEW k \in Nat, k < x.sz, i = EntryOf(D, x, k).inum
          PROVE  \E e \in E : i = e.inum
      BY <3>2, <3>4
    <3> QED
      BY <3>1, <3>3, <3>4
  <2> QED
    BY <2>6, <2>7
<1>UsedNext.
    ASSUME IInv', NEW i
    PROVE  i \in Used' <=> \/ i \in Dirs
                           \/ \E d \in Dirs, k \in Nat :
                                k < itable'[d].sz /\ i = EntryOf(dirents', itable'[d], k).inum
  <2> USE <1>UsedNext
  <2>1. \A d \in Dirs : itable'[d].sz \in Nat
    <3>1. SUFFICES ASSUME NEW d \in Dirs
                   PROVE  itable'[d].sz \in Nat
      OBVIOUS
    <3>2. itable'[d] \in Inodes
      BY DEF IInv, Typed, Objects
    <3> QED
      BY <3>2, InodeFields
  <2>2. \A d \in Dirs : \A k : k \in 0..(itable'[d].sz - 1) <=> k \in Nat /\ k < itable'[d].sz
    BY <2>1, SMTT(30)
  <2>3. \A d \in Dirs : \A e :
          e \in Entries(itable[d])' <=>
            \E k \in Nat : k < itable'[d].sz /\ e = EntryOf(dirents', itable'[d], k)
    BY <2>2 DEF Entries, Entry, EntryOf
  <2>4. \A e : e \in UNION {Entries(itable[d])' : d \in Dirs} <=>
                \E d \in Dirs : e \in Entries(itable[d])'
    OBVIOUS
  <2>5. i \in Used' <=> \/ i \in Dirs
                      \/ \E e \in UNION {Entries(itable[d])' : d \in Dirs} : i = e.inum
    BY DEF Used
  <2>6. i \in Used' <=> i \in Dirs \/ \E d \in Dirs : \E e \in Entries(itable[d])' : i = e.inum
    BY <2>4, <2>5
  <2>7. ASSUME NEW d \in Dirs
        PROVE  (\E e \in Entries(itable[d])' : i = e.inum) <=>
               \E k \in Nat : k < itable'[d].sz /\ i = EntryOf(dirents', itable'[d], k).inum
    <3>1. PICK D, x, E : D = dirents' /\ x = itable'[d] /\ E = Entries(itable[d])'
      OBVIOUS
    <3>2. \A e : e \in E <=> \E k \in Nat : k < x.sz /\ e = EntryOf(D, x, k)
      BY <2>3, <3>1
    <3>3. ASSUME NEW e \in E, i = e.inum
          PROVE  \E k \in Nat : k < x.sz /\ i = EntryOf(D, x, k).inum
      BY <3>2, <3>3
    <3>4. ASSUME NEW k \in Nat, k < x.sz, i = EntryOf(D, x, k).inum
          PROVE  \E e \in E : i = e.inum
      BY <3>2, <3>4
    <3> QED
      BY <3>1, <3>3, <3>4
  <2> QED
    BY <2>6, <2>7
<1>UsedSame.
    ASSUME IInv, IInv', Fewer(itable, dirents, itable', dirents'),
           Fewer(itable', dirents', itable, dirents)
    PROVE  Used' = Used
  <2> USE <1>UsedSame
  <2>1. SUFFICES ASSUME NEW i
                 PROVE  i \in Used' <=> i \in Used
    OBVIOUS
  <2> QED
    BY <1>UsedIs, <1>UsedNext DEF Fewer
<1>HeldSame.
    ASSUME Used' = Used, UNCHANGED pointers, \A i \in Used : itable'[i] = itable[i]
    PROVE  Held' = Held
  <2> USE <1>HeldSame
  <2>1. PICK U, P : U = Used /\ U = Used' /\ P = pointers /\ P = pointers'
    OBVIOUS
  <2>2. ASSUME NEW i \in U
        PROVE  Owned(itable[i])' = Owned(itable[i])
    <3>1. PICK x : x = itable[i] /\ x = itable'[i]
      BY <2>1
    <3> QED
      BY <2>1, <3>1 DEF Owned
  <2>3. UNION {Owned(itable[i])' : i \in U} = UNION {Owned(itable[i]) : i \in U}
    BY <2>2
  <2> QED
    BY <2>1, <2>3 DEF Held
<1>NothingHeld.
    ASSUME UNCHANGED <<itable, dirents, pointers>>
    PROVE  Used' = Used /\ Held' = Held
  <2> USE <1>NothingHeld
  <2>1. PICK T, D : T = itable /\ T = itable' /\ D = dirents /\ D = dirents'
    OBVIOUS
  <2>2. \A d \in Dirs : Entries(itable[d])' = Entries(itable[d])
    BY <2>1 DEF Entries, Entry
  <2>3. UNION {Entries(itable[d])' : d \in Dirs} = UNION {Entries(itable[d]) : d \in Dirs}
    BY <2>2
  <2>4. Used' = Used
    BY <2>3 DEF Used
  <2> QED
    BY <2>4, <1>HeldSame
<1>BalancedNow.
    ASSUME Balanced, faults = 0, ~crashed, NEW p \in Procs
    PROVE  Balance(pc[p], op[p], Used, Held, inodeBitmap, dataBitmap)
  BY <1>BalancedNow DEF Balanced
<1>BalancedStep.
    ASSUME NEW p \in Procs, \A q \in Procs : q = p,
           faults' = 0 /\ ~crashed' => Balance(pc[p], op[p], Used, Held, inodeBitmap, dataBitmap)'
    PROVE  Balanced'
  <2> USE <1>BalancedStep
  <2>1. SUFFICES ASSUME faults' = 0, ~crashed'
                 PROVE  /\ NothingLeaks'
                        /\ \A q \in Procs :
                             Balance(pc[q], op[q], Used, Held, inodeBitmap, dataBitmap)'
    BY DEF Balanced
  <2>2. Balance(pc[p], op[p], Used, Held, inodeBitmap, dataBitmap)'
    BY <2>1
  <2>3. NothingLeaks'
    <3>1. SUFFICES ASSUME pc'[p] = "idle"
                   PROVE  inodeBitmap' = Used' /\ dataBitmap' = Held'
      BY DEF NothingLeaks, Used, Held
    <3>2. pc'[p] \notin HasInode /\ pc'[p] \notin HoldsBlock
      BY <3>1 DEF HasInode, HoldsBlock
    <3> QED
      BY <2>2, <3>2 DEF Balance
  <2> QED
    BY <2>2, <2>3
(* Steps that hold neither an inode nor a block before and after.          *)
<1>FreeBalanced.
    ASSUME IInv, Balanced, NEW p \in Procs, \A q \in Procs : q = p,
           UNCHANGED <<itable, dirents, pointers, inodeBitmap, dataBitmap, crashed>>,
           faults' = 0 => faults = 0, pc[p] \notin HoldsBlock,
           pc'[p] \notin HasInode, pc'[p] \in HoldsBlock => op'[p].blk = 0
    PROVE  Balanced'
  <2> USE <1>FreeBalanced
  <2>1. SUFFICES ASSUME faults' = 0, ~crashed'
                 PROVE  Balance(pc[p], op[p], Used, Held, inodeBitmap, dataBitmap)'
    BY <1>BalancedStep
  <2>2. Balance(pc[p], op[p], Used, Held, inodeBitmap, dataBitmap)
    BY <2>1, <1>BalancedNow
  <2>3. pc[p] \notin HasInode
    BY DEF HoldsBlock
  <2>4. inodeBitmap = Used /\ dataBitmap = Held
    BY <2>2, <2>3 DEF Balance
  <2>5. inodeBitmap' = Used' /\ dataBitmap' = Held'
    BY <2>4, <1>NothingHeld
  <2> QED
    BY <2>5 DEF Balance
<1>EarlyBalanced.
    ASSUME IInv, EInv, Balanced, NEW p \in Procs, \A q \in Procs : q = p,
           \/ \E d \in Dirs, n \in Names : Open(p, d, n)
           \/ Resolve(p) \/ Insert(p) \/ Lookup(p) \/ CreateFile(p) \/ ReadError(p) \/ Fail(p)
    PROVE  Balanced'
  <2> USE <1>EarlyBalanced
  <2>1. /\ UNCHANGED <<itable, dirents, pointers, inodeBitmap, dataBitmap, crashed>>
        /\ faults' = faults \/ faults' = faults + 1
        /\ pc[p] \in {"idle", "resolve", "insert", "open", "create", "done"}
    BY DEF Open, Resolve, Insert, Lookup, CreateFile, ReadError, Fail, disk, image, Count
  <2>2. faults' = 0 => faults = 0
    BY <2>1, FaultsStep DEF EInv
  <2>3. pc[p] \notin HoldsBlock
    BY <2>1, SMTT(30) DEF HoldsBlock, HasInode
  <2>4. CASE CreateFile(p) /\ ~Return(p)
    <3>1. PICK x : /\ op' = [op EXCEPT ![p].new = x]
                   /\ Goto(p, IF Parent(p).blocks[Target(Parent(p))] = 0 THEN "block" ELSE "inode")
      BY <2>4 DEF CreateFile, Target
    <3>2. pc[p] = "create" /\ pc'[p] \in {"block", "inode"}
      BY <2>4, <3>1 DEF CreateFile, Goto, IInv, Typed
    <3>3. op'[p].blk = op[p].blk
      <4>1. PICK o \in Ops : o = op[p]
        BY OpFields DEF IInv
      <4>2. op'[p] = [o EXCEPT !.new = x]
        BY <3>1, <4>1 DEF IInv, Typed
      <4>3. [o EXCEPT !.new = x].blk = o.blk
        BY SMTT(30) DEF Ops
      <4> QED
        BY <4>1, <4>2, <4>3
    <3>4. op[p].blk = 0
      BY <3>2, EarlyBlk, NotWriting
    <3>5. pc'[p] \notin HasInode
      BY <3>2 DEF HasInode
    <3> QED
      BY <2>1, <2>2, <2>3, <3>3, <3>4, <3>5, <1>FreeBalanced
  <2>5. CASE ~(CreateFile(p) /\ ~Return(p))
    <3>1. \E w \in {"idle", "resolve", "insert", "open", "create"} : Goto(p, w)
      BY <2>5 DEF Open, Resolve, Insert, Lookup, CreateFile, ReadError, Fail, Return
    <3>2. pc'[p] \in {"idle", "resolve", "insert", "open", "create"}
      BY <3>1 DEF Goto, IInv, Typed
    <3>3. pc'[p] \notin HasInode /\ pc'[p] \notin HoldsBlock
      BY <3>2, SMTT(30) DEF HasInode, HoldsBlock
    <3> QED
      BY <2>1, <2>2, <2>3, <3>3, <1>FreeBalanced
  <2> QED
    BY <2>4, <2>5
<1>AllocateBlockBalanced.
    ASSUME IInv, EInv, Balanced, NEW p \in Procs, \A q \in Procs : q = p, AllocateBlock(p)
    PROVE  Balanced'
  <2> USE <1>AllocateBlockBalanced
  <2>1. /\ UNCHANGED <<itable, dirents, pointers, inodeBitmap, crashed>> /\ pc[p] = "block"
        /\ faults' = faults \/ faults' = faults + 1
    BY DEF AllocateBlock, image, Count
  <2>2. SUFFICES ASSUME faults' = 0, ~crashed'
                 PROVE  Balance(pc[p], op[p], Used, Held, inodeBitmap, dataBitmap)'
    BY <1>BalancedStep
  <2>3. faults = 0 /\ ~crashed /\ faults' # faults + 1
    BY <2>1, <2>2, FaultsStep, NoFaults DEF EInv
  <2>4. pc[p] \notin HoldsBlock /\ pc[p] \notin HasInode
    BY <2>1, SMTT(30) DEF HoldsBlock, HasInode
  <2>5. inodeBitmap = Used /\ dataBitmap = Held
    BY <2>3, <2>4, <1>BalancedNow DEF Balance
  <2>6. Used' = Used /\ Held' = Held
    BY <2>1, <1>NothingHeld
  <2>7. CASE Return(p)
    <3>1. pc'[p] = "idle" /\ dataBitmap' = dataBitmap
      BY <2>3, <2>7, Returns DEF IInv, AllocateBlock, Count, Return, Goto, Typed
    <3>2. pc'[p] \notin HoldsBlock /\ pc'[p] \notin HasInode
      BY <3>1, SMTT(30) DEF HoldsBlock, HasInode
    <3> QED
      BY <2>1, <2>5, <2>6, <3>1, <3>2 DEF Balance
  <2>8. CASE ~Return(p)
    <3>1. PICK bit \in (0..(NBLOCKS - DATA_BLOCK_START - 1)) \ dataBitmap, b \in Nat, v \in Ops,
               g \in [Indices -> Nat] :
            /\ b = DATA_BLOCK_START + bit /\ dataBitmap' = dataBitmap \cup {bit}
            /\ op' = [op EXCEPT ![p] = v] /\ v.blk = b
            /\ v.obj = op[p].obj /\ v.dir = op[p].dir /\ v.name = op[p].name
            /\ v.new.sz = op[p].new.sz /\ v.new.ty = op[p].new.ty
            /\ v.new.indirect = op[p].new.indirect
            /\ g = op[p].new.blocks
            /\ v.new.blocks = [g EXCEPT ![Target(Parent(p))] = b]
            /\ Goto(p, "inode") /\ UNCHANGED buf
      BY <2>8, BlockTaken DEF IInv
    <3>2. op'[p] = v /\ pc'[p] = "inode"
      BY <3>1 DEF Goto, IInv, Typed
    <3>3. b # 0 /\ b - DATA_BLOCK_START = bit
      BY <3>1, VsfsAssumption, SMTT(30)
    <3>4. pc'[p] \in HoldsBlock /\ pc'[p] \notin HasInode
      BY <3>2, SMTT(30) DEF HoldsBlock, HasInode
    <3>5. PICK x, U, H : x = pc'[p] /\ U = Used' /\ H = Held'
      OBVIOUS
    <3>6. inodeBitmap' = U /\ dataBitmap' = H \cup {bit} /\ bit \notin H
      BY <2>1, <2>5, <2>6, <3>1, <3>5
    <3>7. Balance(x, v, U, H, inodeBitmap', dataBitmap')
      BY <3>1, <3>3, <3>4, <3>5, <3>6 DEF Balance
    <3> QED
      BY <3>2, <3>5, <3>7
  <2> QED
    BY <2>7, <2>8
<1>AllocateInodeBalanced.
    ASSUME IInv, EInv, Balanced, NEW p \in Procs, \A q \in Procs : q = p, AllocateInode(p)
    PROVE  Balanced'
  <2> USE <1>AllocateInodeBalanced
  <2>1. /\ UNCHANGED <<itable, dirents, pointers, dataBitmap, crashed>> /\ pc[p] = "inode"
        /\ faults' = faults \/ faults' = faults + 1
    BY DEF AllocateInode, image, Count
  <2>2. SUFFICES ASSUME faults' = 0, ~crashed'
                 PROVE  Balance(pc[p], op[p], Used, Held, inodeBitmap, dataBitmap)'
    BY <1>BalancedStep
  <2>3. faults = 0 /\ ~crashed /\ faults' # faults + 1
    BY <2>1, <2>2, FaultsStep, NoFaults DEF EInv
  <2>4. pc[p] \in HoldsBlock /\ pc[p] \notin HasInode
    BY <2>1, SMTT(30) DEF HoldsBlock, HasInode
  <2>5. Balance(pc[p], op[p], Used, Held, inodeBitmap, dataBitmap) /\ inodeBitmap = Used
    BY <2>3, <2>4, <1>BalancedNow DEF Balance
  <2>6. Used' = Used /\ Held' = Held
    BY <2>1, <1>NothingHeld
  <2>7. CASE Goto(p, "freeBlock") /\ UNCHANGED <<inodeBitmap, op>>
    <3>1. pc'[p] = "freeBlock"
      BY <2>7 DEF Goto, IInv, Typed
    <3>2. pc'[p] \in HoldsBlock /\ pc'[p] \notin HasInode
      BY <3>1, SMTT(30) DEF HoldsBlock, HasInode
    <3> QED
      BY <2>1, <2>4, <2>5, <2>6, <2>7, <3>2 DEF Balance
  <2>8. CASE ~(Goto(p, "freeBlock") /\ UNCHANGED <<inodeBitmap, op>>)
    <3>1. PICK i \in Least(FreeInums) :
            /\ op' = [op EXCEPT ![p].inum = i] /\ Goto(p, "readNew")
            /\ inodeBitmap' = inodeBitmap \cup {i}
      BY <2>3, <2>8 DEF AllocateInode, NoInode, Count
    <3>2. i \in Nat
      BY <3>1, SMTT(30) DEF Least, FreeInums, Inums
    <3>3. PICK o \in Ops : o = op[p]
      BY OpFields DEF IInv
    <3>4. PICK v \in Ops : v = [o EXCEPT !.inum = i] /\ v.inum = i /\ v.blk = o.blk
      BY <3>2, InumSet
    <3>5. op' = [op EXCEPT ![p] = v]
      BY <3>1, <3>3, <3>4
    <3>6. pc'[p] = "readNew" /\ op'[p] = v
      BY <3>1, <3>5 DEF Goto, IInv, Typed
    <3>7. pc'[p] \in HoldsBlock /\ pc'[p] \in HasInode
      BY <3>6, SMTT(30) DEF HoldsBlock, HasInode
    <3>8. PICK x, U, H, A : x = pc'[p] /\ U = Used' /\ H = Held' /\ A = dataBitmap'
      OBVIOUS
    <3>9. inodeBitmap' = U \cup {v.inum}
      BY <2>5, <2>6, <3>1, <3>4, <3>8
    <3>10. IF v.blk # 0
           THEN A = H \cup {v.blk - DATA_BLOCK_START} /\ v.blk - DATA_BLOCK_START \notin H
           ELSE A = H
      <4>1. A = dataBitmap /\ H = Held
        BY <2>1, <2>6, <3>8
      <4>2. IF o.blk # 0
            THEN A = H \cup {o.blk - DATA_BLOCK_START} /\ o.blk - DATA_BLOCK_START \notin H
            ELSE A = H
        BY <2>4, <2>5, <3>3, <4>1 DEF Balance
      <4> QED
        BY <3>4, <4>2
    <3>11. Balance(x, v, U, H, inodeBitmap', A)
      BY <3>7, <3>8, <3>9, <3>10 DEF Balance
    <3> QED
      BY <3>6, <3>8, <3>11
  <2> QED
    BY <2>7, <2>8
(* The block that is given back is no file's.                              *)
<1>FreeBlockBalanced.
    ASSUME IInv, EInv, Balanced, NEW p \in Procs, \A q \in Procs : q = p, FreeBlock(p)
    PROVE  Balanced'
  <2> USE <1>FreeBlockBalanced
  <2>1. /\ UNCHANGED <<itable, dirents, pointers, inodeBitmap, op, crashed>> /\ pc[p] = "freeBlock"
        /\ faults' = faults \/ faults' = faults + 1
    BY DEF FreeBlock, image, Count
  <2>2. SUFFICES ASSUME faults' = 0, ~crashed'
                 PROVE  Balance(pc[p], op[p], Used, Held, inodeBitmap, dataBitmap)'
    BY <1>BalancedStep
  <2>3. faults = 0 /\ ~crashed /\ faults' # faults + 1
    BY <2>1, <2>2, FaultsStep, NoFaults DEF EInv
  <2>4. pc[p] \in HoldsBlock /\ pc[p] \notin HasInode
    BY <2>1, SMTT(30) DEF HoldsBlock, HasInode
  <2>5. Balance(pc[p], op[p], Used, Held, inodeBitmap, dataBitmap) /\ inodeBitmap = Used
    BY <2>3, <2>4, <1>BalancedNow DEF Balance
  <2>6. Used' = Used /\ Held' = Held
    BY <2>1, <1>NothingHeld
  <2>7. pc'[p] = "done"
    BY DEF FreeBlock, Goto, IInv, Typed
  <2>8. pc'[p] \notin HoldsBlock /\ pc'[p] \notin HasInode
    BY <2>7, SMTT(30) DEF HoldsBlock, HasInode
  <2>9. dataBitmap' = Held
    <3>1. CASE op[p].blk = 0
      BY <2>5, <3>1 DEF FreeBlock, Balance
    <3>2. CASE op[p].blk # 0
      <4>1. dataBitmap' = dataBitmap \ {op[p].blk - DATA_BLOCK_START}
        BY <2>3, <3>2 DEF FreeBlock, Count
      <4>2. /\ dataBitmap = Held \cup {op[p].blk - DATA_BLOCK_START}
            /\ op[p].blk - DATA_BLOCK_START \notin Held
        BY <2>4, <2>5, <3>2 DEF Balance
      <4> QED
        BY <4>1, <4>2
    <3> QED
      BY <3>1, <3>2
  <2> QED
    BY <2>1, <2>5, <2>6, <2>8, <2>9 DEF Balance
(* The inode of a creation is not in use, and its entry is not visible.    *)
<1>NotInUse.
    ASSUME IInv, EInv, Agree, faults = 0, NEW p \in Procs, \A q \in Procs : q = p,
           pc[p] \in HasInode
    PROVE  op[p].inum \notin Used /\ itable[op[p].dir].sz = Parent(p).sz
  <2> USE <1>NotInUse
  <2>1. faults <= 2 /\ ~(faults >= 2)
    BY NoFaults DEF EInv
  <2>2. pc[p] \in Writing \ Undoing
    BY DEF Agree, Writing
  <2>3. itable[op[p].dir].sz = Parent(p).sz
    BY <2>1, <2>2, NotTorn
  <2>4. op[p].inum \notin Dirs /\ Making(pc[p], op[p], Parent(p), itable, dirents)
    BY <2>1, MakingNow DEF IInv, Objects
  <2>5. ASSUME NEW d \in Dirs, NEW k \in Nat, k < itable[d].sz,
               op[p].inum = EntryOf(dirents, itable[d], k).inum
        PROVE  FALSE
    <3>1. d = op[p].dir /\ k = Parent(p).sz
      BY <2>4, <2>5 DEF Making
    <3>2. k < k
      BY <2>3, <2>5, <3>1
    <3> QED
      BY <3>2, SMTT(30)
  <2> QED
    BY <2>3, <2>4, <2>5, <1>UsedIs
<1>KeepsBalanced.
    ASSUME Balanced, NEW p \in Procs, \A q \in Procs : q = p,
           UNCHANGED <<inodeBitmap, dataBitmap, op, crashed>>, faults' = 0 => faults = 0,
           faults' = 0 => pc[p] \in HasInode /\ pc'[p] \in HasInode /\ Used' = Used /\ Held' = Held
    PROVE  Balanced'
  <2> USE <1>KeepsBalanced
  <2>1. SUFFICES ASSUME faults' = 0, ~crashed'
                 PROVE  Balance(pc[p], op[p], Used, Held, inodeBitmap, dataBitmap)'
    BY <1>BalancedStep
  <2>2. Balance(pc[p], op[p], Used, Held, inodeBitmap, dataBitmap)
    BY <2>1, <1>BalancedNow
  <2>3. pc[p] \in HasInode /\ pc'[p] \in HasInode /\ pc[p] \in HoldsBlock /\ pc'[p] \in HoldsBlock
    BY <2>1 DEF HoldsBlock
  <2>4. PICK w, x, o, U, H, I, A :
          /\ w = pc[p] /\ x = pc'[p] /\ o = op[p] /\ o = op'[p] /\ U = Used /\ U = Used'
          /\ H = Held /\ H = Held' /\ I = inodeBitmap /\ I = inodeBitmap'
          /\ A = dataBitmap /\ A = dataBitmap'
    BY <2>1
  <2>5. Balance(x, o, U, H, I, A)
    BY <2>2, <2>3, <2>4 DEF Balance
  <2> QED
    BY <2>4, <2>5
<1>WritingBalanced.
    ASSUME IInv, IInv', EInv, Agree, Balanced, NEW p \in Procs, \A q \in Procs : q = p,
           \/ ReadSector(p) \/ WriteNewInode(p) \/ AddDirent(p)
           \/ ClearDirent(p) \/ WriteUndo(p) \/ FreeInode(p)
    PROVE  Balanced'
  <2> USE <1>WritingBalanced
  <2>1. /\ UNCHANGED <<dataBitmap, pointers, op, crashed>> /\ (faults' = faults \/ faults' = faults + 1)
        /\ FreeInode(p) \/ inodeBitmap' = inodeBitmap
    BY DEF ReadSector, WriteNewInode, AddDirent, ClearDirent, WriteUndo, FreeInode, memory, disk,
           image, Count
  <2>2. faults' = 0 => faults = 0
    BY <2>1, FaultsStep DEF EInv
  <2>3. SUFFICES ASSUME faults' = 0, ~crashed'
                 PROVE  Balanced'
    BY DEF Balanced
  <2>4. pc[p] # "freeInode" /\ pc[p] \notin Undoing /\ faults' # faults + 1
    BY <2>2, <2>3, NoFaults DEF Agree, EInv
  <2>5. ~ClearDirent(p) /\ ~WriteUndo(p) /\ ~FreeInode(p)
    BY <2>4 DEF ClearDirent, WriteUndo, FreeInode, Undoing
  <2>6. p \in DOMAIN pc
    BY DEF IInv, Typed
  <2>7. CASE ReadSector(p)
    <3>1. PICK ok \in BOOLEAN :
            /\ Count(ok)
            /\ Goto(p, CASE pc[p] = "readNew"    -> IF ok THEN "writeNew" ELSE "freeInode"
                         [] pc[p] = "readParent" -> IF ok THEN "writeParent" ELSE "clearDirent"
                         [] OTHER                -> IF ok THEN "writeUndo" ELSE "done")
      BY <2>7 DEF ReadSector
    <3>2. ok /\ pc[p] \in {"readNew", "readParent"}
      BY <2>4, <2>7, <3>1 DEF ReadSector, Count, Undoing
    <3>3. pc'[p] \in {"writeNew", "writeParent"}
      BY <2>6, <3>1, <3>2, SMTT(30) DEF Goto
    <3>4. pc[p] \in HasInode /\ pc'[p] \in HasInode
      BY <3>2, <3>3 DEF HasInode
    <3>5. Used' = Used /\ Held' = Held
      BY <2>1, <2>7, <1>NothingHeld DEF ReadSector, disk
    <3> QED
      BY <2>1, <2>2, <2>5, <3>4, <3>5, <1>KeepsBalanced
  <2>8. CASE WriteNewInode(p)
    <3>1. pc[p] = "writeNew" /\ UNCHANGED dirents
      BY <2>8 DEF WriteNewInode
    <3>2. buf[p] = itable /\ pc[p] \in HasInode
      BY <3>1 DEF IInv, Buffers, HasInode
    <3>3. WriteSector(p, op[p].inum, FileInode) /\ Goto(p, "dirent")
      BY <2>4, <2>8 DEF WriteNewInode, Count
    <3>4. PICK i \in Inums \ Dirs : i = op[p].inum /\ i \notin Used
      BY <2>2, <2>3, <3>2, <1>NotInUse DEF IInv, Objects
    <3>5. \A j \in Inums \ {i} : itable'[j] = itable[j]
      BY <3>2, <3>3, <3>4, SectorIs, BlankTyped DEF IInv
    <3>6. \A d \in Dirs : itable'[d] = itable[d]
      BY <3>4, <3>5, DirsTyped DEF IInv
    <3>7. Used' = Used
      BY <3>1, <3>6, <1>UsedSame DEF Fewer
    <3>8. Held' = Held
      <4>1. Used \subseteq Inums
        BY <2>1, <2>2, <2>3, <1>BalancedNow DEF Balance, IInv, Typed
      <4>2. \A j \in Used : itable'[j] = itable[j]
        BY <3>4, <3>5, <4>1
      <4> QED
        BY <2>1, <3>7, <4>2, <1>HeldSame
    <3>9. pc'[p] = "dirent" /\ pc'[p] \in HasInode
      BY <2>6, <3>3 DEF Goto, HasInode
    <3> QED
      BY <2>1, <2>2, <2>5, <3>2, <3>7, <3>8, <3>9, <1>KeepsBalanced
  <2>9. CASE AddDirent(p)
    <3>1. pc[p] = "dirent" /\ UNCHANGED itable /\ Goto(p, "readParent")
      BY <2>4, <2>9 DEF AddDirent, Count
    <3>2. pc'[p] = "readParent" /\ pc[p] \in HasInode /\ pc[p] \in Writing \ {"block"}
      BY <2>6, <3>1 DEF Goto, HasInode, Writing
    <3>3. pc'[p] \in HasInode
      BY <3>2 DEF HasInode
    <3>4. PICK e, d, c : /\ e = [inum |-> op[p].inum, name |-> op[p].name] /\ d = op[p].dir
                         /\ c = Parent(p)
      OBVIOUS
    <3>5. UNCHANGED dirents \/ WriteDirent(p, e)
      BY <2>9, <3>4 DEF AddDirent
    <3>6. \A h \in Dirs, k \in Nat : k < itable[h].sz =>
            \/ EntryOf(dirents', itable[h], k) = EntryOf(dirents, itable[h], k)
            \/ h = d /\ k = c.sz /\ EntryOf(dirents', itable[h], k) = e
      BY <3>2, <3>4, <3>5, SlotWritten, SMTT(30)
    <3>7. itable[d].sz = c.sz
      BY <2>2, <2>3, <3>2, <3>4, <1>NotInUse
    <3>8. \A k \in Nat : ~(k < k)
      BY SMTT(30)
    <3>9. \A h \in Dirs, k \in Nat : k < itable[h].sz =>
            EntryOf(dirents', itable[h], k) = EntryOf(dirents, itable[h], k)
      BY <3>6, <3>7, <3>8
    <3>10. Used' = Used
      BY <3>1, <3>9, <1>UsedSame DEF Fewer
    <3>11. Held' = Held
      BY <2>1, <3>1, <3>10, <1>HeldSame
    <3> QED
      BY <2>1, <2>2, <2>5, <3>2, <3>3, <3>10, <3>11, <1>KeepsBalanced
  <2> QED
    BY <2>5, <2>7, <2>8, <2>9
<1>OwnedFile.
    Owned(FileInode) = {}
  <2>1. FileInode.blocks = NoBlocks /\ FileInode.indirect = 0
    BY SMTT(30) DEF FileInode, Blank
  <2>2. \A k \in DOMAIN NoBlocks : NoBlocks[k] = 0
    BY DEF NoBlocks
  <2> QED
    BY <2>1, <2>2 DEF Owned
<1>OwnedGrows.
    ASSUME NEW c \in Inodes, NEW n \in Inodes, NEW b, Grown(c, n, b)
    PROVE  Owned(n) = Owned(c) \cup ({b} \ {0})
  <2> USE <1>OwnedGrows
  <2>1. /\ DOMAIN c.blocks = Indices /\ DOMAIN n.blocks = Indices /\ n.indirect = c.indirect
        /\ Target(c) \in Indices
    BY InodeFields DEF Grown
  <2>2. {n.blocks[k] : k \in Indices} \ {0} = ({c.blocks[k] : k \in Indices} \ {0}) \cup ({b} \ {0})
    <3>1. SUFFICES ASSUME NEW y, y # 0
                   PROVE  (\E k \in Indices : y = n.blocks[k]) <=>
                            (\E k \in Indices : y = c.blocks[k]) \/ y = b
      OBVIOUS
    <3>2. PICK t : t = Target(c)
      OBVIOUS
    <3>3. CASE b = 0
      <4>1. \A k \in Indices : n.blocks[k] = c.blocks[k]
        BY <3>3 DEF Grown
      <4> QED
        BY <3>1, <3>3, <4>1
    <3>4. CASE b # 0
      <4>1. /\ \A k \in Indices \ {t} : n.blocks[k] = c.blocks[k]
            /\ n.blocks[t] = b /\ c.blocks[t] = 0 /\ t \in Indices
        BY <3>2, <3>4 DEF Grown
      <4> QED
        BY <3>1, <4>1
    <3> QED
      BY <3>3, <3>4
  <2>3. PICK N, C : N = {n.blocks[k] : k \in Indices} /\ C = {c.blocks[k] : k \in Indices}
    OBVIOUS
  <2>4. N \ {0} = (C \ {0}) \cup ({b} \ {0})
    BY <2>2, <2>3
  <2>5. (N \cup {c.indirect}) \ {0} = ((C \cup {c.indirect}) \ {0}) \cup ({b} \ {0})
    BY <2>4
  <2>6. PICK R : R = IF c.indirect = 0 THEN {} ELSE pointers[c.indirect]
    OBVIOUS
  <2>7. /\ Owned(n) = ((N \cup {c.indirect}) \ {0}) \cup R
        /\ Owned(c) = ((C \cup {c.indirect}) \ {0}) \cup R
    BY <2>1, <2>3, <2>6 DEF Owned
  <2> QED
    BY <2>5, <2>7
(* The new entry comes into use, and with it the new block of the          *)
(* directory.                                                              *)
<1>UsedGrows.
    ASSUME IInv, IInv', EInv, Agree, faults = 0, NEW p \in Procs, \A q \in Procs : q = p,
           WriteParent(p), Return(p), NEW i, i = op[p].inum
    PROVE  Used' = Used \cup {i}
  <2> USE <1>UsedGrows
  <2>1. pc[p] = "writeParent" /\ UNCHANGED dirents
    BY DEF WriteParent
  <2>2. pc[p] \in HasInode /\ pc[p] \in Writing \ {"block"}
    BY <2>1 DEF HasInode, Writing
  <2>3. PICK d, c, n, o, m, b : /\ d = op[p].dir /\ c = Parent(p) /\ n = op[p].new /\ o = op[p]
                                /\ m = c.sz /\ b = op[p].blk
    OBVIOUS
  <2>4. PICK x : x = [inum |-> o.inum, name |-> o.name]
    OBVIOUS
  <2>5. d \in Dirs /\ c \in Inodes /\ Grown(c, n, b) /\ Follows(n, c)
    <3>1. Workable(d, c, n, b)
      BY <2>2, <2>3, Working
    <3> QED
      BY <3>1 DEF Workable
  <2>6. itable'[d] = n /\ \A j \in Inums \ {d} : itable'[j] = itable[j]
    <3>1. Stores(p, d, n, i)
      BY <2>3, ParentStored
    <3> QED
      BY <3>1 DEF Stores
  <2>7. faults <= 2
    BY NoFaults DEF EInv
  <2>8. PICK U : U = itable'
    OBVIOUS
  <2>9. Changed(itable, dirents, U, dirents, d, m, x)
    <3>1. U[d] = o.new /\ \A j \in Inums \ {d} : U[j] = itable[j]
      BY <2>3, <2>6, <2>8
    <3>2. Enters(p, d, m, o, x)
      BY <2>3, <2>4 DEF Enters
    <3>3. HasEntry(U, d, m, o, x)
      BY <2>1, <2>7, <3>1, <3>2, ParentGrows
    <3> QED
      BY <3>3 DEF HasEntry
  <2>10. itable[d].sz = m /\ m \in Nat /\ n.sz = m + 1
    BY <2>2, <2>3, <2>5, <1>NotInUse, InodeFields DEF Grown
  <2>11. m < n.sz /\ \A k \in Nat : k < m => k < n.sz
    BY <2>10, SMTT(30)
  <2>12. EntryOf(dirents, U[d], m).inum = i
    <3>1. Entry(op[p].new, Parent(p).sz) = [inum |-> op[p].inum, name |-> op[p].name]
      BY <2>1 DEF IInv, Added
    <3>2. EntryOf(dirents, n, m) = x
      BY <2>3, <2>4, <3>1 DEF Entry, EntryOf
    <3>3. x.inum = o.inum
      BY <2>4
    <3> QED
      BY <2>3, <2>6, <2>8, <3>2, <3>3
  <2>13. ASSUME NEW h \in Dirs, NEW k \in Nat, k < itable[h].sz
         PROVE  k < U[h].sz /\ EntryOf(dirents, U[h], k) = EntryOf(dirents, itable[h], k)
    <3>1. CASE h # d
      <4>1. U[h] = itable[h]
        BY <2>6, <2>8, <3>1, DirsTyped DEF IInv
      <4> QED
        BY <2>13, <4>1
    <3>2. CASE h = d
      <4>1. k < m
        BY <2>10, <2>13, <3>2
      <4>2. EntryOf(dirents, n, k) = EntryOf(dirents, itable[d], k)
        <5>1. Adds(p, d, c) /\ k < c.sz
          BY <2>3, <4>1 DEF Adds
        <5>2. SameEntry(dirents, c, itable[d], k)
          BY <2>2, <5>1, CachedEntries
        <5> QED
          BY <2>5, <5>2 DEF SameEntry
      <4> QED
        BY <2>6, <2>8, <2>11, <3>2, <4>1, <4>2
    <3> QED
      BY <3>1, <3>2
  <2>14. x.inum = i
    BY <2>3, <2>4
  <2>15. ASSUME NEW y
         PROVE  y \in Used' <=> y \in Used \/ y = i
    <3>1. y \in Used' => y \in Used \/ y = i
      <4>1. ASSUME NEW h \in Dirs, NEW k \in Nat, k < U[h].sz, y = EntryOf(dirents, U[h], k).inum
            PROVE  y \in Used \/ y = i
        BY <2>9, <2>14, <4>1, <1>UsedIs DEF Changed
      <4> QED
        BY <2>1, <2>8, <4>1, <1>UsedIs, <1>UsedNext
    <3>2. y \in Used => y \in Used'
      <4>1. ASSUME NEW h \in Dirs, NEW k \in Nat, k < itable[h].sz,
                   y = EntryOf(dirents, itable[h], k).inum
            PROVE  y \in Used'
        BY <2>1, <2>8, <2>13, <4>1, <1>UsedNext
      <4> QED
        BY <4>1, <1>UsedIs, <1>UsedNext
    <3>3. i \in Used'
      BY <2>1, <2>5, <2>6, <2>8, <2>10, <2>11, <2>12, <1>UsedNext
    <3> QED
      BY <3>1, <3>2, <3>3
  <2> QED
    BY <2>15
<1>ParentWritten.
    ASSUME IInv, NEW p \in Procs, WriteParent(p), Return(p), NEW i, i = op[p].inum,
           NEW b, b = op[p].blk
    PROVE  \E d, c, n :
             d = op[p].dir /\ c = Parent(p) /\ n = op[p].new /\ WritesParent(d, c, n, i, b)
  <2> USE <1>ParentWritten
  <2>1. pc[p] \in Writing \ {"block"}
    BY DEF WriteParent, Writing, HasInode
  <2>2. PICK d, c, n : d = op[p].dir /\ c = Parent(p) /\ n = op[p].new
    OBVIOUS
  <2>3. /\ d \in Dirs /\ d \in Inums /\ c \in Inodes /\ n \in Inodes /\ Grown(c, n, b)
        /\ cache[d] # Absent /\ c = Cached(d)
    <3>1. Workable(d, c, n, b)
      BY <2>1, <2>2, Working
    <3> QED
      BY <3>1 DEF Workable
  <2>4. /\ i \in Inums \ Dirs /\ itable'[d] = n
        /\ \A j \in Inums \ {d} : itable'[j] = itable[j]
    <3>1. Stores(p, d, n, i)
      BY <2>2, ParentStored
    <3> QED
      BY <3>1 DEF Stores
  <2>5. WritesParent(d, c, n, i, b)
    BY <2>3, <2>4 DEF WritesParent
  <2> QED
    BY <2>2, <2>5
<1>HeldGrows.
    ASSUME IInv, EInv, Agree, faults = 0, NEW p \in Procs, \A q \in Procs : q = p,
           WriteParent(p), Return(p), NEW i, i = op[p].inum, NEW b, b = op[p].blk,
           Used' = Used \cup {i}, Used \subseteq Inums
    PROVE  Held' = IF b = 0 THEN Held ELSE Held \cup {b - DATA_BLOCK_START}
  <2> USE <1>HeldGrows
  <2>1. pc[p] = "writeParent" /\ UNCHANGED pointers
    BY DEF WriteParent, image
  <2>2. pc[p] \in HasInode /\ pc[p] \in Writing \ {"block"} /\ pc[p] \in Entered \cup {"dirent"}
    BY <2>1 DEF HasInode, Writing, Entered
  <2>3. PICK d, c, n :
          d = op[p].dir /\ c = Parent(p) /\ n = op[p].new /\ WritesParent(d, c, n, i, b)
    BY <1>ParentWritten
  <2>4. /\ d \in Dirs /\ d \in Inums /\ c \in Inodes /\ n \in Inodes /\ Grown(c, n, b)
        /\ cache[d] # Absent /\ c = Cached(d)
    BY <2>3 DEF WritesParent
  <2>5. c = itable[d]
    BY <2>4 DEF Agree, Cached
  <2>6. /\ i \in Inums \ Dirs /\ itable'[d] = n
        /\ \A j \in Inums \ {d} : itable'[j] = itable[j]
    BY <2>3 DEF WritesParent
  <2>7. itable'[i] = FileInode
    <3>1. Making(pc[p], op[p], Parent(p), itable, dirents)
      BY NoFaults, MakingNow DEF EInv
    <3>2. itable[i] = FileInode
      BY <2>2, <3>1 DEF Making
    <3> QED
      BY <2>4, <2>6, <3>2
  <2>8. ASSUME NEW j, NEW x, x = itable'[j]
        PROVE  Owned(itable[j])' = Owned(x)
    BY <2>1, <2>8 DEF Owned
  <2>9. d \in Used
    BY <2>4, <1>UsedIs
  <2>10. Owned(itable[i])' = {}
    BY <2>7, <2>8, <1>OwnedFile
  <2>11. Owned(itable[d])' = Owned(itable[d]) \cup ({b} \ {0})
    <3>1. Owned(n) = Owned(c) \cup ({b} \ {0})
      BY <2>4, <1>OwnedGrows
    <3> QED
      BY <2>5, <2>6, <2>8, <3>1
  <2>12. \A j \in Used \ {d, i} : Owned(itable[j])' = Owned(itable[j])
    BY <2>6, <2>8
  <2>13. i \notin Used
    BY <2>2, <1>NotInUse
  <2>14. PICK V, W : /\ V = UNION {Owned(itable[j])' : j \in Used \cup {i}}
                     /\ W = UNION {Owned(itable[j]) : j \in Used}
    OBVIOUS
  <2>15. ASSUME NEW y
         PROVE  y \in V <=> y \in W \/ (y = b /\ y # 0)
    <3>1. y \in V <=> \E j \in Used \cup {i} : y \in Owned(itable[j])'
      BY <2>14
    <3>2. y \in W <=> \E j \in Used : y \in Owned(itable[j])
      BY <2>14
    <3>3. (\E j \in Used \cup {i} : y \in Owned(itable[j])') <=>
            (\E j \in Used : y \in Owned(itable[j])) \/ y \in {b} \ {0}
      BY <2>9, <2>10, <2>11, <2>12, <2>13
    <3> QED
      BY <3>1, <3>2, <3>3
  <2>16. V = W \cup ({b} \ {0})
    <3>1. \A y : y \in V <=> y \in W \cup ({b} \ {0})
      BY <2>15
    <3> QED
      BY <3>1, SMTT(30)
  <2>17. Held = {y - DATA_BLOCK_START : y \in W}
    BY <2>14 DEF Held
  <2>18. Held' = {y - DATA_BLOCK_START : y \in V}
    <3>1. PICK E : E = Used' /\ E = Used \cup {i}
      OBVIOUS
    <3>2. V = UNION {Owned(itable[j])' : j \in E}
      BY <2>14, <3>1
    <3> QED
      BY <3>1, <3>2 DEF Held
  <2> QED
    BY <2>16, <2>17, <2>18
<1>WriteParentBalanced.
    ASSUME IInv, IInv', EInv, Agree, Balanced, NEW p \in Procs, \A q \in Procs : q = p,
           WriteParent(p)
    PROVE  Balanced'
  <2> USE <1>WriteParentBalanced
  <2>1. /\ UNCHANGED <<inodeBitmap, dataBitmap, crashed>> /\ pc[p] = "writeParent"
        /\ faults' = faults \/ faults' = faults + 1
    BY DEF WriteParent, Count
  <2>2. SUFFICES ASSUME faults' = 0, ~crashed'
                 PROVE  Balance(pc[p], op[p], Used, Held, inodeBitmap, dataBitmap)'
    BY <1>BalancedStep
  <2>3. faults = 0 /\ ~crashed /\ faults' # faults + 1
    BY <2>1, <2>2, FaultsStep, NoFaults DEF EInv
  <2>4. Return(p)
    BY <2>3 DEF WriteParent, Count
  <2>5. pc[p] \in HasInode /\ pc[p] \in HoldsBlock
    BY <2>1 DEF HasInode, HoldsBlock
  <2>6. PICK i, b : i = op[p].inum /\ b = op[p].blk
    OBVIOUS
  <2>7. /\ inodeBitmap = Used \cup {i}
        /\ dataBitmap = IF b = 0 THEN Held ELSE Held \cup {b - DATA_BLOCK_START}
    <3>1. Balance(pc[p], op[p], Used, Held, inodeBitmap, dataBitmap)
      BY <2>3, <1>BalancedNow
    <3> QED
      BY <2>5, <2>6, <3>1 DEF Balance
  <2>8. Used' = Used \cup {i}
    BY <2>3, <2>4, <2>6, <1>UsedGrows
  <2>9. Used \subseteq Inums
    BY <2>7 DEF IInv, Typed
  <2>10. Held' = IF b = 0 THEN Held ELSE Held \cup {b - DATA_BLOCK_START}
    BY <2>3, <2>4, <2>6, <2>8, <2>9, <1>HeldGrows
  <2>11. pc'[p] = "idle"
    BY <2>4, Returns DEF IInv
  <2>12. pc'[p] \notin HasInode /\ pc'[p] \notin HoldsBlock
    BY <2>11, SMTT(30) DEF HasInode, HoldsBlock
  <2> QED
    BY <2>1, <2>7, <2>8, <2>10, <2>12 DEF Balance
<1> SUFFICES ASSUME OneHart, IInv, IInv', EInv, Agree, Balanced, [Next]_vars
             PROVE  Balanced'
  OBVIOUS
<1>1. ASSUME NEW p \in Procs PROVE \A q \in Procs : q = p
  BY DEF OneHart
<1>2. ASSUME NEW p \in Procs,
             \/ \E d \in Dirs, n \in Names : Open(p, d, n)
             \/ Resolve(p) \/ Insert(p) \/ Lookup(p) \/ CreateFile(p) \/ ReadError(p) \/ Fail(p)
      PROVE  Balanced'
  BY <1>1, <1>2, <1>EarlyBalanced
<1>3. ASSUME NEW p \in Procs,
             \/ AllocateBlock(p) \/ AllocateInode(p) \/ ReadSector(p) \/ WriteNewInode(p)
             \/ AddDirent(p) \/ WriteParent(p) \/ ClearDirent(p) \/ WriteUndo(p)
             \/ FreeInode(p) \/ FreeBlock(p)
      PROVE  Balanced'
  BY <1>1, <1>3, <1>AllocateBlockBalanced, <1>AllocateInodeBalanced, <1>FreeBlockBalanced,
     <1>WritingBalanced, <1>WriteParentBalanced
<1>4. CASE Crash
  BY <1>4 DEF Crash, Balanced
<1>5. CASE UNCHANGED vars
  <2>1. UNCHANGED <<inodeBitmap, dataBitmap, itable, dirents, pointers, pc, op, faults, crashed>>
    BY <1>5 DEF vars, disk, image, memory
  <2>2. Used' = Used /\ Held' = Held
    BY <2>1, <1>NothingHeld
  <2>3. NothingLeaks => NothingLeaks'
    BY <2>1, <2>2 DEF NothingLeaks, Used, Held
  <2> QED
    BY <2>1, <2>2, <2>3 DEF Balanced
<1> QED
  BY <1>2, <1>3, <1>4, <1>5 DEF Next

(* With one hart, between operations exactly the inodes and blocks in use  *)
(* are allocated, as long as no transfer failed and the machine did not    *)
(* stop: a create_file that runs out of inodes gives back its block, and   *)
(* no more than that.                                                      *)
THEOREM NoLeak == OneHart => (Spec /\ DiskSound /\ NothingLeaks => []NothingLeaks)
<1> SUFFICES ASSUME OneHart
             PROVE  Spec /\ DiskSound /\ NothingLeaks => []NothingLeaks
  OBVIOUS
<1>1. Init /\ DiskSound /\ NothingLeaks => IInv /\ EInv /\ Agree /\ Balanced
  BY InitEntries, InitAgree, InitBalanced
<1>2. IInv /\ EInv /\ Agree /\ Balanced /\ [Next]_vars => (IInv /\ EInv /\ Agree /\ Balanced)'
  BY NextKept, NextEntries, NextAgree, NextBalanced
<1>3. Balanced => NothingLeaks
  BY DEF Balanced, NothingLeaks
<1> QED
  BY <1>1, <1>2, <1>3, PTL DEF Spec
=============================================================================
