---------------------------- MODULE VsfsFileProofs ----------------------------
(***************************************************************************)
(* Proofs about VsfsFile for every geometry of the disk, every file size   *)
(* and every sound image: a short result is only reported where data_block *)
(* failed, and the loops over sectors implement ByteFile.                  *)
(***************************************************************************)
EXTENDS VsfsFile, TLAPS

USE ZenonT(20)

-----------------------------------------------------------------------------
(* Arithmetic of blocks, sectors and cells.                                *)

LEMMA Monotone ==
  ASSUME NEW a \in Int, NEW b \in Int, NEW n \in Nat, a <= b
  PROVE  a * n <= b * n
BY SMTT(30)

LEMMA Division ==
  ASSUME NEW x \in Nat, NEW n \in Nat \ {0}
  PROVE  /\ x \div n \in Nat /\ x % n \in 0..(n - 1)
         /\ x = (x \div n) * n + (x % n)
BY SMTT(30)

(* Quotient and remainder are unique.                                      *)
LEMMA Unique ==
  ASSUME NEW n \in Nat \ {0}, NEW q \in Int, NEW r \in 0..(n - 1),
         NEW p \in Int, NEW s \in 0..(n - 1), q * n + r = p * n + s
  PROVE  q = p /\ r = s
<1>1. ASSUME q < p PROVE FALSE
  <2>1. q + 1 \in Int /\ q + 1 <= p /\ (q + 1) * n = q * n + n
    BY <1>1, SMTT(30)
  <2>2. (q + 1) * n <= p * n
    BY <2>1, Monotone, SMTT(30)
  <2> QED
    BY <2>1, <2>2, SMTT(30)
<1>2. ASSUME p < q PROVE FALSE
  <2>1. p + 1 \in Int /\ p + 1 <= q /\ (p + 1) * n = p * n + n
    BY <1>2, SMTT(30)
  <2>2. (p + 1) * n <= q * n
    BY <2>1, Monotone, SMTT(30)
  <2> QED
    BY <2>1, <2>2, SMTT(30)
<1>3. q = p
  BY <1>1, <1>2, SMTT(30)
<1> QED
  BY <1>3, SMTT(30)

LEMMA Quotient ==
  ASSUME NEW n \in Nat \ {0}, NEW q \in Nat, NEW r \in 0..(n - 1)
  PROVE  (q * n + r) \div n = q /\ (q * n + r) % n = r
<1>1. PICK x \in Nat : x = q * n + r
  BY SMTT(30)
<1>2. /\ x \div n \in Nat /\ x % n \in 0..(n - 1)
      /\ x = (x \div n) * n + (x % n)
  BY Division
<1>3. PICK p \in Nat, s \in 0..(n - 1) : p = x \div n /\ s = x % n
  BY <1>2
<1>4. q * n + r = p * n + s
  BY <1>1, <1>2, <1>3, SMTT(30)
<1>5. q \in Int /\ p \in Int
  BY SMTT(30)
<1>6. q = p /\ r = s
  BY <1>4, <1>5, Unique
<1> QED
  BY <1>1, <1>3, <1>6

(* The position of a byte: cell c of sector t of block lb.                 *)
Position(lb, t, c) == (lb * SECTORS_PER_BLOCK + t) * SECTOR_SIZE + c

LEMMA Geometry ==
  /\ SECTOR_SIZE \in Nat \ {0} /\ SECTORS_PER_BLOCK \in Nat \ {0}
  /\ BLOCK_SIZE \in Nat \ {0}
<1>1. SECTOR_SIZE \in Nat \ {0} /\ SECTORS_PER_BLOCK \in Nat \ {0}
  BY FileAssumption
<1>2. SECTOR_SIZE * SECTORS_PER_BLOCK \in Nat \ {0}
  BY <1>1, SMTT(30)
<1> QED
  BY <1>1, <1>2 DEF BLOCK_SIZE

LEMMA CellInBlock ==
  ASSUME NEW t \in 0..(SECTORS_PER_BLOCK - 1), NEW c \in 0..(SECTOR_SIZE - 1)
  PROVE  t * SECTOR_SIZE + c \in 0..(BLOCK_SIZE - 1)
<1>1. PICK m \in Nat \ {0}, n \in Nat \ {0} : m = SECTORS_PER_BLOCK /\ n = SECTOR_SIZE
  BY Geometry
<1>2. t \in Int /\ m - 1 \in Int /\ t <= m - 1 /\ n \in Nat /\ c \in 0..(n - 1)
  BY <1>1, SMTT(30)
<1>3. t * n <= (m - 1) * n
  BY <1>2, Monotone
<1>4. (m - 1) * n = n * m - n
  BY <1>1, SMTT(30)
<1>5. t \in Nat
  BY <1>1, SMTT(30)
<1>6. t * n \in Nat
  BY <1>5, SMTT(30)
<1>7. n * m \in Nat
  BY SMTT(30)
<1>8. t * n + c \in 0..((n * m) - 1)
  BY <1>2, <1>3, <1>4, <1>6, <1>7, SMTT(30)
<1> QED
  BY <1>1, <1>8 DEF BLOCK_SIZE

LEMMA SectorInBlock ==
  ASSUME NEW x \in 0..(BLOCK_SIZE - 1)
  PROVE  /\ x \div SECTOR_SIZE \in 0..(SECTORS_PER_BLOCK - 1)
         /\ x % SECTOR_SIZE \in 0..(SECTOR_SIZE - 1)
         /\ x = (x \div SECTOR_SIZE) * SECTOR_SIZE + (x % SECTOR_SIZE)
<1>1. PICK m \in Nat \ {0}, n \in Nat \ {0} : m = SECTORS_PER_BLOCK /\ n = SECTOR_SIZE
  BY Geometry
<1>2. x \in Nat /\ x < n * m
  BY <1>1, SMTT(30) DEF BLOCK_SIZE
<1>3. PICK q \in Nat, r \in 0..(n - 1) : q = x \div n /\ r = x % n /\ x = q * n + r
  BY <1>2, Division
<1>4. ASSUME m <= q PROVE FALSE
  <2>1. m \in Int /\ q \in Int /\ n \in Nat
    BY SMTT(30)
  <2>2. m * n <= q * n
    BY <1>4, <2>1, Monotone
  <2>3. m * n = n * m
    BY SMTT(30)
  <2> QED
    BY <1>2, <1>3, <2>2, <2>3, SMTT(30)
<1>5. q \in 0..(m - 1)
  BY <1>4, SMTT(30)
<1> QED
  BY <1>1, <1>3, <1>5

(* Splitting the position of a byte and putting it together again.         *)
LEMMA Split ==
  ASSUME NEW i \in Nat
  PROVE  /\ i \div BLOCK_SIZE \in Nat
         /\ i % BLOCK_SIZE \in 0..(BLOCK_SIZE - 1)
         /\ (i % BLOCK_SIZE) \div SECTOR_SIZE \in 0..(SECTORS_PER_BLOCK - 1)
         /\ i % SECTOR_SIZE \in 0..(SECTOR_SIZE - 1)
         /\ (i % BLOCK_SIZE) % SECTOR_SIZE = i % SECTOR_SIZE
         /\ i = Position(i \div BLOCK_SIZE, (i % BLOCK_SIZE) \div SECTOR_SIZE, i % SECTOR_SIZE)
<1>1. PICK m \in Nat \ {0}, n \in Nat \ {0} : m = SECTORS_PER_BLOCK /\ n = SECTOR_SIZE
  BY Geometry
<1>2. BLOCK_SIZE \in Nat \ {0}
  BY Geometry
<1>3. PICK lb \in Nat, x \in 0..(BLOCK_SIZE - 1) :
        lb = i \div BLOCK_SIZE /\ x = i % BLOCK_SIZE /\ i = lb * BLOCK_SIZE + x
  BY <1>2, Division
<1>4. PICK t \in 0..(m - 1), c \in 0..(n - 1) :
        t = x \div n /\ c = x % n /\ x = t * n + c
  BY <1>1, SectorInBlock
<1>5. i = lb * (n * m) + (t * n + c)
  BY <1>1, <1>3, <1>4 DEF BLOCK_SIZE
<1>6. t \in Nat /\ c \in Nat
  BY <1>4, SMTT(30)
<1>7. lb * (n * m) + (t * n + c) = (lb * m + t) * n + c /\ lb * m + t \in Nat
  BY <1>6, SMTT(30)
<1>8. ((lb * m + t) * n + c) % n = c
  BY <1>7, Quotient
<1>9. i % n = c /\ i = (lb * m + t) * n + c
  BY <1>5, <1>7, <1>8
<1> QED
  BY <1>1, <1>3, <1>4, <1>9 DEF Position

LEMMA Join ==
  ASSUME NEW lb \in Nat, NEW t \in 0..(SECTORS_PER_BLOCK - 1), NEW c \in 0..(SECTOR_SIZE - 1)
  PROVE  /\ Position(lb, t, c) \in Nat
         /\ Position(lb, t, c) \div BLOCK_SIZE = lb
         /\ (Position(lb, t, c) % BLOCK_SIZE) \div SECTOR_SIZE = t
         /\ Position(lb, t, c) % SECTOR_SIZE = c
<1> PICK i : i = Position(lb, t, c)
  OBVIOUS
<1>1. PICK m \in Nat \ {0}, n \in Nat \ {0} : m = SECTORS_PER_BLOCK /\ n = SECTOR_SIZE
  BY Geometry
<1>2. BLOCK_SIZE \in Nat \ {0} /\ BLOCK_SIZE = n * m
  BY <1>1, Geometry DEF BLOCK_SIZE
<1>3. t * n + c \in 0..(BLOCK_SIZE - 1)
  BY <1>1, CellInBlock
<1>4. t \in Nat /\ c \in 0..(n - 1) /\ c \in Nat
  BY <1>1, SMTT(30)
<1>5. lb * (n * m) + (t * n + c) = (lb * m + t) * n + c /\ lb * m + t \in Nat
  BY <1>4, SMTT(30)
<1>6. i = lb * BLOCK_SIZE + (t * n + c) /\ i = (lb * m + t) * n + c
  BY <1>1, <1>2, <1>5 DEF Position
<1>7. i \div BLOCK_SIZE = lb /\ i % BLOCK_SIZE = t * n + c
  <2>1. PICK bs \in Nat \ {0} : bs = BLOCK_SIZE
    BY <1>2
  <2>2. PICK x \in 0..(bs - 1) : x = t * n + c
    BY <1>3, <2>1
  <2>3. (lb * bs + x) \div bs = lb /\ (lb * bs + x) % bs = x
    BY Quotient
  <2> QED
    BY <1>6, <2>1, <2>2, <2>3
<1>8. (t * n + c) \div n = t
  BY <1>4, Quotient
<1>9. i % n = c
  <2>1. PICK q \in Nat : q = lb * m + t
    BY <1>5
  <2>2. (q * n + c) % n = c
    BY <1>4, Quotient
  <2> QED
    BY <1>6, <2>1, <2>2
<1>10. i \in Nat
  BY <1>4, <1>5, <1>6, SMTT(30)
<1> QED
  BY <1>1, <1>7, <1>8, <1>9, <1>10

-----------------------------------------------------------------------------
(* Cells of the disk.                                                      *)

Sectors == 0..(NSectors - 1)
Cells == 0..(SECTOR_SIZE - 1)
CellValues == Byte \cup Nat \cup (Nat \X Nat)
Disks == [Sectors -> [Cells -> CellValues]]

(* Sector t of a block.                                                    *)
SectorOf(block, t) == block * SECTORS_PER_BLOCK + t

LEMMA SectorOnDisk ==
  ASSUME NEW block \in Nat, OnDisk(block), NEW t \in 0..(SECTORS_PER_BLOCK - 1)
  PROVE  SectorOf(block, t) \in Sectors
<1>1. PICK m \in Nat \ {0} : m = SECTORS_PER_BLOCK
  BY Geometry
<1>2. (block + 1) * m = block * m + m /\ block * m \in Nat
  BY SMTT(30)
<1>3. (block + 1) * m <= NSectors /\ NSectors \in Nat /\ t \in 0..(m - 1)
  BY <1>1, FileAssumption DEF OnDisk
<1>4. block * m + t \in 0..(NSectors - 1)
  BY <1>2, <1>3, SMTT(30)
<1> QED
  BY <1>1, <1>4 DEF SectorOf, Sectors

(* Sectors of different blocks are different.                              *)
LEMMA SectorsApart ==
  ASSUME NEW a \in Nat, NEW b \in Nat,
         NEW t \in 0..(SECTORS_PER_BLOCK - 1), NEW u \in 0..(SECTORS_PER_BLOCK - 1),
         SectorOf(a, t) = SectorOf(b, u)
  PROVE  a = b /\ t = u
<1>1. a \in Int /\ b \in Int
  BY SMTT(30)
<1> QED
  BY <1>1, Geometry, Unique DEF SectorOf

(* Present, Cell, Content and Others for an image and a disk.              *)
PresentIn(image) == {i \in 0..(Size - 1) : BlockOf(image, i \div BLOCK_SIZE) # 0}
CellIn(image, i) ==
  LET k == BlockOf(image, i \div BLOCK_SIZE) * BLOCK_SIZE + (i % BLOCK_SIZE)
  IN  <<k \div SECTOR_SIZE, k % SECTOR_SIZE>>
ContentIn(image, d) ==
  [i \in 0..(Size - 1) |->
     IF i \in PresentIn(image) THEN d[CellIn(image, i)[1]][CellIn(image, i)[2]] ELSE Hole]
OthersIn(image, d) ==
  LET used == {CellIn(image, i) : i \in PresentIn(image)}
  IN  [c \in ((0..(NSectors - 1)) \X (0..(SECTOR_SIZE - 1))) \ used |-> d[c[1]][c[2]]]

LEMMA BlockType ==
  ASSUME NEW image, Sound(image), NEW lb \in Nat
  PROVE  BlockOf(image, lb) \in Nat
<1>1. PICK d \in Nat, e \in Nat : d = DIRECT_BLOCKS /\ e = INDIRECT_BLOCK_ENTRIES
  <2>1. INDIRECT_BLOCK_ENTRIES \in Nat
    BY FileAssumption, Geometry
  <2> QED
    BY <2>1, FileAssumption
<1>2. image.direct \in [0..(d - 1) -> Nat] /\ image.ptrs \in [0..(e - 1) -> Nat]
  BY <1>1 DEF Sound
<1> QED
  BY <1>1, <1>2, SMTT(30) DEF BlockOf

(* What is sound about the block of a byte of the file.                    *)
LEMMA BlockSound ==
  ASSUME NEW image, Sound(image), NEW i \in PresentIn(image)
  PROVE  /\ i \in Nat
         /\ BlockOf(image, i \div BLOCK_SIZE) \in Nat \ {0, image.indirect}
         /\ OnDisk(BlockOf(image, i \div BLOCK_SIZE))
<1>1. i \in 0..(Size - 1) /\ BlockOf(image, i \div BLOCK_SIZE) # 0
  BY DEF PresentIn
<1>2. i \in Nat
  BY <1>1, FileAssumption, SMTT(30)
<1>3. PICK lb \in Nat : lb = i \div BLOCK_SIZE
  BY <1>2, Split
<1>4. lb \in FileBlocks
  BY <1>1, <1>3 DEF FileBlocks
<1>5. /\ OnDisk(BlockOf(image, lb)) /\ BlockOf(image, lb) # image.indirect
  BY <1>1, <1>3, <1>4 DEF Sound
<1>6. BlockOf(image, lb) \in Nat
  BY BlockType
<1> QED
  BY <1>1, <1>2, <1>3, <1>5, <1>6

(* The cell of a byte is in the sector that INode::read computes.          *)
LEMMA CellShape ==
  ASSUME NEW image, Sound(image), NEW i \in PresentIn(image)
  PROVE  CellIn(image, i) = <<SectorOf(BlockOf(image, i \div BLOCK_SIZE),
                                       (i % BLOCK_SIZE) \div SECTOR_SIZE), i % SECTOR_SIZE>>
<1>1. PICK m \in Nat \ {0}, n \in Nat \ {0} : m = SECTORS_PER_BLOCK /\ n = SECTOR_SIZE
  BY Geometry
<1>2. i \in Nat
  BY BlockSound
<1>3. PICK b \in Nat : b = BlockOf(image, i \div BLOCK_SIZE)
  BY BlockSound
<1>4. PICK x \in 0..(BLOCK_SIZE - 1) : x = i % BLOCK_SIZE
  BY <1>2, Split
<1>5. PICK t \in 0..(m - 1), c \in 0..(n - 1) : t = x \div n /\ c = i % n
  BY <1>1, <1>2, <1>4, Split
<1>6. x = t * n + c
  BY <1>1, <1>2, <1>4, <1>5, SectorInBlock, Split
<1>7. t \in Nat /\ c \in Nat
  BY <1>5, SMTT(30)
<1>8. b * (n * m) + (t * n + c) = (b * m + t) * n + c /\ b * m + t \in Nat
  BY <1>7, SMTT(30)
<1>9. PICK q \in Nat : q = b * m + t
  BY <1>8
<1>10. (q * n + c) \div n = q /\ (q * n + c) % n = c
  BY Quotient
<1>11. b * BLOCK_SIZE + x = q * n + c
  BY <1>1, <1>6, <1>8, <1>9 DEF BLOCK_SIZE
<1> QED
  BY <1>1, <1>3, <1>4, <1>5, <1>9, <1>10, <1>11 DEF CellIn, SectorOf

(* No two bytes share a cell.                                              *)
LEMMA CellsApart ==
  ASSUME NEW image, Sound(image), NEW i \in PresentIn(image), NEW j \in PresentIn(image),
         CellIn(image, i) = CellIn(image, j)
  PROVE  i = j
<1>1. i \in Nat /\ j \in Nat
  BY BlockSound
<1>2. PICK a \in Nat, t \in 0..(SECTORS_PER_BLOCK - 1) :
        a = BlockOf(image, i \div BLOCK_SIZE) /\ t = (i % BLOCK_SIZE) \div SECTOR_SIZE
  BY <1>1, BlockSound, Split
<1>3. PICK b \in Nat, u \in 0..(SECTORS_PER_BLOCK - 1) :
        b = BlockOf(image, j \div BLOCK_SIZE) /\ u = (j % BLOCK_SIZE) \div SECTOR_SIZE
  BY <1>1, BlockSound, Split
<1>4. CellIn(image, i) = <<SectorOf(a, t), i % SECTOR_SIZE>>
  BY <1>2, CellShape
<1>5. CellIn(image, j) = <<SectorOf(b, u), j % SECTOR_SIZE>>
  BY <1>3, CellShape
<1>6. SectorOf(a, t) = SectorOf(b, u) /\ i % SECTOR_SIZE = j % SECTOR_SIZE
  <2>1. PICK p, q, v, w : /\ p = SectorOf(a, t) /\ q = SectorOf(b, u)
                          /\ v = i % SECTOR_SIZE /\ w = j % SECTOR_SIZE
    OBVIOUS
  <2>2. <<p, v>> = <<q, w>>
    BY <1>4, <1>5, <2>1
  <2>3. p = q /\ v = w
    BY <2>2, SMTT(30)
  <2> QED
    BY <2>1, <2>3
<1>7. a = b /\ t = u
  BY <1>6, SectorsApart, SMTT(30)
<1>8. i \div BLOCK_SIZE \in FileBlocks /\ j \div BLOCK_SIZE \in FileBlocks /\ a # 0
  BY <1>2 DEF FileBlocks, PresentIn
<1>9. i \div BLOCK_SIZE = j \div BLOCK_SIZE
  BY <1>2, <1>3, <1>7, <1>8 DEF Sound
<1>10. i = Position(i \div BLOCK_SIZE, t, i % SECTOR_SIZE)
  BY <1>1, <1>2, Split
<1>11. j = Position(j \div BLOCK_SIZE, u, j % SECTOR_SIZE)
  BY <1>1, <1>3, Split
<1> QED
  BY <1>6, <1>7, <1>9, <1>10, <1>11

LEMMA CellOnDisk ==
  ASSUME NEW image, Sound(image), NEW i \in PresentIn(image)
  PROVE  /\ CellIn(image, i) \in Sectors \X Cells
         /\ CellIn(image, i) = <<CellIn(image, i)[1], CellIn(image, i)[2]>>
         /\ CellIn(image, i)[1] \in Sectors /\ CellIn(image, i)[2] \in Cells
<1>1. i \in Nat
  BY BlockSound
<1>2. PICK a \in Nat, t \in 0..(SECTORS_PER_BLOCK - 1) :
        /\ a = BlockOf(image, i \div BLOCK_SIZE) /\ t = (i % BLOCK_SIZE) \div SECTOR_SIZE
        /\ OnDisk(a)
  BY <1>1, BlockSound, Split
<1>3. PICK c \in Cells : c = i % SECTOR_SIZE
  BY <1>1, Split DEF Cells
<1>4. CellIn(image, i) = <<SectorOf(a, t), c>>
  BY <1>2, <1>3, CellShape
<1>5. SectorOf(a, t) \in Sectors
  BY <1>2, SectorOnDisk
<1> QED
  BY <1>3, <1>4, <1>5, SMTT(30)

(* The bytes an operation moves with one sector are consecutive cells.     *)
LEMMA Run ==
  ASSUME NEW image, Sound(image), NEW pos \in PresentIn(image), NEW n \in Nat,
         n <= SECTOR_SIZE - (pos % SECTOR_SIZE), pos + n <= Size, NEW k \in 0..(n - 1)
  PROVE  /\ pos + k \in PresentIn(image)
         /\ (pos + k) \div BLOCK_SIZE = pos \div BLOCK_SIZE
         /\ CellIn(image, pos + k) = <<CellIn(image, pos)[1], (pos % SECTOR_SIZE) + k>>
<1>1. pos \in Nat /\ pos \in 0..(Size - 1) /\ BlockOf(image, pos \div BLOCK_SIZE) # 0
  BY BlockSound DEF PresentIn
<1>2. PICK lb \in Nat, t \in 0..(SECTORS_PER_BLOCK - 1), c \in 0..(SECTOR_SIZE - 1) :
        /\ lb = pos \div BLOCK_SIZE /\ t = (pos % BLOCK_SIZE) \div SECTOR_SIZE
        /\ c = pos % SECTOR_SIZE /\ pos = Position(lb, t, c)
  BY <1>1, Split
<1>3. PICK m \in Nat \ {0}, z \in Nat \ {0} : m = SECTORS_PER_BLOCK /\ z = SECTOR_SIZE
  BY Geometry
<1>4. c + k \in 0..(z - 1) /\ c \in Nat /\ k \in Nat /\ t \in Nat
  BY <1>2, <1>3, SMTT(30)
<1>5. pos + k = Position(lb, t, c + k)
  BY <1>2, <1>3, <1>4, SMTT(30) DEF Position
<1>6. PICK j : j = pos + k
  OBVIOUS
<1>7. /\ j \in Nat /\ j \div BLOCK_SIZE = lb
      /\ (j % BLOCK_SIZE) \div SECTOR_SIZE = t /\ j % SECTOR_SIZE = c + k
  <2>1. PICK e \in 0..(SECTOR_SIZE - 1) : e = c + k
    BY <1>3, <1>4
  <2>2. j = Position(lb, t, e)
    BY <1>5, <1>6, <2>1
  <2>3. /\ Position(lb, t, e) \in Nat
        /\ Position(lb, t, e) \div BLOCK_SIZE = lb
        /\ (Position(lb, t, e) % BLOCK_SIZE) \div SECTOR_SIZE = t
        /\ Position(lb, t, e) % SECTOR_SIZE = e
    BY Join
  <2> QED
    BY <2>1, <2>2, <2>3
<1>8. j \in 0..(Size - 1)
  BY <1>1, <1>6, FileAssumption, SMTT(30)
<1>9. j \in PresentIn(image)
  BY <1>1, <1>2, <1>7, <1>8 DEF PresentIn
<1>10. CellIn(image, j) = <<SectorOf(BlockOf(image, lb), t), c + k>>
  BY <1>7, <1>9, CellShape
<1>11. CellIn(image, pos) = <<SectorOf(BlockOf(image, lb), t), c>>
  BY <1>2, CellShape
<1>12. CellIn(image, pos)[1] = SectorOf(BlockOf(image, lb), t)
  BY <1>11, SMTT(30)
<1> QED
  BY <1>2, <1>6, <1>7, <1>9, <1>10, <1>12

(* Writing a run of cells replaces exactly the bytes of the run.           *)
Overwrite(d, s, at, n, v) ==
  [d EXCEPT ![s] = [k \in 0..(SECTOR_SIZE - 1) |->
                      IF k \in at..(at + n - 1) THEN v ELSE d[s][k]]]

LEMMA OverwriteDisk ==
  ASSUME NEW d \in Disks, NEW s \in Sectors, NEW at, NEW n, NEW v \in Byte
  PROVE  /\ Overwrite(d, s, at, n, v) \in Disks
         /\ \A r \in Sectors, k \in Cells :
              Overwrite(d, s, at, n, v)[r][k] =
                IF r = s /\ k \in at..(at + n - 1) THEN v ELSE d[r][k]
<1>1. d[s] \in [Cells -> CellValues] /\ v \in CellValues
  BY DEF Disks, CellValues
<1>2. PICK e : e = [k \in 0..(SECTOR_SIZE - 1) |->
                      IF k \in at..(at + n - 1) THEN v ELSE d[s][k]]
  OBVIOUS
<1>3. e \in [Cells -> CellValues]
  BY <1>1, <1>2 DEF Cells
<1>4. [d EXCEPT ![s] = e] \in Disks
  BY <1>3 DEF Disks
<1>5. Overwrite(d, s, at, n, v) = [d EXCEPT ![s] = e]
  BY <1>2 DEF Overwrite
<1>6. ASSUME NEW r \in Sectors, NEW k \in Cells
      PROVE  [d EXCEPT ![s] = e][r][k] =
               IF r = s /\ k \in at..(at + n - 1) THEN v ELSE d[r][k]
  <2>1. CASE r = s
    <3>1. [d EXCEPT ![s] = e][r] = e
      BY <2>1 DEF Disks
    <3>2. e[k] = IF k \in at..(at + n - 1) THEN v ELSE d[s][k]
      BY <1>2 DEF Cells
    <3>3. PICK f : f = [d EXCEPT ![s] = e][r]
      OBVIOUS
    <3>4. f = e
      BY <3>1, <3>3
    <3> QED
      BY <2>1, <3>2, <3>3, <3>4
  <2>2. CASE r # s
    BY <2>2 DEF Disks
  <2> QED
    BY <2>1, <2>2
<1> QED
  BY <1>4, <1>5, <1>6

LEMMA WriteRun ==
  ASSUME NEW image, Sound(image), NEW d \in Disks, NEW pos \in PresentIn(image), NEW n \in Nat,
         n <= SECTOR_SIZE - (pos % SECTOR_SIZE), pos + n <= Size, NEW v \in Byte,
         NEW d2, d2 = Overwrite(d, CellIn(image, pos)[1], pos % SECTOR_SIZE, n, v)
  PROVE  /\ ContentIn(image, d2) =
              [i \in DOMAIN ContentIn(image, d) |->
                 IF i \in pos..(pos + n - 1) THEN v ELSE ContentIn(image, d)[i]]
         /\ OthersIn(image, d2) = OthersIn(image, d)
<1>1. PICK s \in Sectors : s = CellIn(image, pos)[1]
  BY CellOnDisk
<1>2. pos \in Nat
  BY BlockSound
<1>3. PICK at \in Nat : at = pos % SECTOR_SIZE
  <2>1. pos % SECTOR_SIZE \in 0..(SECTOR_SIZE - 1)
    BY <1>2, Split
  <2> QED
    BY <2>1, Geometry, SMTT(30)
<1>4. \A r \in Sectors, k \in Cells :
        d2[r][k] = IF r = s /\ k \in at..(at + n - 1) THEN v ELSE d[r][k]
  <2>1. d2 = Overwrite(d, s, at, n, v)
    BY <1>1, <1>3
  <2>2. /\ Overwrite(d, s, at, n, v) \in Disks
        /\ \A r \in Sectors, k \in Cells :
             Overwrite(d, s, at, n, v)[r][k] =
               IF r = s /\ k \in at..(at + n - 1) THEN v ELSE d[r][k]
    BY OverwriteDisk, SMTT(30)
  <2> QED
    BY <2>1, <2>2
<1>5. ASSUME NEW k \in at..(at + n - 1)
      PROVE  \E j \in PresentIn(image) : j \in pos..(pos + n - 1) /\ CellIn(image, j) = <<s, k>>
  <2>1. PICK e \in 0..(n - 1) : k = at + e
    BY SMTT(30)
  <2>2. pos + e \in PresentIn(image) /\ CellIn(image, pos + e) = <<s, at + e>>
    BY <1>1, <1>3, Run
  <2>3. pos + e \in pos..(pos + n - 1)
    BY <1>2, SMTT(30)
  <2> QED
    BY <2>1, <2>2, <2>3
<1>6. ASSUME NEW j \in pos..(pos + n - 1)
      PROVE  /\ j \in PresentIn(image)
             /\ \E k \in at..(at + n - 1) : CellIn(image, j) = <<s, k>>
  <2>1. PICK e \in 0..(n - 1) : j = pos + e
    BY <1>2, SMTT(30)
  <2>2. pos + e \in PresentIn(image) /\ CellIn(image, pos + e) = <<s, at + e>>
    BY <1>1, <1>3, Run
  <2>3. at + e \in at..(at + n - 1)
    BY <1>3, SMTT(30)
  <2> QED
    BY <2>1, <2>2, <2>3
<1>7. ASSUME NEW i \in PresentIn(image)
      PROVE  d2[CellIn(image, i)[1]][CellIn(image, i)[2]] =
               IF i \in pos..(pos + n - 1) THEN v
               ELSE d[CellIn(image, i)[1]][CellIn(image, i)[2]]
  <2>1. PICK r \in Sectors, k \in Cells :
          CellIn(image, i) = <<r, k>> /\ r = CellIn(image, i)[1] /\ k = CellIn(image, i)[2]
    BY CellOnDisk
  <2>2. ASSUME i \in pos..(pos + n - 1) PROVE r = s /\ k \in at..(at + n - 1)
    <3>1. PICK h \in at..(at + n - 1) : <<r, k>> = <<s, h>>
      BY <1>6, <2>1, <2>2
    <3>2. r = s /\ k = h
      BY <3>1, SMTT(30)
    <3> QED
      BY <3>2
  <2>3. ASSUME r = s, k \in at..(at + n - 1) PROVE i \in pos..(pos + n - 1)
    <3>1. PICK j \in PresentIn(image) :
            j \in pos..(pos + n - 1) /\ CellIn(image, j) = <<s, k>>
      BY <1>5, <2>3
    <3>2. i = j
      BY <2>1, <2>3, <3>1, CellsApart
    <3> QED
      BY <3>1, <3>2
  <2>4. d2[r][k] = IF r = s /\ k \in at..(at + n - 1) THEN v ELSE d[r][k]
    BY <1>4
  <2> QED
    BY <2>1, <2>2, <2>3, <2>4
<1>8. ContentIn(image, d2) =
        [i \in DOMAIN ContentIn(image, d) |->
           IF i \in pos..(pos + n - 1) THEN v ELSE ContentIn(image, d)[i]]
  <2>1. DOMAIN ContentIn(image, d) = 0..(Size - 1) /\ DOMAIN ContentIn(image, d2) = 0..(Size - 1)
    BY DEF ContentIn
  <2>2. ASSUME NEW i \in 0..(Size - 1)
        PROVE  ContentIn(image, d2)[i] =
                 IF i \in pos..(pos + n - 1) THEN v ELSE ContentIn(image, d)[i]
    <3>1. CASE i \in PresentIn(image)
      BY <1>7, <3>1 DEF ContentIn
    <3>2. CASE i \notin PresentIn(image)
      BY <1>6, <3>2 DEF ContentIn
    <3> QED
      BY <3>1, <3>2
  <2>3. ContentIn(image, d2) = [i \in 0..(Size - 1) |-> ContentIn(image, d2)[i]]
    BY DEF ContentIn
  <2> QED
    BY <2>1, <2>2, <2>3
<1>9. OthersIn(image, d2) = OthersIn(image, d)
  <2>1. PICK used : used = {CellIn(image, i) : i \in PresentIn(image)}
    OBVIOUS
  <2>2. ASSUME NEW c \in (Sectors \X Cells) \ used PROVE d2[c[1]][c[2]] = d[c[1]][c[2]]
    <3>1. PICK r \in Sectors, k \in Cells : c = <<r, k>> /\ r = c[1] /\ k = c[2]
      BY SMTT(30)
    <3>2. ASSUME r = s, k \in at..(at + n - 1) PROVE FALSE
      BY <1>5, <2>1, <3>1, <3>2
    <3> QED
      BY <1>4, <3>1, <3>2
  <2> QED
    BY <2>1, <2>2 DEF OthersIn, Sectors, Cells
<1> QED
  BY <1>8, <1>9


-----------------------------------------------------------------------------
(* The inductive invariant.                                                *)

(* The cell that holds pointer idx of the indirect block.                  *)
PointerSector(image, idx) == image.indirect * SECTORS_PER_BLOCK + idx \div SECTOR_SIZE

(* The indirect block still holds the pointers of the image: no write of   *)
(* the file lands in it.                                                   *)
PointersKept(image, d) ==
  image.indirect # 0 =>
    \A idx \in 0..(INDIRECT_BLOCK_ENTRIES - 1) :
      d[PointerSector(image, idx)][idx % SECTOR_SIZE] = image.ptrs[idx]

(* The operation in progress stays inside the file, and counts what it     *)
(* moved.  Its mapped block is one the image gives to the file; once       *)
(* something was moved it is the block of the position, or the position is *)
(* the first byte of a block.                                              *)
OperationSound(image, o, r) ==
  /\ r \in Operations
  /\ r.pos = o + r.total
  /\ r.pos + r.left <= Size
  /\ r.left + r.total >= 1
  /\ r.mapped # Idle =>
       /\ r.mapped[1] \in Nat
       /\ r.mapped[2] = BlockOf(image, r.mapped[1])
       /\ r.mapped[2] # 0
  /\ r.total > 0 =>
       /\ r.mapped # Idle
       /\ r.mapped[1] = r.pos \div BLOCK_SIZE \/ r.pos % BLOCK_SIZE = 0

IInv ==
  /\ inode \in Images
  /\ disk \in Disks
  /\ off \in 0..Size
  /\ PointersKept(inode, disk)
  /\ req # Idle => OperationSound(inode, off, req)
  /\ ShortOnlyAtBlock

LEMMA Counts ==
  /\ Size \in Nat /\ NSectors \in Nat /\ MaxReq \in Nat /\ DIRECT_BLOCKS \in Nat
  /\ \A image \in Images : Sound(image)
  /\ INDIRECT_BLOCK_ENTRIES = BLOCK_SIZE
BY FileAssumption

(* data_block finds the block the image gives to the file.                 *)
LEMMA PointerPlace ==
  ASSUME NEW image, Sound(image), image.indirect # 0,
         NEW idx \in 0..(INDIRECT_BLOCK_ENTRIES - 1)
  PROVE  /\ idx \div SECTOR_SIZE \in 0..(SECTORS_PER_BLOCK - 1)
         /\ PointerSector(image, idx) = SectorOf(image.indirect, idx \div SECTOR_SIZE)
         /\ PointerSector(image, idx) \in Sectors
         /\ idx % SECTOR_SIZE \in Cells
<1>1. idx \in 0..(BLOCK_SIZE - 1)
  BY Counts
<1>2. PICK t \in 0..(SECTORS_PER_BLOCK - 1) : t = idx \div SECTOR_SIZE
  BY <1>1, SectorInBlock
<1>3. idx % SECTOR_SIZE \in Cells
  BY <1>1, SectorInBlock DEF Cells
<1>4. image.indirect \in Nat /\ OnDisk(image.indirect)
  BY DEF Sound
<1>5. SectorOf(image.indirect, t) \in Sectors
  BY <1>4, SectorOnDisk
<1> QED
  BY <1>2, <1>3, <1>5 DEF PointerSector, SectorOf

LEMMA DataBlockFound ==
  ASSUME IInv, NEW lb \in Nat
  PROVE  DataBlock(lb) = BlockAt(lb)
<1>1. PICK d \in Nat, e \in Nat : d = DIRECT_BLOCKS /\ e = INDIRECT_BLOCK_ENTRIES
  BY Counts, Geometry
<1>2. CASE lb < DIRECT_BLOCKS
  BY <1>2 DEF DataBlock, BlockAt, BlockOf, Direct
<1>3. CASE ~(lb < DIRECT_BLOCKS) /\ (inode.indirect = 0 \/ lb - DIRECT_BLOCKS >= INDIRECT_BLOCK_ENTRIES)
  BY <1>3 DEF DataBlock, BlockAt, BlockOf, Direct
<1>4. CASE ~(lb < DIRECT_BLOCKS) /\ inode.indirect # 0 /\ ~(lb - DIRECT_BLOCKS >= INDIRECT_BLOCK_ENTRIES)
  <2>1. PICK idx \in 0..(INDIRECT_BLOCK_ENTRIES - 1) : idx = lb - DIRECT_BLOCKS
    BY <1>1, <1>4, SMTT(30)
  <2>2. disk[PointerSector(inode, idx)][idx % SECTOR_SIZE] = inode.ptrs[idx]
    BY <1>4 DEF IInv, PointersKept
  <2> QED
    BY <1>4, <2>1, <2>2 DEF DataBlock, BlockAt, BlockOf, Direct, PointerSector
<1> QED
  BY <1>2, <1>3, <1>4

LEMMA InitInvariant == Init => IInv
<1> SUFFICES ASSUME Init PROVE IInv
  OBVIOUS
<1>1. inode \in Images /\ Sound(inode)
  BY Counts DEF Init
<1>2. PICK image : image = inode
  OBVIOUS
<1>3. /\ image.indirect \in Nat
      /\ image.ptrs \in [0..(INDIRECT_BLOCK_ENTRIES - 1) -> Nat]
  BY <1>1, <1>2 DEF Sound
<1>4. disk = [s \in Sectors |-> [k \in Cells |->
                 IF s \div SECTORS_PER_BLOCK = image.indirect /\ image.indirect # 0
                 THEN image.ptrs[(s % SECTORS_PER_BLOCK) * SECTOR_SIZE + k]
                 ELSE <<s, k>>]]
  BY <1>2 DEF Init, Sectors, Cells
<1>5. ASSUME NEW s \in Sectors, NEW k \in Cells
      PROVE  (s % SECTORS_PER_BLOCK) * SECTOR_SIZE + k \in 0..(INDIRECT_BLOCK_ENTRIES - 1)
  <2>1. s \in Nat
    BY Counts, SMTT(30) DEF Sectors
  <2>2. PICK t \in 0..(SECTORS_PER_BLOCK - 1) : t = s % SECTORS_PER_BLOCK
    BY <2>1, Division, Geometry
  <2>3. t * SECTOR_SIZE + k \in 0..(BLOCK_SIZE - 1)
    BY CellInBlock DEF Cells
  <2> QED
    BY <2>2, <2>3, Counts
<1>6. ASSUME NEW s \in Sectors, NEW k \in Cells
      PROVE  <<s, k>> \in CellValues
  <2>1. s \in Nat /\ k \in Nat
    BY Counts, Geometry, SMTT(30) DEF Sectors, Cells
  <2> QED
    BY <2>1 DEF CellValues
<1>7. disk \in Disks
  <2>1. Nat \subseteq CellValues
    BY DEF CellValues
  <2>2. ASSUME NEW s \in Sectors, NEW k \in Cells
        PROVE  (IF s \div SECTORS_PER_BLOCK = image.indirect /\ image.indirect # 0
                THEN image.ptrs[(s % SECTORS_PER_BLOCK) * SECTOR_SIZE + k]
                ELSE <<s, k>>) \in CellValues
    <3>1. image.ptrs[(s % SECTORS_PER_BLOCK) * SECTOR_SIZE + k] \in CellValues
      BY <1>3, <1>5, <2>1
    <3> QED
      BY <1>6, <3>1
  <2> QED
    BY <1>4, <2>2 DEF Disks
<1>8. PointersKept(inode, disk)
  <2> SUFFICES ASSUME image.indirect # 0, NEW idx \in 0..(INDIRECT_BLOCK_ENTRIES - 1)
               PROVE  disk[PointerSector(image, idx)][idx % SECTOR_SIZE] = image.ptrs[idx]
    BY <1>2 DEF PointersKept
  <2>1. PICK t \in 0..(SECTORS_PER_BLOCK - 1), k \in Cells :
          /\ t = idx \div SECTOR_SIZE /\ k = idx % SECTOR_SIZE
          /\ PointerSector(image, idx) = SectorOf(image.indirect, t)
          /\ SectorOf(image.indirect, t) \in Sectors
    BY <1>1, <1>2, PointerPlace
  <2>2. idx = t * SECTOR_SIZE + k
    BY <2>1, SectorInBlock, Counts
  <2>3. PICK b \in Nat, m \in Nat \ {0} : b = image.indirect /\ m = SECTORS_PER_BLOCK
    BY <1>3, Geometry
  <2>4. (b * m + t) \div m = b /\ (b * m + t) % m = t
    BY <2>3, Quotient
  <2>5. PICK s \in Sectors : s = SectorOf(image.indirect, t)
    BY <2>1
  <2>6. s \div SECTORS_PER_BLOCK = image.indirect /\ s % SECTORS_PER_BLOCK = t
    BY <2>3, <2>4, <2>5 DEF SectorOf
  <2>7. disk[s][k] = IF s \div SECTORS_PER_BLOCK = image.indirect /\ image.indirect # 0
                     THEN image.ptrs[(s % SECTORS_PER_BLOCK) * SECTOR_SIZE + k]
                     ELSE <<s, k>>
    BY <1>4
  <2> QED
    BY <2>1, <2>2, <2>5, <2>6, <2>7
<1>9. off \in 0..Size
  BY Counts, SMTT(30) DEF Init
<1>10. ShortOnlyAtBlock
  BY SMTT(30) DEF Init, ShortOnlyAtBlock
<1> QED
  BY <1>1, <1>7, <1>8, <1>9, <1>10 DEF IInv, Init

-----------------------------------------------------------------------------
(* One sector of an operation.                                             *)

LEMMA Fields ==
  ASSUME NEW r \in Operations
  PROVE  /\ r.kind \in {"read", "write"} /\ r.pos \in Nat /\ r.left \in Nat /\ r.total \in Nat
         /\ r.val \in Byte /\ r.mapped \in {Idle} \cup (Nat \X Nat)
         /\ r = [kind |-> r.kind, pos |-> r.pos, left |-> r.left, total |-> r.total,
                 val |-> r.val, mapped |-> r.mapped]
BY SMTT(30) DEF Operations

(* After a sector the position is in the same block or starts the next.    *)
LEMMA NextPosition ==
  ASSUME NEW pos \in Nat, NEW n \in Nat, n <= SECTOR_SIZE - (pos % SECTOR_SIZE)
  PROVE  (pos + n) \div BLOCK_SIZE = pos \div BLOCK_SIZE \/ (pos + n) % BLOCK_SIZE = 0
<1>1. PICK lb \in Nat, t \in 0..(SECTORS_PER_BLOCK - 1), c \in 0..(SECTOR_SIZE - 1) :
        /\ lb = pos \div BLOCK_SIZE /\ c = pos % SECTOR_SIZE /\ pos = Position(lb, t, c)
  BY Split
<1>2. PICK m \in Nat \ {0}, z \in Nat \ {0} : m = SECTORS_PER_BLOCK /\ z = SECTOR_SIZE
  BY Geometry
<1>3. n <= z - c /\ t \in 0..(m - 1) /\ c \in 0..(z - 1)
  BY <1>1, <1>2
<1>4. pos = (lb * m + t) * z + c
  BY <1>1, <1>2 DEF Position
<1>5. PICK w \in Nat : w = (lb * m + t) * z
  BY <1>3, SMTT(30)
<1>6. CASE n < z - c
  <2>1. PICK e \in 0..(z - 1) : e = c + n
    BY <1>3, <1>6, SMTT(30)
  <2>2. pos + n = w + e
    BY <1>3, <1>4, <1>5, <2>1, SMTT(30)
  <2>3. pos + n = Position(lb, t, e)
    BY <1>2, <1>5, <2>2 DEF Position
  <2>4. e \in 0..(SECTOR_SIZE - 1)
    BY <1>2
  <2>5. /\ Position(lb, t, e) \in Nat
        /\ Position(lb, t, e) \div BLOCK_SIZE = lb
        /\ (Position(lb, t, e) % BLOCK_SIZE) \div SECTOR_SIZE = t
        /\ Position(lb, t, e) % SECTOR_SIZE = e
    BY <2>4, Join
  <2> QED
    BY <1>1, <2>3, <2>5
<1>7. CASE n = z - c /\ t < m - 1
  <2>1. PICK u \in 0..(m - 1) : u = t + 1
    BY <1>3, <1>7, SMTT(30)
  <2>2. pos + n = w + z
    BY <1>3, <1>4, <1>5, <1>7, SMTT(30)
  <2>3. w + z = (lb * m + u) * z + 0
    BY <1>3, <1>5, <2>1, SMTT(30)
  <2>4. PICK e \in 0..(z - 1) : e = 0
    BY SMTT(30)
  <2>5. pos + n = Position(lb, u, e)
    BY <1>2, <2>2, <2>3, <2>4 DEF Position
  <2>6. e \in 0..(SECTOR_SIZE - 1) /\ u \in 0..(SECTORS_PER_BLOCK - 1)
    BY <1>2
  <2>7. /\ Position(lb, u, e) \in Nat
        /\ Position(lb, u, e) \div BLOCK_SIZE = lb
        /\ (Position(lb, u, e) % BLOCK_SIZE) \div SECTOR_SIZE = u
        /\ Position(lb, u, e) % SECTOR_SIZE = e
    BY <2>6, Join
  <2> QED
    BY <1>1, <2>5, <2>7
<1>8. CASE n = z - c /\ t = m - 1
  <2>1. pos + n = w + z
    BY <1>3, <1>4, <1>5, <1>8, SMTT(30)
  <2>2. w + z = (lb + 1) * (z * m) + 0
    BY <1>3, <1>5, <1>8, SMTT(30)
  <2>3. PICK b \in Nat \ {0}, h \in Nat : b = BLOCK_SIZE /\ h = lb + 1
    BY Geometry, SMTT(30)
  <2>4. b = z * m
    BY <1>2, <2>3 DEF BLOCK_SIZE
  <2>5. 0 \in 0..(b - 1)
    BY SMTT(30)
  <2>6. (h * b + 0) % b = 0
    BY <2>5, Quotient
  <2> QED
    BY <2>1, <2>2, <2>3, <2>4, <2>6
<1> QED
  BY <1>3, <1>6, <1>7, <1>8, SMTT(30)

(* What Advance does to the operation.                                     *)
Advanced(r, n) == [r EXCEPT !.pos = @ + n, !.left = @ - n, !.total = @ + n]

LEMMA AdvancedFields ==
  ASSUME NEW r \in Operations, NEW n \in 1..r.left
  PROVE  /\ Advanced(r, n) = [kind |-> r.kind, pos |-> r.pos + n, left |-> r.left - n,
                              total |-> r.total + n, val |-> r.val, mapped |-> r.mapped]
         /\ Advanced(r, n) \in Operations
<1>1. PICK q : q = [kind |-> r.kind, pos |-> r.pos + n, left |-> r.left - n,
                    total |-> r.total + n, val |-> r.val, mapped |-> r.mapped]
  OBVIOUS
<1>2. Advanced(r, n) = q
  <2>1. PICK k, p, l, t, v, m : /\ k = r.kind /\ p = r.pos /\ l = r.left /\ t = r.total
                                /\ v = r.val /\ m = r.mapped
    OBVIOUS
  <2>2. r = [kind |-> k, pos |-> p, left |-> l, total |-> t, val |-> v, mapped |-> m]
    BY <2>1, Fields
  <2>3. PICK x : x = [r EXCEPT !.pos = r.pos + n]
    OBVIOUS
  <2>4. x = [kind |-> k, pos |-> p + n, left |-> l, total |-> t, val |-> v, mapped |-> m]
    BY <2>2, <2>3, SMTT(30)
  <2>5. PICK y : y = [x EXCEPT !.left = r.left - n]
    OBVIOUS
  <2>6. y = [kind |-> k, pos |-> p + n, left |-> l - n, total |-> t, val |-> v, mapped |-> m]
    BY <2>2, <2>4, <2>5, SMTT(30)
  <2>7. [y EXCEPT !.total = r.total + n] = q
    BY <1>1, <2>2, <2>6, SMTT(30)
  <2> QED
    BY <2>3, <2>5, <2>7 DEF Advanced
<1>3. /\ r.kind \in {"read", "write"} /\ r.pos \in Nat /\ r.left \in Nat /\ r.total \in Nat
      /\ r.val \in Byte /\ r.mapped \in {Idle} \cup (Nat \X Nat)
  BY Fields
<1>4. r.pos + n \in Nat /\ r.left - n \in Nat /\ r.total + n \in Nat
  BY <1>3, SMTT(30)
<1>5. q \in Operations
  BY <1>1, <1>3, <1>4 DEF Operations
<1> QED
  BY <1>1, <1>2, <1>5

LEMMA AdvanceSound ==
  ASSUME NEW image, NEW o \in 0..Size, NEW r, OperationSound(image, o, r), r.mapped # Idle,
         r.mapped[1] = r.pos \div BLOCK_SIZE,
         NEW n \in 1..r.left, n <= SECTOR_SIZE - (r.pos % SECTOR_SIZE)
  PROVE  OperationSound(image, o, Advanced(r, n))
<1>1. r \in Operations
  BY DEF OperationSound
<1>2. /\ r.pos \in Nat /\ r.left \in Nat /\ r.total \in Nat
  BY <1>1, Fields
<1>3. PICK q : q = Advanced(r, n)
  OBVIOUS
<1>4. /\ q \in Operations /\ q.pos = r.pos + n /\ q.left = r.left - n /\ q.total = r.total + n
      /\ q.mapped = r.mapped
  <2>1. /\ q = [kind |-> r.kind, pos |-> r.pos + n, left |-> r.left - n,
                total |-> r.total + n, val |-> r.val, mapped |-> r.mapped]
        /\ q \in Operations
    BY <1>1, <1>3, AdvancedFields
  <2> QED
    BY <2>1
<1>5. n \in Nat
  BY <1>2, SMTT(30)
<1>6. PICK p \in Nat : p = r.pos
  BY <1>2
<1>7. (p + n) \div BLOCK_SIZE = p \div BLOCK_SIZE \/ (p + n) % BLOCK_SIZE = 0
  BY <1>5, <1>6, NextPosition
<1>8. r.pos = o + r.total /\ r.pos + r.left <= Size /\ r.left + r.total >= 1
  BY DEF OperationSound
<1>9. q.pos = o + q.total /\ q.pos + q.left <= Size /\ q.left + q.total >= 1
  <2>1. PICK a \in Nat, b \in Nat : a = r.left /\ b = r.total
    BY <1>2
  <2>2. p = o + b /\ p + a <= Size /\ a + b >= 1
    BY <1>6, <1>8, <2>1
  <2>3. p + n = o + (b + n) /\ (p + n) + (a - n) <= Size /\ (a - n) + (b + n) >= 1
    BY <1>5, <2>1, <2>2, Counts, SMTT(30)
  <2> QED
    BY <1>4, <1>6, <2>1, <2>3
<1>10. /\ q.mapped # Idle /\ q.mapped[1] \in Nat
       /\ q.mapped[2] = BlockOf(image, q.mapped[1]) /\ q.mapped[2] # 0
  BY <1>4 DEF OperationSound
<1>11. q.mapped[1] = q.pos \div BLOCK_SIZE \/ q.pos % BLOCK_SIZE = 0
  BY <1>4, <1>6, <1>7
<1> QED
  BY <1>3, <1>4, <1>9, <1>10, <1>11 DEF OperationSound

(* The sector an operation in its loop transfers.                          *)
LEMMA Transfer ==
  ASSUME IInv, InLoop, Mapped
  PROVE  /\ req.pos \in PresentIn(inode)
         /\ Sector = CellIn(inode, req.pos)[1]
         /\ Sector \in Sectors
         /\ Chunk \in 1..req.left
         /\ Chunk <= SECTOR_SIZE - (req.pos % SECTOR_SIZE)
         /\ req.pos + Chunk <= Size
<1>1. Sound(inode) /\ OperationSound(inode, off, req) /\ off \in 0..Size /\ req.left > 0
  BY Counts DEF IInv, InLoop
<1>2. /\ req.pos \in Nat /\ req.left \in Nat /\ req.total \in Nat
      /\ req.mapped # Idle /\ req.mapped[1] = req.pos \div BLOCK_SIZE
      /\ req.mapped[2] = BlockOf(inode, req.mapped[1]) /\ req.mapped[2] # 0
      /\ req.pos + req.left <= Size
  BY <1>1, Fields DEF OperationSound, Mapped, LogicalBlock
<1>3. PICK p \in Nat, l \in Nat : p = req.pos /\ l = req.left
  BY <1>2
<1>4. l > 0 /\ p + l <= Size
  BY <1>1, <1>2, <1>3
<1>5. p \in 0..(Size - 1)
  BY <1>4, Counts, SMTT(30)
<1>6. p \in PresentIn(inode)
  BY <1>2, <1>3, <1>5 DEF PresentIn
<1>7. CellIn(inode, p) = <<SectorOf(BlockOf(inode, p \div BLOCK_SIZE),
                                    (p % BLOCK_SIZE) \div SECTOR_SIZE), p % SECTOR_SIZE>>
  BY <1>1, <1>6, CellShape
<1>8. Sector = SectorOf(BlockOf(inode, p \div BLOCK_SIZE), (p % BLOCK_SIZE) \div SECTOR_SIZE)
  BY <1>2, <1>3 DEF Sector, SectorOf
<1>9. Sector = CellIn(inode, p)[1]
  <2>1. PICK x, y : CellIn(inode, p) = <<x, y>> /\ x = Sector
    BY <1>7, <1>8
  <2>2. <<x, y>>[1] = x
    BY SMTT(30)
  <2> QED
    BY <2>1, <2>2
<1>10. CellIn(inode, p)[1] \in Sectors
  BY <1>1, <1>6, CellOnDisk
<1>11. PICK a \in 0..(SECTOR_SIZE - 1) : a = p % SECTOR_SIZE
  BY Split
<1>12. Chunk = IF SECTOR_SIZE - a < l THEN SECTOR_SIZE - a ELSE l
  BY <1>3, <1>11 DEF Chunk, Lesser
<1>13. PICK z \in Nat \ {0} : z = SECTOR_SIZE
  BY Geometry
<1>14. Chunk \in 1..l /\ Chunk <= z - a /\ p + Chunk <= Size
  BY <1>4, <1>12, <1>13, Counts, SMTT(30)
<1> QED
  BY <1>3, <1>6, <1>9, <1>10, <1>11, <1>13, <1>14

(* A write of the file leaves the pointers alone.                          *)
LEMMA WriteKeepsPointers ==
  ASSUME NEW image, Sound(image), NEW d \in Disks, NEW pos \in PresentIn(image),
         PointersKept(image, d), NEW s, s = CellIn(image, pos)[1], NEW at, NEW n, NEW v \in Byte
  PROVE  /\ Overwrite(d, s, at, n, v) \in Disks
         /\ PointersKept(image, Overwrite(d, s, at, n, v))
<1>1. PICK b \in Nat, t \in 0..(SECTORS_PER_BLOCK - 1) :
        /\ b = BlockOf(image, pos \div BLOCK_SIZE) /\ t = (pos % BLOCK_SIZE) \div SECTOR_SIZE
        /\ b # image.indirect
  BY BlockSound, Split
<1>2. s = SectorOf(b, t) /\ s \in Sectors
  <2>1. CellIn(image, pos) = <<SectorOf(b, t), pos % SECTOR_SIZE>>
    BY <1>1, CellShape
  <2>2. <<SectorOf(b, t), pos % SECTOR_SIZE>>[1] = SectorOf(b, t)
    <3>1. PICK x, y : x = SectorOf(b, t) /\ y = pos % SECTOR_SIZE
      OBVIOUS
    <3>2. <<x, y>>[1] = x
      BY SMTT(30)
    <3> QED
      BY <3>1, <3>2
  <2> QED
    BY <2>1, <2>2, CellOnDisk
<1>3. PICK e : e = Overwrite(d, s, at, n, v)
  OBVIOUS
<1>4. /\ e \in Disks
      /\ \A r \in Sectors, k \in Cells :
           e[r][k] = IF r = s /\ k \in at..(at + n - 1) THEN v ELSE d[r][k]
  <2>1. s \in Sectors
    BY <1>2
  <2> QED
    BY <1>3, <2>1, OverwriteDisk, SMTT(30)
<1>5. ASSUME image.indirect # 0, NEW idx \in 0..(INDIRECT_BLOCK_ENTRIES - 1)
      PROVE  e[PointerSector(image, idx)][idx % SECTOR_SIZE] = image.ptrs[idx]
  <2>1. PICK u \in 0..(SECTORS_PER_BLOCK - 1) :
          PointerSector(image, idx) = SectorOf(image.indirect, u)
    BY <1>5, PointerPlace
  <2>2. PICK r \in Sectors, k \in Cells : r = PointerSector(image, idx) /\ k = idx % SECTOR_SIZE
    BY <1>5, PointerPlace
  <2>3. PICK p \in Nat : p = image.indirect
    BY DEF Sound
  <2>4. ASSUME r = s PROVE FALSE
    <3>1. SectorOf(p, u) = SectorOf(b, t)
      BY <1>2, <2>1, <2>2, <2>3, <2>4
    <3>2. p = b
      BY <3>1, SectorsApart, SMTT(30)
    <3> QED
      BY <1>1, <2>3, <3>2
  <2>5. e[r][k] = d[r][k]
    BY <1>4, <2>4
  <2>6. d[r][k] = image.ptrs[idx]
    BY <1>5, <2>2 DEF PointersKept
  <2> QED
    BY <2>2, <2>5, <2>6
<1> QED
  BY <1>3, <1>4, <1>5 DEF PointersKept

-----------------------------------------------------------------------------
(* Every step preserves the invariant.                                     *)

(* Nothing but the operation and the bytes read changes.                   *)
LEMMA OnlyOperation ==
  ASSUME IInv, UNCHANGED <<inode, off, res>>, disk' \in Disks, PointersKept(inode, disk'),
         req' # Idle => OperationSound(inode, off, req')
  PROVE  IInv'
<1>1. ShortOnlyAtBlock'
  BY DEF IInv, ShortOnlyAtBlock, BlockAt
<1> QED
  BY <1>1 DEF IInv

(* The operation ends.                                                     *)
LEMMA OperationEnds ==
  ASSUME IInv, UNCHANGED inode, disk' \in Disks, PointersKept(inode, disk'),
         req' = Idle, off' \in 0..Size, ShortOnlyAtBlock'
  PROVE  IInv'
BY DEF IInv

LEMMA FullResult ==
  ASSUME NEW status, NEW asked, NEW got, Result(status, asked, got),
         status # "ok" \/ asked = got, asked \in Nat
  PROVE  ShortOnlyAtBlock'
<1>1. res'.status = status /\ res'.asked = asked /\ res'.got = got
  BY DEF Result
<1>2. status = "ok" => ~(got < asked)
  BY SMTT(30)
<1> QED
  BY <1>1, <1>2 DEF ShortOnlyAtBlock

LEMMA StartStep ==
  ASSUME IInv, NEW kind \in {"read", "write"}, NEW n \in 0..MaxReq, NEW v \in Byte,
         Start(kind, n, v)
  PROVE  IInv'
<1>1. UNCHANGED <<disk, inode, off>> /\ req = Idle
  BY DEF Start
<1>2. 0 \in Nat
  OBVIOUS
<1>3. CASE inode.ty # "File" \/ off >= Size \/ n = 0
  <2>1. UNCHANGED req /\ (Result("err", 0, 0) \/ Result("ok", 0, 0))
    BY <1>3 DEF Start
  <2>2. ShortOnlyAtBlock'
    BY <1>2, <2>1, FullResult
  <2> QED
    BY <1>1, <2>1, <2>2, OperationEnds DEF IInv
<1>4. CASE inode.ty = "File" /\ ~(off >= Size) /\ n # 0
  <2>1. /\ req' = [kind |-> kind, pos |-> off, left |-> Clamp(n), total |-> 0, val |-> v,
                   mapped |-> Idle]
        /\ Result("none", 0, 0)
    BY <1>4 DEF Start
  <2>2. ShortOnlyAtBlock'
    BY <1>2, <2>1, FullResult
  <2>3. off \in Nat /\ Clamp(n) \in Nat \ {0} /\ off + Clamp(n) <= Size
    BY <1>4, Counts, SMTT(30) DEF IInv, Clamp, Lesser
  <2>4. req' \in Operations
    BY <1>2, <2>1, <2>3 DEF Operations
  <2>5. /\ req'.pos = off /\ req'.total = 0 /\ req'.left = Clamp(n) /\ req'.mapped = Idle
    BY <2>1
  <2>6. off = off + 0 /\ Clamp(n) + 0 >= 1 /\ ~(0 > 0)
    BY <2>3, SMTT(30)
  <2>7. OperationSound(inode, off, req')
    BY <2>3, <2>4, <2>5, <2>6 DEF OperationSound
  <2> QED
    BY <1>1, <2>2, <2>7 DEF IInv
<1> QED
  BY <1>3, <1>4

LEMMA MapStep ==
  ASSUME IInv, MapBlock
  PROVE  IInv' /\ req' \in Operations
<1>1. OperationSound(inode, off, req) /\ Sound(inode)
  BY Counts DEF IInv, MapBlock, InLoop
<1>2. req \in Operations /\ req.pos \in Nat
  BY <1>1, Fields DEF OperationSound
<1>3. PICK lb \in Nat : lb = req.pos \div BLOCK_SIZE
  BY <1>2, Split
<1>4. DataBlock(lb) = BlockAt(lb)
  BY DataBlockFound
<1>5. PICK b \in Nat \ {0} : b = BlockOf(inode, lb)
  <2>1. BlockOf(inode, lb) # 0
    BY <1>3, <1>4 DEF MapBlock, LogicalBlock, BlockAt
  <2> QED
    BY <1>1, <2>1, BlockType
<1>6. req' = [req EXCEPT !.mapped = <<lb, b>>]
  BY <1>3, <1>4, <1>5 DEF MapBlock, LogicalBlock, BlockAt
<1>7. PICK q : q = [req EXCEPT !.mapped = <<lb, b>>]
  OBVIOUS
<1>8. PICK m \in Nat \X Nat : m = <<lb, b>> /\ m[1] = lb /\ m[2] = b
  <2>1. <<lb, b>> \in Nat \X Nat
    OBVIOUS
  <2>2. <<lb, b>>[1] = lb /\ <<lb, b>>[2] = b
    BY SMTT(30)
  <2> QED
    BY <2>1, <2>2
<1>9. m # Idle
  BY FileAssumption
<1>10. /\ q \in Operations /\ q.pos = req.pos /\ q.left = req.left /\ q.total = req.total
       /\ q.mapped = m
  BY <1>2, <1>7, <1>8 DEF Operations
<1>11. OperationSound(inode, off, q)
  BY <1>1, <1>3, <1>5, <1>8, <1>9, <1>10 DEF OperationSound
<1> QED
  BY <1>6, <1>7, <1>10, <1>11, OnlyOperation DEF MapBlock, IInv

LEMMA NoBlockStep ==
  ASSUME IInv, NoBlock
  PROVE  IInv'
<1>1. OperationSound(inode, off, req) /\ UNCHANGED <<disk, inode>> /\ req' = Idle
  BY DEF IInv, NoBlock, InLoop
<1>2. req \in Operations
  BY <1>1 DEF OperationSound
<1>3. PICK p \in Nat, l \in Nat, t \in Nat : p = req.pos /\ l = req.left /\ t = req.total
  BY <1>2, Fields
<1>4. p = off + t /\ p + l <= Size /\ l > 0
  BY <1>1, <1>3 DEF OperationSound, NoBlock, InLoop
<1>5. off' \in 0..Size /\ ShortOnlyAtBlock'
  <2>1. CASE t > 0
    <3>1. off' = off + t /\ Result("ok", l + t, t)
      BY <1>3, <2>1 DEF NoBlock
    <3>2. off' = p
      BY <1>4, <3>1
    <3>3. req.mapped # Idle /\ (req.mapped[1] = p \div BLOCK_SIZE \/ p % BLOCK_SIZE = 0)
      BY <1>1, <1>3, <2>1 DEF OperationSound
    <3>4. p % BLOCK_SIZE = 0
      BY <1>3, <3>3 DEF NoBlock, Mapped, LogicalBlock
    <3>5. PICK lb \in Nat : lb = p \div BLOCK_SIZE
      BY Split
    <3>6. DataBlock(lb) = BlockAt(lb)
      BY DataBlockFound
    <3>7. BlockAt(lb) = 0 \/ ~(lb < DIRECT_BLOCKS)
      BY <1>3, <3>5, <3>6 DEF NoBlock, LogicalBlock, Direct
    <3>8. BlockAt(lb) = 0 \/ lb >= DIRECT_BLOCKS
      BY <3>7, Counts, SMTT(30)
    <3>9. BlockAt(lb)' = BlockAt(lb)
      BY <1>1 DEF BlockAt
    <3>10. res'.got = t
      BY <3>1 DEF Result
    <3>11. ShortOnlyAtBlock'
      BY <2>1, <3>2, <3>4, <3>5, <3>8, <3>9, <3>10 DEF ShortOnlyAtBlock
    <3>12. p \in 0..Size
      BY <1>4, Counts, SMTT(30)
    <3> QED
      BY <3>2, <3>11, <3>12
  <2>2. CASE ~(t > 0)
    <3>1. UNCHANGED off /\ Result("err", l, 0)
      BY <1>3, <2>2 DEF NoBlock
    <3>2. ShortOnlyAtBlock'
      BY <3>1, FullResult
    <3> QED
      BY <3>1, <3>2 DEF IInv
  <2> QED
    BY <2>1, <2>2
<1> QED
  BY <1>1, <1>5, OperationEnds DEF IInv

(* Both transfers advance the operation.                                   *)
LEMMA AdvanceStep ==
  ASSUME IInv, InLoop, Mapped, Advance
  PROVE  req' = Advanced(req, Chunk) /\ OperationSound(inode, off, req')
<1>1. OperationSound(inode, off, req) /\ off \in 0..Size
  BY DEF IInv, InLoop
<1>2. req' = Advanced(req, Chunk)
  BY DEF Advance, Advanced
<1>3. PICK n \in 1..req.left : n = Chunk /\ n <= SECTOR_SIZE - (req.pos % SECTOR_SIZE)
  BY Transfer
<1>4. req.mapped # Idle /\ req.mapped[1] = req.pos \div BLOCK_SIZE
  BY DEF Mapped, LogicalBlock
<1>5. OperationSound(inode, off, Advanced(req, n))
  BY <1>1, <1>3, <1>4, AdvanceSound
<1> QED
  BY <1>2, <1>3, <1>5

LEMMA ReadStep ==
  ASSUME IInv, ReadSector
  PROVE  IInv'
<1>1. OperationSound(inode, off, req')
  BY AdvanceStep DEF ReadSector
<1> QED
  BY <1>1, OnlyOperation DEF ReadSector, IInv

(* What a write does to the disk.                                          *)
LEMMA WrittenDisk ==
  ASSUME IInv, InLoop, Mapped
  PROVE  /\ [disk EXCEPT ![Sector] = NewSector]
              = Overwrite(disk, Sector, req.pos % SECTOR_SIZE, Chunk, req.val)
         /\ [disk EXCEPT ![Sector] = NewSector] \in Disks
         /\ PointersKept(inode, [disk EXCEPT ![Sector] = NewSector])
<1>1. /\ Sound(inode) /\ disk \in Disks /\ PointersKept(inode, disk) /\ req \in Operations
  BY Counts DEF IInv, InLoop, OperationSound
<1>2. [disk EXCEPT ![Sector] = NewSector]
        = Overwrite(disk, Sector, req.pos % SECTOR_SIZE, Chunk, req.val)
  BY DEF Overwrite, NewSector
<1>3. req.val \in Byte
  BY <1>1, Fields
<1>4. PICK pos \in PresentIn(inode), v \in Byte :
        pos = req.pos /\ Sector = CellIn(inode, pos)[1] /\ v = req.val
  BY <1>3, Transfer
<1>5. PICK s, at, n : s = Sector /\ at = req.pos % SECTOR_SIZE /\ n = Chunk
  OBVIOUS
<1>6. /\ Overwrite(disk, s, at, n, v) \in Disks
      /\ PointersKept(inode, Overwrite(disk, s, at, n, v))
  BY <1>1, <1>4, <1>5, WriteKeepsPointers
<1> QED
  BY <1>2, <1>4, <1>5, <1>6

LEMMA WriteStep ==
  ASSUME IInv, WriteSector
  PROVE  IInv'
<1>1. OperationSound(inode, off, req')
  BY AdvanceStep DEF WriteSector
<1>2. disk' \in Disks /\ PointersKept(inode, disk')
  BY WrittenDisk DEF WriteSector
<1> QED
  BY <1>1, <1>2, OnlyOperation DEF WriteSector

LEMMA TransferErrorStep ==
  ASSUME IInv, TransferError
  PROVE  IInv'
<1>1. disk' \in Disks /\ PointersKept(inode, disk')
  <2>1. CASE disk' = [disk EXCEPT ![Sector] = NewSector]
    BY <2>1, WrittenDisk DEF TransferError
  <2>2. CASE UNCHANGED disk
    BY <2>2 DEF IInv
  <2> QED
    BY <2>1, <2>2 DEF TransferError
<1>2. req.left + req.total \in Nat
  <2>1. req.left \in Nat /\ req.total \in Nat
    BY Fields DEF IInv, TransferError, InLoop, OperationSound
  <2> QED
    BY <2>1, SMTT(30)
<1>3. ShortOnlyAtBlock'
  BY <1>2, FullResult DEF TransferError, Failed
<1> QED
  BY <1>1, <1>3, OperationEnds DEF TransferError, Failed, IInv

LEMMA DoneStep ==
  ASSUME IInv, Done
  PROVE  IInv'
<1>1. OperationSound(inode, off, req)
  BY DEF IInv, Done
<1>2. PICK p \in Nat, t \in Nat : p = req.pos /\ t = req.total
  BY <1>1, Fields DEF OperationSound
<1>3. p = off + t /\ p + 0 <= Size
  BY <1>1, <1>2 DEF OperationSound, Done
<1>4. p \in 0..Size
  BY <1>3, Counts, SMTT(30)
<1>5. off' \in 0..Size
  BY <1>2, <1>3, <1>4 DEF Done
<1>6. ShortOnlyAtBlock'
  BY <1>2, FullResult DEF Done
<1> QED
  BY <1>5, <1>6, OperationEnds DEF Done, IInv

LEMMA SeekStep ==
  ASSUME IInv, NEW base \in {0, off, Size}, NEW d \in (-MaxSeek)..MaxSeek, Seek(base, d)
  PROVE  IInv' /\ off' \in 0..Size
<1>1. off' \in 0..Size
  <2>1. CASE base + d < 0 \/ base + d > Size
    BY <2>1 DEF Seek, IInv
  <2>2. CASE ~(base + d < 0 \/ base + d > Size)
    <3>1. base \in Int /\ d \in Int
      BY Counts, SMTT(30) DEF IInv
    <3>2. base + d \in 0..Size
      BY <2>2, <3>1, Counts, SMTT(30)
    <3> QED
      BY <2>2, <3>2 DEF Seek
  <2> QED
    BY <2>1, <2>2
<1>2. ShortOnlyAtBlock'
  <2>1. Result("err", 0, 0) \/ Result("seek", 0, 0)
    BY DEF Seek
  <2>2. 0 \in Nat
    OBVIOUS
  <2> QED
    BY <2>1, <2>2, FullResult
<1> QED
  BY <1>1, <1>2, OperationEnds DEF Seek, IInv

LEMMA NextInvariant == IInv /\ [Next]_vars => IInv'
<1> SUFFICES ASSUME IInv, [Next]_vars PROVE IInv'
  OBVIOUS
<1>1. CASE UNCHANGED vars
  BY <1>1 DEF vars, IInv, ShortOnlyAtBlock, BlockAt
<1>2. CASE Next
  BY <1>2, StartStep, MapStep, NoBlockStep, ReadStep, WriteStep, TransferErrorStep, DoneStep,
     SeekStep DEF Next
<1> QED
  BY <1>1, <1>2

(* File operations keep the offset and the operation in progress inside    *)
(* the file, and never overwrite a pointer of the indirect block.          *)
THEOREM FileInductive == Spec => []IInv
<1>1. Init => IInv
  BY InitInvariant
<1>2. IInv /\ [Next]_vars => IInv'
  BY NextInvariant
<1> QED
  BY <1>1, <1>2, PTL DEF Spec

(* INode::read and INode::write report fewer bytes than they were asked    *)
(* for and the file has only where data_block failed.                      *)
THEOREM ShortCorrect == Spec => []ShortOnlyAtBlock
<1>1. IInv => ShortOnlyAtBlock
  BY DEF IInv
<1> QED
  BY <1>1, FileInductive, PTL

-----------------------------------------------------------------------------
(* Every step is a step of ByteFile, or changes nothing it shows.          *)

LEMMA Mapping ==
  Content = ContentIn(inode, disk) /\ Others = OthersIn(inode, disk)
BY DEF Content, ContentIn, Others, OthersIn, Present, PresentIn, Cell, CellIn, BlockAt

LEMMA MappingNext ==
  Content' = ContentIn(inode', disk') /\ Others' = OthersIn(inode', disk')
BY DEF Content, ContentIn, Others, OthersIn, Present, PresentIn, Cell, CellIn, BlockAt

(* What ByteFile sees of an operation.                                     *)
Shown(r) ==
  [kind |-> r.kind, pos |-> r.pos, left |-> r.left, total |-> r.total, val |-> r.val]

LEMMA ShownIsBusy ==
  ASSUME NEW r \in Operations
  PROVE  Shown(r) # Idle /\ r # Idle
<1>1. /\ r.kind \in {"read", "write"} /\ r.pos \in Nat /\ r.left \in Nat /\ r.total \in Nat
      /\ r.val \in Byte
  BY Fields
<1>2. Shown(r) \in [kind : {"read", "write"}, pos : Nat, left : Nat, total : Nat, val : Byte]
  BY <1>1 DEF Shown
<1> QED
  BY <1>2, FileAssumption

LEMMA SameDisk ==
  ASSUME UNCHANGED <<disk, inode>>
  PROVE  UNCHANGED <<Content, Others>>
BY Mapping, MappingNext

LEMMA StartShown ==
  ASSUME IInv, IInv', NEW kind \in {"read", "write"}, NEW n \in 0..MaxReq, NEW v \in Byte,
         Start(kind, n, v)
  PROVE  File!Begin \/ UNCHANGED File!fileVars
<1>1. UNCHANGED <<disk, inode, off, out, Content, Others>> /\ req = Idle /\ Request = Idle
  BY SameDisk DEF Start, Request
<1>2. CASE UNCHANGED req
  BY <1>1, <1>2 DEF Request, File!fileVars
<1>3. CASE ~UNCHANGED req
  <2>1. /\ req' = [kind |-> kind, pos |-> off, left |-> Clamp(n), total |-> 0, val |-> v,
                   mapped |-> Idle]
        /\ ~(off >= Size) /\ n # 0
    BY <1>3 DEF Start
  <2>2. Clamp(n) \in 1..(Size - off) /\ off < Size
    BY <2>1, Counts, SMTT(30) DEF IInv, Clamp, Lesser
  <2>3. req' # Idle
    BY <1>1, <1>3
  <2>4. Request' = [kind |-> kind, pos |-> off, left |-> Clamp(n), total |-> 0, val |-> v]
    BY <2>1, <2>3 DEF Request
  <2> QED
    BY <1>1, <2>2, <2>4 DEF File!Begin
<1> QED
  BY <1>2, <1>3

LEMMA MapShown ==
  ASSUME IInv, IInv', MapBlock
  PROVE  UNCHANGED File!fileVars
<1>1. UNCHANGED <<disk, inode, off, out, Content, Others>>
  BY SameDisk DEF MapBlock
<1>2. req # Idle /\ req \in Operations
  BY DEF IInv, MapBlock, InLoop, OperationSound
<1>3. PICK m : req' = [req EXCEPT !.mapped = m]
  BY DEF MapBlock
<1>4. /\ req'.kind = req.kind /\ req'.pos = req.pos /\ req'.left = req.left
      /\ req'.total = req.total /\ req'.val = req.val /\ req'.mapped = m
  BY <1>2, <1>3 DEF Operations
<1>5. req' # Idle
  BY MapStep, ShownIsBusy
<1>6. Request' = Request
  BY <1>2, <1>4, <1>5 DEF Request
<1> QED
  BY <1>1, <1>6 DEF File!fileVars

(* A failed write that moved nothing.                                      *)
LEMMA NothingMoved ==
  ASSUME NEW pos \in Nat, NEW v
  PROVE  Content = [i \in DOMAIN Content |-> IF i \in pos..(pos + 0 - 1) THEN v ELSE Content[i]]
<1>1. pos..(pos + 0 - 1) = {}
  BY SMTT(30)
<1>2. Content = [i \in DOMAIN Content |-> Content[i]]
  BY DEF Content
<1> QED
  BY <1>1, <1>2

LEMMA NoBlockShown ==
  ASSUME IInv, NoBlock
  PROVE  File!Finish \/ File!Error
<1>1. /\ UNCHANGED <<disk, inode, Content, Others>> /\ req' = Idle /\ out' = <<>>
  BY SameDisk DEF NoBlock
<1>2. req # Idle /\ req \in Operations /\ req.pos \in Nat /\ req.left \in Nat
  BY Fields DEF IInv, NoBlock, InLoop, OperationSound
<1>3. Request # Idle /\ Request = Shown(req) /\ Request' = Idle
  BY <1>1, <1>2, ShownIsBusy DEF Request, Shown
<1>4. /\ Request.total = req.total /\ Request.left = req.left /\ Request.pos = req.pos
      /\ Request.val = req.val
  BY <1>3 DEF Shown
<1>5. CASE req.total > 0
  BY <1>1, <1>3, <1>4, <1>5 DEF NoBlock, File!Finish
<1>6. CASE ~(req.total > 0)
  <2>1. UNCHANGED off
    BY <1>6 DEF NoBlock
  <2>2. 0 \in 0..req.left
    BY <1>2, SMTT(30)
  <2>3. Content = [i \in DOMAIN Content |->
                     IF i \in req.pos..(req.pos + 0 - 1) THEN req.val ELSE Content[i]]
    BY <1>2, NothingMoved
  <2> QED
    BY <1>1, <1>3, <1>4, <2>1, <2>2, <2>3 DEF File!Error
<1> QED
  BY <1>5, <1>6

LEMMA DoneShown ==
  ASSUME IInv, Done
  PROVE  File!Finish
<1>1. /\ UNCHANGED <<disk, inode, Content, Others>> /\ req' = Idle /\ out' = <<>>
  BY SameDisk DEF Done
<1>2. req # Idle /\ req \in Operations /\ req.total \in Nat /\ 0 + req.total >= 1
  BY Fields DEF IInv, Done, OperationSound
<1>3. Request # Idle /\ Request = Shown(req) /\ Request' = Idle
  BY <1>1, <1>2, ShownIsBusy DEF Request, Shown
<1>4. req.total > 0
  BY <1>2, SMTT(30)
<1> QED
  BY <1>1, <1>3, <1>4 DEF Done, File!Finish, Shown

LEMMA SeekShown ==
  ASSUME IInv, NEW base \in {0, off, Size}, NEW d \in (-MaxSeek)..MaxSeek, Seek(base, d)
  PROVE  File!Reposition
<1>1. /\ UNCHANGED <<disk, inode, req, out, Content, Others>> /\ req = Idle
  BY SameDisk DEF Seek
<1>2. Request = Idle /\ Request' = Idle
  BY <1>1 DEF Request
<1> QED
  BY <1>1, <1>2, SeekStep DEF File!Reposition

(* ByteFile's record of an operation after Advance.                        *)
LEMMA AdvancedShown ==
  ASSUME NEW r \in Operations, NEW n \in 1..r.left
  PROVE  Shown(Advanced(r, n)) = [Shown(r) EXCEPT !.pos = @ + n, !.left = @ - n, !.total = @ + n]
<1>1. PICK k, p, l, t, v, m : /\ k = r.kind /\ p = r.pos /\ l = r.left /\ t = r.total
                              /\ v = r.val /\ m = r.mapped
  OBVIOUS
<1>2. Advanced(r, n) = [kind |-> k, pos |-> p + n, left |-> l - n, total |-> t + n, val |-> v,
                        mapped |-> m]
  BY <1>1, AdvancedFields
<1>3. Shown(Advanced(r, n)) = [kind |-> k, pos |-> p + n, left |-> l - n, total |-> t + n, val |-> v]
  <2>1. PICK g : g = [kind |-> k, pos |-> p + n, left |-> l - n, total |-> t + n, val |-> v,
                      mapped |-> m]
    OBVIOUS
  <2>2. g.kind = k /\ g.pos = p + n /\ g.left = l - n /\ g.total = t + n /\ g.val = v
    BY <2>1
  <2>3. g = Advanced(r, n)
    BY <1>2, <2>1
  <2> QED
    BY <2>2, <2>3 DEF Shown
<1>4. PICK s : s = [kind |-> k, pos |-> p, left |-> l, total |-> t, val |-> v]
  OBVIOUS
<1>5. s = Shown(r) /\ s.pos = p /\ s.left = l /\ s.total = t
  BY <1>1, <1>4 DEF Shown
<1>6. PICK x : x = [s EXCEPT !.pos = p + n]
  OBVIOUS
<1>7. x = [kind |-> k, pos |-> p + n, left |-> l, total |-> t, val |-> v]
  BY <1>4, <1>6, SMTT(30)
<1>8. PICK y : y = [x EXCEPT !.left = l - n]
  OBVIOUS
<1>9. y = [kind |-> k, pos |-> p + n, left |-> l - n, total |-> t, val |-> v]
  BY <1>7, <1>8, SMTT(30)
<1>10. [y EXCEPT !.total = t + n] = Shown(Advanced(r, n))
  BY <1>3, <1>9, SMTT(30)
<1> QED
  BY <1>5, <1>6, <1>8, <1>10

LEMMA AdvanceShown ==
  ASSUME IInv, InLoop, Mapped, Advance
  PROVE  /\ Request # Idle /\ Request = Shown(req)
         /\ Request' = [Request EXCEPT !.pos = @ + Chunk, !.left = @ - Chunk, !.total = @ + Chunk]
         /\ Chunk \in 1..Request.left
<1>1. req # Idle /\ req \in Operations
  BY DEF IInv, InLoop, OperationSound
<1>2. PICK n \in 1..req.left : n = Chunk
  BY Transfer
<1>3. Request # Idle /\ Request = Shown(req) /\ Request.left = req.left
  BY <1>1, ShownIsBusy DEF Request, Shown
<1>4. req' = Advanced(req, n) /\ req' \in Operations
  BY <1>2, AdvanceStep DEF OperationSound
<1>5. Request' = Shown(req')
  BY <1>4, ShownIsBusy DEF Request, Shown
<1>6. Shown(Advanced(req, n)) = [Shown(req) EXCEPT !.pos = @ + n, !.left = @ - n, !.total = @ + n]
  BY <1>1, AdvancedShown
<1> QED
  BY <1>2, <1>3, <1>4, <1>5, <1>6

LEMMA ReadShown ==
  ASSUME IInv, ReadSector
  PROVE  File!Move
<1>1. UNCHANGED <<disk, inode, off, Content, Others>> /\ req.kind = "read"
  BY SameDisk DEF ReadSector
<1>2. /\ Request # Idle /\ Request = Shown(req)
      /\ Request' = [Request EXCEPT !.pos = @ + Chunk, !.left = @ - Chunk, !.total = @ + Chunk]
      /\ Chunk \in 1..Request.left
  BY AdvanceShown DEF ReadSector
<1>3. Request.kind = "read" /\ Request.pos = req.pos
  BY <1>1, <1>2 DEF Shown
<1>4. Sound(inode) /\ req \in Operations
  BY Counts DEF IInv, ReadSector, InLoop, OperationSound
<1>5. PICK pos \in PresentIn(inode), n \in Nat :
        /\ pos = req.pos /\ n = Chunk /\ Sector = CellIn(inode, pos)[1]
        /\ n <= SECTOR_SIZE - (pos % SECTOR_SIZE) /\ pos + n <= Size
  <2>1. Chunk \in Nat
    <3>1. req.left \in Nat /\ Chunk \in 1..req.left
      BY <1>4, Fields, Transfer DEF ReadSector
    <3> QED
      BY <3>1, SMTT(30)
  <2> QED
    BY <2>1, Transfer DEF ReadSector
<1>6. pos \in Nat /\ pos % SECTOR_SIZE \in Nat
  <2>1. pos \in Nat
    BY <1>4, BlockSound
  <2>2. pos % SECTOR_SIZE \in 0..(SECTOR_SIZE - 1)
    BY <2>1, Split
  <2> QED
    BY <2>1, <2>2, Geometry, SMTT(30)
<1>7. ASSUME NEW i \in 1..n
      PROVE  disk[Sector][(pos % SECTOR_SIZE) + i - 1] = Content[pos + i - 1]
  <2>1. PICK k \in 0..(n - 1) : k = i - 1
    BY SMTT(30)
  <2>2. (pos % SECTOR_SIZE) + i - 1 = (pos % SECTOR_SIZE) + k /\ pos + i - 1 = pos + k
    <3>1. PICK a \in Nat : a = pos % SECTOR_SIZE
      BY <1>6
    <3>2. a + i - 1 = a + k /\ pos + i - 1 = pos + k
      BY <1>6, <2>1, SMTT(30)
    <3> QED
      BY <3>1, <3>2
  <2>3. /\ pos + k \in PresentIn(inode)
        /\ CellIn(inode, pos + k) = <<Sector, (pos % SECTOR_SIZE) + k>>
    BY <1>4, <1>5, Run
  <2>4. PICK x, y : x = Sector /\ y = (pos % SECTOR_SIZE) + k
    OBVIOUS
  <2>5. CellIn(inode, pos + k)[1] = x /\ CellIn(inode, pos + k)[2] = y
    <3>1. <<x, y>>[1] = x /\ <<x, y>>[2] = y
      BY SMTT(30)
    <3> QED
      BY <2>3, <2>4, <3>1
  <2>6. pos + k \in 0..(Size - 1)
    BY <2>3 DEF PresentIn
  <2>7. ContentIn(inode, disk)[pos + k] = disk[x][y]
    BY <2>3, <2>5, <2>6 DEF ContentIn
  <2> QED
    BY <2>2, <2>4, <2>7, Mapping
<1>8. out' = out \o [i \in 1..n |-> disk[Sector][(pos % SECTOR_SIZE) + i - 1]]
  BY <1>5 DEF ReadSector
<1>9. [i \in 1..n |-> disk[Sector][(pos % SECTOR_SIZE) + i - 1]]
        = [i \in 1..n |-> Content[pos + i - 1]]
  BY <1>7
<1>10. out' = out \o [i \in 1..n |-> Content[Request.pos + i - 1]]
  BY <1>3, <1>5, <1>8, <1>9
<1> QED
  BY <1>1, <1>2, <1>3, <1>5, <1>10 DEF File!Move

(* A sector written by the file changes exactly its bytes.                 *)
LEMMA WriteContent ==
  ASSUME IInv, InLoop, Mapped, UNCHANGED inode, disk' = [disk EXCEPT ![Sector] = NewSector]
  PROVE  /\ Content' = [i \in DOMAIN Content |->
                          IF i \in req.pos..(req.pos + Chunk - 1) THEN req.val ELSE Content[i]]
         /\ Others' = Others
<1>1. Sound(inode) /\ disk \in Disks /\ req \in Operations
  BY Counts DEF IInv, InLoop, OperationSound
<1>2. Chunk \in Nat /\ req.val \in Byte
  <2>1. req.left \in Nat /\ Chunk \in 1..req.left /\ req.val \in Byte
    BY <1>1, Fields, Transfer
  <2> QED
    BY <2>1, SMTT(30)
<1>3. PICK pos \in PresentIn(inode), n \in Nat, v \in Byte :
        /\ pos = req.pos /\ n = Chunk /\ v = req.val
        /\ Sector = CellIn(inode, pos)[1]
        /\ n <= SECTOR_SIZE - (pos % SECTOR_SIZE) /\ pos + n <= Size
  BY <1>2, Transfer
<1>4. PICK d2 : d2 = Overwrite(disk, CellIn(inode, pos)[1], pos % SECTOR_SIZE, n, v)
  OBVIOUS
<1>5. disk' = d2
  BY <1>3, <1>4, WrittenDisk
<1>6. /\ ContentIn(inode, d2) =
           [i \in DOMAIN ContentIn(inode, disk) |->
              IF i \in pos..(pos + n - 1) THEN v ELSE ContentIn(inode, disk)[i]]
      /\ OthersIn(inode, d2) = OthersIn(inode, disk)
  BY <1>1, <1>3, <1>4, WriteRun, SMTT(30)
<1>7. Content' = ContentIn(inode, d2) /\ Others' = OthersIn(inode, d2)
  BY <1>5, MappingNext
<1> QED
  BY <1>3, <1>6, <1>7, Mapping

LEMMA WriteShown ==
  ASSUME IInv, WriteSector
  PROVE  File!Move
<1>1. UNCHANGED <<inode, off, out>> /\ req.kind = "write"
  BY DEF WriteSector
<1>2. /\ Request # Idle /\ Request = Shown(req)
      /\ Request' = [Request EXCEPT !.pos = @ + Chunk, !.left = @ - Chunk, !.total = @ + Chunk]
      /\ Chunk \in 1..Request.left
  BY AdvanceShown DEF WriteSector
<1>3. Request.kind # "read" /\ Request.pos = req.pos /\ Request.val = req.val
  BY <1>1, <1>2 DEF Shown
<1>4. /\ Content' = [i \in DOMAIN Content |->
                       IF i \in req.pos..(req.pos + Chunk - 1) THEN req.val ELSE Content[i]]
      /\ Others' = Others
  BY <1>1, WriteContent DEF WriteSector
<1> QED
  BY <1>1, <1>2, <1>3, <1>4 DEF File!Move

LEMMA TransferErrorShown ==
  ASSUME IInv, TransferError
  PROVE  File!Error
<1>1. /\ UNCHANGED <<inode, off>> /\ req' = Idle /\ out' = <<>> /\ InLoop /\ Mapped
  BY DEF TransferError, Failed
<1>2. req # Idle /\ req \in Operations /\ req.pos \in Nat /\ req.left \in Nat
  BY Fields DEF IInv, TransferError, InLoop, OperationSound
<1>3. Request # Idle /\ Request = Shown(req) /\ Request' = Idle
  BY <1>1, <1>2, ShownIsBusy DEF Request, Shown
<1>4. /\ Request.kind = req.kind /\ Request.left = req.left /\ Request.pos = req.pos
      /\ Request.val = req.val
  BY <1>3 DEF Shown
<1>5. CASE UNCHANGED disk
  <2>1. UNCHANGED <<Content, Others>>
    BY <1>1, <1>5, SameDisk
  <2>2. 0 \in 0..req.left
    BY <1>2, SMTT(30)
  <2>3. Content = [i \in DOMAIN Content |->
                     IF i \in req.pos..(req.pos + 0 - 1) THEN req.val ELSE Content[i]]
    BY <1>2, NothingMoved
  <2> QED
    BY <1>1, <1>3, <1>4, <2>1, <2>2, <2>3 DEF File!Error
<1>6. CASE req.kind = "write" /\ disk' = [disk EXCEPT ![Sector] = NewSector]
  <2>1. /\ Content' = [i \in DOMAIN Content |->
                         IF i \in req.pos..(req.pos + Chunk - 1) THEN req.val ELSE Content[i]]
        /\ Others' = Others
    BY <1>1, <1>6, WriteContent
  <2>2. Chunk \in 0..req.left
    <3>1. Chunk \in 1..req.left
      BY <1>1, Transfer
    <3> QED
      BY <3>1, <1>2, SMTT(30)
  <2>3. req.kind # "read"
    BY <1>6
  <2> QED
    BY <1>1, <1>3, <1>4, <2>1, <2>2, <2>3 DEF File!Error
<1> QED
  BY <1>5, <1>6 DEF TransferError

(* The sector loops over direct and indirect blocks of INode::read and     *)
(* INode::write implement a file that is a sequence of bytes.              *)
THEOREM FileImplemented == Spec => ImplementsByteFile
<1>1. Init => File!ByteInit
  BY DEF Init, File!ByteInit, Request
<1>2. IInv /\ IInv' /\ [Next]_vars => [File!ByteNext]_(File!fileVars)
  <2> SUFFICES ASSUME IInv, IInv', [Next]_vars
               PROVE  File!ByteNext \/ UNCHANGED File!fileVars
    OBVIOUS
  <2>1. CASE UNCHANGED vars
    <3>1. UNCHANGED <<Content, Others>>
      BY <2>1, SameDisk DEF vars
    <3> QED
      BY <2>1, <3>1 DEF vars, File!fileVars, Request
  <2>2. CASE Next
    <3>1. ASSUME NEW kind \in {"read", "write"}, NEW n \in 0..MaxReq, NEW v \in Byte,
                 Start(kind, n, v)
          PROVE  File!Begin \/ UNCHANGED File!fileVars
      BY <3>1, StartShown
    <3>2. ASSUME NEW base \in {0, off, Size}, NEW d \in (-MaxSeek)..MaxSeek, Seek(base, d)
          PROVE  File!Reposition
      BY <3>2, SeekShown
    <3> QED
      BY <2>2, <3>1, <3>2, MapShown, NoBlockShown, ReadShown, WriteShown, TransferErrorShown,
         DoneShown DEF Next, File!ByteNext
  <2> QED
    BY <2>1, <2>2
<1> QED
  BY <1>1, <1>2, FileInductive, PTL DEF Spec, ImplementsByteFile, File!ByteSpec

===============================================================================
