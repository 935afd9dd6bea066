---------------------------- MODULE KmallocProofs ----------------------------
(***************************************************************************)
(* Proofs about Kmalloc for every heap, every size of the header and every *)
(* set of layouts.  HeapIsTiled and BlocksAreSound need each other: a      *)
(* block is found again because no later split moves its node, and a split *)
(* leaves the nodes in use alone because nodes do not overlap.             *)
(***************************************************************************)
EXTENDS Kmalloc, TLAPS

USE ZenonT(20)

-----------------------------------------------------------------------------
(* Arithmetic of alignments.                                               *)

(* A multiple leaves no remainder, and what leaves none is a multiple.     *)
LEMMA Multiple ==
  ASSUME NEW n \in Nat \ {0}, NEW k \in Int
  PROVE  (n * k) % n = 0
BY SMTT(30)

LEMMA Divides ==
  ASSUME NEW x \in Nat, NEW n \in Nat \ {0}, x % n = 0
  PROVE  \E k \in Int : x = n * k
BY SMTT(30)

LEMMA MaskAligned ==
  ASSUME NEW x \in Int, NEW n \in Nat \ {0}
  PROVE  (x - (x % n)) % n = 0
BY SMTT(30)

(* align_up goes up, to a multiple of the alignment.                       *)
LEMMA AlignUp ==
  ASSUME NEW addr \in Nat, NEW n \in Nat \ {0}
  PROVE  /\ align_up(addr, n) \in Nat
         /\ align_up(addr, n) >= addr
         /\ align_up(addr, n) % n = 0
<1>1. PICK x \in Int : x = addr + n - 1
  BY SMTT(30)
<1>2. align_up(addr, n) = x - (x % n)
  BY <1>1 DEF align_up
<1>3. x % n \in 0..(n - 1)
  BY SMTT(30)
<1>4. (x - (x % n)) % n = 0
  BY MaskAligned
<1>5. x - (x % n) \in Nat /\ x - (x % n) >= addr
  BY <1>1, <1>3, SMTT(30)
<1> QED
  BY <1>2, <1>4, <1>5

(* The header behind an aligned node of aligned size is aligned.           *)
LEMMA SumAligned ==
  ASSUME NEW x \in Nat, NEW y \in Nat, NEW n \in Nat \ {0}, x % n = 0, y % n = 0
  PROVE  (x + y) % n = 0
<1>1. PICK i \in Int : x = n * i
  BY Divides
<1>2. PICK j \in Int : y = n * j
  BY Divides
<1>3. x + y = n * (i + j) /\ i + j \in Int
  BY <1>1, <1>2, SMTT(30)
<1> QED
  BY <1>3, Multiple

-----------------------------------------------------------------------------
Nodes == [sz : Nat, free : BOOLEAN, next : Int \cup {NoNode}]

(* The state of the allocator between two calls.                           *)
IInv ==
  /\ nodes \in [DOMAIN nodes -> Nodes]
  /\ back \in [{b.ptr : b \in live} -> Nat]
  /\ live \subseteq [ptr : Nat, size : Nat \ {0}, align : Nat \ {0}]
  /\ HeapIsTiled
  /\ BlocksAreSound

(* An assignment to the free field of a header.                            *)
LEMMA SetFree ==
  ASSUME NEW n \in Nodes, NEW v \in BOOLEAN, NEW m, m = [n EXCEPT !.free = v]
  PROVE  m \in Nodes /\ m.free = v /\ m.sz = n.sz /\ m.next = n.next
BY SMTT(30) DEF Nodes

(* What alloc computes for a node that fits.                               *)
LEMMA Sizes ==
  ASSUME NEW a \in Nat, NEW layout \in Layouts
  PROVE  /\ AllocSize(a, layout) \in Nat /\ AllocSize(a, layout) % HALIGN = 0
         /\ AllocSize(a, layout) > HEADER + USIZE
         /\ DataStart(a, layout) \in Nat /\ DataStart(a, layout) % layout.align = 0
         /\ BackOffset(a, layout) \in Nat
         /\ DataStart(a, layout) - BackOffset(a, layout) = a
         /\ a + HEADER + USIZE <= DataStart(a, layout)
         /\ DataStart(a, layout) + layout.size <= a + AllocSize(a, layout)
<1>1. layout.size \in Nat \ {0} /\ layout.align \in Nat \ {0}
  BY KmallocAssumption
<1>2. /\ HEADER \in Nat \ {0} /\ USIZE \in Nat \ {0} /\ HALIGN \in Nat \ {0}
      /\ a + HEADER + USIZE \in Nat
  BY KmallocAssumption, SMTT(30)
<1>3. PICK d \in Nat : d = DataStart(a, layout) /\ d >= a + HEADER + USIZE
  BY <1>1, <1>2, AlignUp DEF DataStart
<1>6. d % layout.align = 0
  BY <1>1, <1>2, <1>3, AlignUp DEF DataStart
<1>4. d - a + layout.size \in Nat /\ d - a + layout.size > HEADER + USIZE
  BY <1>1, <1>2, <1>3, SMTT(30)
<1>5. PICK z \in Nat : z = AllocSize(a, layout) /\ z >= d - a + layout.size
  BY <1>2, <1>3, <1>4, AlignUp DEF AllocSize
<1>7. z % HALIGN = 0
  BY <1>2, <1>3, <1>4, <1>5, AlignUp DEF AllocSize
<1>8. /\ z > HEADER + USIZE /\ d - a \in Nat /\ d - (d - a) = a
      /\ a + HEADER + USIZE <= d /\ d + layout.size <= a + z
  BY <1>1, <1>2, <1>3, <1>4, <1>5, SMTT(30)
<1> QED
  BY <1>3, <1>5, <1>6, <1>7, <1>8 DEF BackOffset

(* Where the rest of a node starts a node, the rest can hold one.          *)
LEMMA SplitRest ==
  ASSUME NEW rest \in Nat, Splits(rest)
  PROVE  rest > HEADER + USIZE
<1>1. HEADER + USIZE + 1 \in Nat /\ HALIGN \in Nat \ {0} /\ HEADER + USIZE \in Nat
  BY KmallocAssumption, SMTT(30)
<1>2. align_up(HEADER + USIZE + 1, HALIGN) \in Nat
      /\ align_up(HEADER + USIZE + 1, HALIGN) >= HEADER + USIZE + 1
  BY <1>1, AlignUp
<1> QED
  BY <1>1, <1>2, SMTT(30) DEF Splits

(* Two nodes with the same address behind their headers are the same.      *)
LEMMA Apart ==
  ASSUME IInv, NEW a \in DOMAIN nodes, NEW b \in DOMAIN nodes, NEW p \in Nat,
         a < p, p <= a + nodes[a].sz, b < p, p <= b + nodes[b].sz
  PROVE  a = b
<1>1. a \in Int /\ b \in Int /\ nodes[a].sz \in Int /\ nodes[b].sz \in Int
  BY SMTT(30) DEF IInv, HeapIsTiled, Nodes
<1>2. /\ a < b => a + nodes[a].sz <= b
      /\ b < a => b + nodes[b].sz <= a
  BY DEF IInv, HeapIsTiled
<1> QED
  BY <1>1, <1>2, SMTT(30)

(* Where a node lies.                                                      *)
LEMMA NodeFacts ==
  ASSUME IInv, NEW a \in DOMAIN nodes
  PROVE  /\ a \in Nat /\ a \in StartAddr..(EndAddr - HEADER) /\ a % HALIGN = 0
         /\ nodes[a] \in Nodes /\ nodes[a].sz \in Nat /\ nodes[a].next \in Int \cup {NoNode}
         /\ nodes[a].sz > HEADER + USIZE
         /\ a + nodes[a].sz <= EndAddr
         /\ nodes[a].next = NoNode => a + nodes[a].sz = EndAddr
         /\ nodes[a].next # NoNode => /\ nodes[a].next = a + nodes[a].sz
                                      /\ nodes[a].next \in DOMAIN nodes
<1>1. /\ a \in StartAddr..(EndAddr - HEADER) /\ a % HALIGN = 0
      /\ nodes[a].sz > HEADER + USIZE
      /\ nodes[a].next = NoNode => a + nodes[a].sz = EndAddr
      /\ nodes[a].next # NoNode => /\ nodes[a].next = a + nodes[a].sz
                                   /\ nodes[a].next \in DOMAIN nodes
                                   /\ nodes[a].next \in StartAddr..(EndAddr - HEADER)
  BY DEF IInv, HeapIsTiled
<1>2. nodes[a] \in Nodes
  BY DEF IInv
<1>3. nodes[a].sz \in Nat /\ nodes[a].next \in Int \cup {NoNode}
  BY <1>2 DEF Nodes
<1>4. StartAddr \in Nat /\ EndAddr \in Nat /\ HEADER \in Nat
  BY KmallocAssumption
<1>5. a \in Nat
  BY <1>1, <1>4, SMTT(30)
<1>6. a + nodes[a].sz <= EndAddr
  BY <1>1, <1>3, <1>4, <1>5, SMTT(30)
<1> QED
  BY <1>1, <1>2, <1>3, <1>5, <1>6

(* alloc keeps the tiling.                                                 *)
LEMMA PlaceTiles ==
  ASSUME IInv, NEW layout \in Layouts, NEW a \in DOMAIN nodes, FirstFit(a, layout),
         Place(a, layout)
  PROVE  /\ HeapIsTiled'
         /\ nodes' \in [DOMAIN nodes' -> Nodes]
         /\ DOMAIN nodes \subseteq DOMAIN nodes'
         /\ \A x \in DOMAIN nodes' : x # a => IF x \in DOMAIN nodes THEN nodes'[x] = nodes[x]
                                                                  ELSE nodes'[x].free
         /\ ~nodes'[a].free
         /\ AllocSize(a, layout) <= nodes'[a].sz
<1>1. PICK size \in Nat : /\ size = AllocSize(a, layout) /\ size <= nodes[a].sz
                         /\ size % HALIGN = 0 /\ size > HEADER + USIZE
  <2>1. nodes[a].sz >= AllocSize(a, layout) /\ a \in Nat /\ nodes[a].sz \in Nat
    BY NodeFacts DEF FirstFit, Fits
  <2> QED
    BY <2>1, Sizes, SMTT(30)
<1>2. PICK rest \in Nat : rest = nodes[a].sz - size
  BY <1>1, NodeFacts, SMTT(30)
<1>3. nodes[a].free
  BY DEF FirstFit, Fits
<1>4. StartAddr \in DOMAIN nodes
  BY DEF IInv, HeapIsTiled
<1>5. StartAddr \in Nat /\ EndAddr \in Nat /\ HEADER \in Nat /\ USIZE \in Nat /\ NoNode \notin Int
      /\ HALIGN \in Nat \ {0}
  BY KmallocAssumption
<1>6. \A x, y \in DOMAIN nodes : x < y => x + nodes[x].sz <= y
  BY DEF IInv, HeapIsTiled
<1>7. CASE ~Splits(rest)
  <2>1. nodes' = [nodes EXCEPT ![a].free = FALSE]
    BY <1>1, <1>2, <1>7 DEF Place
  <2>2. /\ DOMAIN nodes' = DOMAIN nodes
        /\ nodes' \in [DOMAIN nodes -> Nodes]
        /\ \A x \in DOMAIN nodes : x # a => nodes'[x] = nodes[x]
        /\ nodes'[a].free = FALSE /\ nodes'[a].sz = nodes[a].sz /\ nodes'[a].next = nodes[a].next
    <3>1. nodes \in [DOMAIN nodes -> Nodes]
      BY DEF IInv
    <3>2. PICK v \in BOOLEAN : v = FALSE
      OBVIOUS
    <3>3. PICK n, m : n \in Nodes /\ n = nodes[a] /\ m = [n EXCEPT !.free = v]
      BY <3>1
    <3>4. m \in Nodes /\ m.free = v /\ m.sz = n.sz /\ m.next = n.next
      BY <3>3, SetFree, SMTT(30)
    <3>5. nodes' = [nodes EXCEPT ![a] = m]
      <4>1. nodes' = [nodes EXCEPT ![a] = [nodes[a] EXCEPT !.free = FALSE]]
        BY <2>1
      <4>2. m = [nodes[a] EXCEPT !.free = FALSE]
        BY <3>2, <3>3
      <4> QED
        BY <4>1, <4>2
    <3> QED
      BY <3>1, <3>2, <3>3, <3>4, <3>5
  <2>3. \A x \in DOMAIN nodes : nodes'[x].sz = nodes[x].sz /\ nodes'[x].next = nodes[x].next
    BY <2>2
  <2>4. HeapIsTiled'
    BY <1>4, <1>6, <2>2, <2>3, NodeFacts DEF HeapIsTiled
  <2> QED
    BY <1>1, <2>2, <2>4
<1>8. CASE Splits(rest)
  <2>1. PICK w \in Nat : w = a + size
    BY <1>1, NodeFacts, SMTT(30)
  <2>2. nodes' = [x \in DOMAIN nodes \cup {w} |->
                    IF x = w THEN [sz |-> rest, free |-> TRUE, next |-> nodes[a].next]
                    ELSE IF x = a THEN [sz |-> size, free |-> FALSE, next |-> w]
                    ELSE nodes[x]]
    BY <1>1, <1>2, <1>8, <2>1 DEF Place
  <2>3. rest > HEADER + USIZE
    BY <1>2, <1>8, SplitRest
  <2>4. a < w /\ w < a + nodes[a].sz /\ w + rest = a + nodes[a].sz
    <3>1. a \in Nat /\ nodes[a].sz \in Nat
      BY NodeFacts
    <3>2. size > HEADER + USIZE
      BY <1>1
    <3> QED
      BY <1>2, <1>5, <2>1, <2>3, <3>1, <3>2, SMTT(30)
  <2>12. w % HALIGN = 0
    <3>1. a \in Nat /\ a % HALIGN = 0
      BY NodeFacts
    <3> QED
      BY <1>1, <1>5, <2>1, <3>1, SumAligned
  <2>5. w \notin DOMAIN nodes /\ w # a
    BY <1>6, <2>4, NodeFacts, SMTT(30)
  <2>6. /\ DOMAIN nodes' = DOMAIN nodes \cup {w}
        /\ nodes'[w] = [sz |-> rest, free |-> TRUE, next |-> nodes[a].next]
        /\ nodes'[a] = [sz |-> size, free |-> FALSE, next |-> w]
        /\ \A x \in DOMAIN nodes : x # a => nodes'[x] = nodes[x]
    BY <2>2, <2>5
  <2>7. /\ nodes'[w].sz = rest /\ nodes'[w].next = nodes[a].next
        /\ nodes'[a].sz = size /\ nodes'[a].next = w
        /\ nodes'[w].free = TRUE /\ nodes'[a].free = FALSE
    BY <2>6, SMTT(30)
  <2>8. nodes' \in [DOMAIN nodes' -> Nodes]
    <3>1. nodes'[w] \in Nodes /\ nodes'[a] \in Nodes
      BY <1>1, <1>2, <2>1, <2>6, NodeFacts, SMTT(30) DEF Nodes
    <3>2. \A x \in DOMAIN nodes' : nodes'[x] \in Nodes
      BY <2>6, <3>1, NodeFacts
    <3>3. nodes' = [x \in DOMAIN nodes' |-> nodes'[x]]
      BY <2>2
    <3> QED
      BY <3>2, <3>3
  <2>9. ASSUME NEW x \in DOMAIN nodes'
        PROVE  /\ x \in StartAddr..(EndAddr - HEADER) /\ x % HALIGN = 0
               /\ nodes'[x].sz > HEADER + USIZE
               /\ IF nodes'[x].next = NoNode
                  THEN x + nodes'[x].sz = EndAddr
                  ELSE nodes'[x].next = x + nodes'[x].sz /\ nodes'[x].next \in DOMAIN nodes'
    <3>1. CASE x = w
      <4>1. /\ a \in Nat /\ a \in StartAddr..(EndAddr - HEADER) /\ nodes[a].sz \in Nat
            /\ a + nodes[a].sz <= EndAddr
        BY NodeFacts
      <4>2. w \in StartAddr..(EndAddr - HEADER)
        BY <1>2, <1>5, <2>3, <2>4, <4>1, SMTT(30)
      <4>3. IF nodes[a].next = NoNode
            THEN a + nodes[a].sz = EndAddr
            ELSE nodes[a].next = a + nodes[a].sz /\ nodes[a].next \in DOMAIN nodes
        BY NodeFacts
      <4>4. IF nodes'[w].next = NoNode
            THEN w + nodes'[w].sz = EndAddr
            ELSE nodes'[w].next = w + nodes'[w].sz /\ nodes'[w].next \in DOMAIN nodes'
        BY <2>4, <2>6, <2>7, <4>3
      <4> QED
        BY <2>3, <2>7, <2>12, <3>1, <4>2, <4>4
    <3>2. CASE x = a
      <4>1. w # NoNode
        BY <1>5, <2>1, SMTT(30)
      <4> QED
        BY <1>1, <2>1, <2>6, <2>7, <3>2, <4>1, NodeFacts
    <3>3. CASE x \in DOMAIN nodes /\ x # a
      BY <2>6, <3>3, NodeFacts
    <3> QED
      BY <2>6, <3>1, <3>2, <3>3
  <2>10. ASSUME NEW x \in DOMAIN nodes', NEW y \in DOMAIN nodes', x < y
         PROVE  x + nodes'[x].sz <= y
    <3>1. \A z \in DOMAIN nodes : z \in Nat /\ nodes[z].sz \in Nat
      BY NodeFacts
    <3>2. CASE x = w
      BY <1>2, <1>6, <2>4, <2>6, <2>7, <2>10, <3>1, <3>2, SMTT(30)
    <3>3. CASE x = a
      <4>1. CASE y = w
        BY <2>1, <2>7, <3>3, <4>1, SMTT(30)
      <4>2. CASE y \in DOMAIN nodes
        BY <1>1, <1>6, <2>7, <2>10, <3>1, <3>3, <4>2, SMTT(30)
      <4> QED
        BY <2>6, <4>1, <4>2
    <3>4. CASE x \in DOMAIN nodes /\ x # a
      <4>1. nodes'[x].sz = nodes[x].sz
        BY <2>6, <3>4
      <4>2. CASE y = w
        BY <1>6, <2>4, <2>10, <3>1, <3>4, <4>1, <4>2, SMTT(30)
      <4>3. CASE y \in DOMAIN nodes
        BY <1>6, <2>10, <3>4, <4>1, <4>3
      <4> QED
        BY <2>6, <4>2, <4>3
    <3> QED
      BY <2>6, <3>2, <3>3, <3>4
  <2>11. HeapIsTiled'
    BY <1>4, <2>6, <2>9, <2>10 DEF HeapIsTiled
  <2> QED
    BY <1>1, <2>6, <2>7, <2>8, <2>11, NodeFacts, SMTT(30)
<1> QED
  BY <1>7, <1>8

(* A block lies in the node in use that its back offset leads to.          *)
LEMMA BlockFacts ==
  ASSUME IInv, NEW b \in live
  PROVE  /\ b.ptr \in Nat /\ b.size \in Nat \ {0} /\ b.align \in Nat \ {0}
         /\ back[b.ptr] \in Nat
         /\ Header(b) \in DOMAIN nodes /\ ~nodes[Header(b)].free
         /\ Header(b) \in Nat /\ nodes[Header(b)].sz \in Nat
         /\ Header(b) + HEADER + USIZE <= b.ptr
         /\ b.ptr + b.size <= Header(b) + nodes[Header(b)].sz
         /\ b.ptr % b.align = 0
         /\ Header(b) < b.ptr /\ b.ptr <= Header(b) + nodes[Header(b)].sz
<1>1. /\ b.ptr \in Nat /\ b.size \in Nat \ {0} /\ b.align \in Nat \ {0}
      /\ back[b.ptr] \in Nat
  BY DEF IInv
<1>2. /\ Header(b) \in DOMAIN nodes /\ ~nodes[Header(b)].free
      /\ Header(b) + HEADER + USIZE <= b.ptr
      /\ b.ptr + b.size <= Header(b) + nodes[Header(b)].sz
      /\ b.ptr % b.align = 0
  BY DEF IInv, BlocksAreSound
<1>3. Header(b) \in Nat /\ nodes[Header(b)].sz \in Nat
  BY <1>2, NodeFacts
<1>4. HEADER \in Nat \ {0} /\ USIZE \in Nat
  BY KmallocAssumption
<1>5. Header(b) < b.ptr /\ b.ptr <= Header(b) + nodes[Header(b)].sz
  BY <1>1, <1>2, <1>3, <1>4, SMTT(30)
<1> QED
  BY <1>1, <1>2, <1>3, <1>5

(* Blocks with one address are one block.                                  *)
LEMMA OnePtr ==
  ASSUME IInv, NEW b \in live, NEW c \in live, b.ptr = c.ptr
  PROVE  b = c
<1>1. Header(b) = Header(c)
  BY DEF Header
<1> QED
  BY <1>1 DEF IInv, BlocksAreSound

(* alloc gives a block that no other block shares a node with.             *)
LEMMA PlaceStep ==
  ASSUME IInv, NEW layout \in Layouts, NEW a \in DOMAIN nodes, FirstFit(a, layout),
         Place(a, layout)
  PROVE  IInv'
<1>1. a \in Nat /\ nodes[a].sz \in Nat /\ nodes[a].free /\ AllocSize(a, layout) <= nodes[a].sz
  <2>1. nodes[a].free /\ nodes[a].sz >= AllocSize(a, layout)
    BY DEF FirstFit, Fits
  <2> QED
    BY <2>1, NodeFacts, Sizes, SMTT(30)
<1>2. PICK ptr \in Nat, off \in Nat : \E new :
        /\ ptr = DataStart(a, layout) /\ off = BackOffset(a, layout)
        /\ new = [ptr |-> ptr, size |-> layout.size, align |-> layout.align]
  BY <1>1, Sizes
<1>0. PICK new :
        /\ ptr = DataStart(a, layout) /\ off = BackOffset(a, layout)
        /\ new = [ptr |-> ptr, size |-> layout.size, align |-> layout.align]
  BY <1>2
<1>3. /\ ptr - off = a /\ a + HEADER + USIZE <= ptr
      /\ ptr + layout.size <= a + AllocSize(a, layout)
      /\ ptr % layout.align = 0
      /\ AllocSize(a, layout) \in Nat
  BY <1>1, <1>0, Sizes
<1>4. /\ back' = [x \in DOMAIN back \cup {ptr} |-> IF x = ptr THEN off ELSE back[x]]
      /\ live' = live \cup {new}
  BY <1>0 DEF Place
<1>5. layout.size \in Nat \ {0} /\ layout.align \in Nat \ {0}
      /\ HEADER \in Nat \ {0} /\ USIZE \in Nat
  BY KmallocAssumption
<1>6. new.ptr = ptr /\ new.size = layout.size /\ new.align = layout.align
  BY <1>0
<1>7. \A b \in live : b.ptr # ptr
  <2> SUFFICES ASSUME NEW b \in live, b.ptr = ptr PROVE FALSE
    OBVIOUS
  <2>1. Header(b) \in DOMAIN nodes /\ ~nodes[Header(b)].free /\ Header(b) < ptr
        /\ ptr <= Header(b) + nodes[Header(b)].sz
    BY BlockFacts
  <2>2. a < ptr /\ ptr <= a + nodes[a].sz
    BY <1>1, <1>3, <1>5, SMTT(30)
  <2>3. Header(b) = a
    BY <2>1, <2>2, Apart
  <2> QED
    BY <1>1, <2>1, <2>3
<1>8. DOMAIN back = {b.ptr : b \in live}
  BY DEF IInv
<1>9. \A b \in live : back'[b.ptr] = back[b.ptr]
  BY <1>4, <1>7, <1>8
<1>10. back'[ptr] = off
  BY <1>4
<1>11. back' \in [{b.ptr : b \in live'} -> Nat]
  <2>1. {b.ptr : b \in live'} = DOMAIN back \cup {ptr}
    BY <1>4, <1>6, <1>8
  <2>2. \A x \in DOMAIN back : back[x] \in Nat
    BY DEF IInv
  <2> QED
    BY <1>4, <2>1, <2>2
<1>12. live' \subseteq [ptr : Nat, size : Nat \ {0}, align : Nat \ {0}]
  <2>1. new \in [ptr : Nat, size : Nat \ {0}, align : Nat \ {0}]
    BY <1>0, <1>5, SMTT(30)
  <2> QED
    BY <1>4, <2>1 DEF IInv
<1>13. \A b \in live : Header(b)' = Header(b)
  BY <1>9 DEF Header
<1>14. Header(new)' = a
  BY <1>3, <1>6, <1>10 DEF Header
<1>15. /\ HeapIsTiled'
       /\ nodes' \in [DOMAIN nodes' -> Nodes]
       /\ DOMAIN nodes \subseteq DOMAIN nodes'
       /\ \A x \in DOMAIN nodes' : x # a => IF x \in DOMAIN nodes THEN nodes'[x] = nodes[x]
                                                                ELSE nodes'[x].free
       /\ ~nodes'[a].free
       /\ AllocSize(a, layout) <= nodes'[a].sz
  BY PlaceTiles
<1>16. \A b \in live : Header(b) # a /\ nodes'[Header(b)] = nodes[Header(b)]
  BY <1>1, <1>15, BlockFacts
<1>17. ASSUME NEW b \in live'
       PROVE  /\ b.ptr % b.align = 0
              /\ Header(b)' \in DOMAIN nodes'
              /\ ~nodes'[Header(b)'].free
              /\ Header(b)' + HEADER + USIZE <= b.ptr
              /\ b.ptr + b.size <= Header(b)' + nodes'[Header(b)'].sz
  <2>1. CASE b \in live
    BY <1>13, <1>15, <1>16, <2>1, BlockFacts
  <2>2. CASE b = new
    <3>1. nodes'[a].sz \in Nat
      BY <1>15 DEF Nodes
    <3>2. ptr + layout.size <= a + nodes'[a].sz
      BY <1>1, <1>3, <1>5, <1>15, <3>1, SMTT(30)
    <3> QED
      BY <1>3, <1>6, <1>14, <1>15, <2>2, <3>2
  <2> QED
    BY <1>4, <2>1, <2>2
<1>18. ASSUME NEW b \in live', NEW c \in live', Header(b)' = Header(c)'
       PROVE  b = c
  <2>1. CASE b \in live /\ c \in live
    BY <1>13, <1>18, <2>1 DEF IInv, BlocksAreSound
  <2> QED
    BY <1>4, <1>13, <1>14, <1>16, <1>18, <2>1
<1>19. ASSUME NEW x \in DOMAIN nodes', ~nodes'[x].free
       PROVE  \E b \in live' : Header(b)' = x
  <2>1. CASE x = a
    BY <1>4, <1>14, <2>1
  <2>2. CASE x # a
    <3>1. x \in DOMAIN nodes /\ ~nodes[x].free
      BY <1>15, <1>19, <2>2
    <3>2. PICK b \in live : Header(b) = x
      BY <3>1 DEF IInv, BlocksAreSound
    <3> QED
      BY <1>4, <1>13, <3>2
  <2> QED
    BY <2>1, <2>2
<1>00. BlocksAreSound'
  BY <1>17, <1>18, <1>19 DEF BlocksAreSound
<1> QED
  BY <1>11, <1>12, <1>15, <1>00 DEF IInv

(* dealloc frees the node of the block.                                    *)
LEMMA DeallocStep ==
  ASSUME IInv, NEW d \in live, Dealloc(d)
  PROVE  IInv'
<1>1. PICK h : h = Header(d)
  OBVIOUS
<1>2. /\ nodes' = [nodes EXCEPT ![h].free = TRUE]
      /\ live' = live \ {d}
      /\ back' = [x \in DOMAIN back \ {d.ptr} |-> back[x]]
  BY <1>1 DEF Dealloc
<1>3. h \in DOMAIN nodes
  BY <1>1, BlockFacts
<1>4. /\ DOMAIN nodes' = DOMAIN nodes
      /\ nodes' \in [DOMAIN nodes -> Nodes]
      /\ \A x \in DOMAIN nodes : /\ nodes'[x].sz = nodes[x].sz /\ nodes'[x].next = nodes[x].next
                                 /\ nodes'[x].free <=> x = h \/ nodes[x].free
  <2>1. /\ DOMAIN nodes' = DOMAIN nodes
        /\ nodes' \in [DOMAIN nodes -> Nodes]
        /\ \A x \in DOMAIN nodes : x # h => nodes'[x] = nodes[x]
        /\ nodes'[h].free = TRUE /\ nodes'[h].sz = nodes[h].sz /\ nodes'[h].next = nodes[h].next
    <3>1. nodes \in [DOMAIN nodes -> Nodes]
      BY DEF IInv
    <3>2. PICK v \in BOOLEAN : v = TRUE
      OBVIOUS
    <3>3. PICK n, m : n \in Nodes /\ n = nodes[h] /\ m = [n EXCEPT !.free = v]
      BY <1>3, <3>1
    <3>4. m \in Nodes /\ m.free = v /\ m.sz = n.sz /\ m.next = n.next
      BY <3>3, SetFree, SMTT(30)
    <3>5. nodes' = [nodes EXCEPT ![h] = m]
      <4>1. nodes' = [nodes EXCEPT ![h] = [nodes[h] EXCEPT !.free = TRUE]]
        BY <1>2
      <4>2. m = [nodes[h] EXCEPT !.free = TRUE]
        BY <3>2, <3>3
      <4> QED
        BY <4>1, <4>2
    <3> QED
      BY <1>3, <3>1, <3>2, <3>3, <3>4, <3>5
  <2> QED
    BY <2>1
<1>5. HeapIsTiled'
  BY <1>4 DEF IInv, HeapIsTiled
<1>6. \A b \in live' : b \in live /\ b.ptr # d.ptr /\ Header(b) # h
  <2> SUFFICES ASSUME NEW b \in live' PROVE b \in live /\ b.ptr # d.ptr /\ Header(b) # h
    OBVIOUS
  <2>1. b \in live /\ b # d
    BY <1>2
  <2>2. Header(b) # h
    BY <1>1, <2>1 DEF IInv, BlocksAreSound
  <2> QED
    BY <2>1, <2>2, OnePtr
<1>7. DOMAIN back = {b.ptr : b \in live}
  BY DEF IInv
<1>8. \A b \in live' : back'[b.ptr] = back[b.ptr]
  BY <1>2, <1>6, <1>7
<1>9. \A b \in live' : Header(b)' = Header(b)
  BY <1>8 DEF Header
<1>10. back' \in [{b.ptr : b \in live'} -> Nat]
  <2>1. {b.ptr : b \in live'} = DOMAIN back \ {d.ptr}
    <3>1. ASSUME NEW x \in DOMAIN back \ {d.ptr} PROVE x \in {b.ptr : b \in live'}
      BY <1>2, <1>7, <3>1
    <3>2. ASSUME NEW x \in {b.ptr : b \in live'} PROVE x \in DOMAIN back \ {d.ptr}
      BY <1>6, <1>7, <3>2
    <3> QED
      BY <3>1, <3>2
  <2>2. \A x \in DOMAIN back : back[x] \in Nat
    BY DEF IInv
  <2> QED
    BY <1>2, <2>1, <2>2
<1>11. live' \subseteq [ptr : Nat, size : Nat \ {0}, align : Nat \ {0}]
  BY <1>2 DEF IInv
<1>12. ASSUME NEW b \in live'
       PROVE  /\ b.ptr % b.align = 0
              /\ Header(b)' \in DOMAIN nodes'
              /\ ~nodes'[Header(b)'].free
              /\ Header(b)' + HEADER + USIZE <= b.ptr
              /\ b.ptr + b.size <= Header(b)' + nodes'[Header(b)'].sz
  BY <1>4, <1>6, <1>9, BlockFacts
<1>13. ASSUME NEW b \in live', NEW c \in live', Header(b)' = Header(c)'
       PROVE  b = c
  BY <1>6, <1>9, <1>13 DEF IInv, BlocksAreSound
<1>14. ASSUME NEW x \in DOMAIN nodes', ~nodes'[x].free
       PROVE  \E b \in live' : Header(b)' = x
  <2>1. x \in DOMAIN nodes /\ x # h /\ ~nodes[x].free
    BY <1>4, <1>14
  <2>2. PICK b \in live : Header(b) = x
    BY <2>1 DEF IInv, BlocksAreSound
  <2>3. b \in live'
    BY <1>1, <1>2, <2>1, <2>2
  <2> QED
    BY <1>9, <2>2, <2>3
<1>15. BlocksAreSound'
  BY <1>12, <1>13, <1>14 DEF BlocksAreSound
<1> QED
  BY <1>4, <1>5, <1>10, <1>11, <1>15 DEF IInv

-----------------------------------------------------------------------------
(* new() makes one free node of the heap, and no sequence of alloc and     *)
(* dealloc leaves the invariant.                                           *)
THEOREM HeapInductive == Spec => []IInv
<1>1. Init => IInv
  <2> SUFFICES ASSUME Init PROVE IInv
    OBVIOUS
  <2>1. /\ DOMAIN nodes = {StartAddr}
        /\ nodes[StartAddr] = [sz |-> EndAddr - StartAddr, free |-> TRUE, next |-> NoNode]
        /\ live = {} /\ back = <<>>
    BY DEF Init
  <2>2. nodes[StartAddr].sz = EndAddr - StartAddr /\ nodes[StartAddr].free = TRUE
        /\ nodes[StartAddr].next = NoNode
    BY <2>1, SMTT(30)
  <2>3. /\ EndAddr - StartAddr \in Nat /\ StartAddr \in StartAddr..(EndAddr - HEADER)
        /\ StartAddr % HALIGN = 0 /\ EndAddr - StartAddr > HEADER + USIZE
        /\ StartAddr + (EndAddr - StartAddr) = EndAddr /\ ~(StartAddr < StartAddr)
    BY KmallocAssumption, SMTT(30)
  <2>4. nodes[StartAddr] \in Nodes
    BY <2>1, <2>3, SMTT(30) DEF Nodes
  <2>5. nodes \in [DOMAIN nodes -> Nodes]
    BY <2>4 DEF Init
  <2>6. HeapIsTiled
    BY <2>1, <2>2, <2>3 DEF HeapIsTiled
  <2>7. BlocksAreSound
    BY <2>1, <2>2 DEF BlocksAreSound
  <2>8. back \in [{b.ptr : b \in live} -> Nat]
    BY <2>1, SMTT(30)
  <2> QED
    BY <2>1, <2>5, <2>6, <2>7, <2>8 DEF IInv
<1>2. IInv /\ [Next]_vars => IInv'
  <2> SUFFICES ASSUME IInv, [Next]_vars PROVE IInv'
    OBVIOUS
  <2>1. ASSUME NEW layout \in Layouts, Alloc(layout) PROVE IInv'
    <3>1. CASE \E a \in DOMAIN nodes : FirstFit(a, layout) /\ Place(a, layout)
      BY <3>1, PlaceStep
    <3>2. CASE UNCHANGED <<nodes, back, live>>
      BY <3>2 DEF IInv, HeapIsTiled, BlocksAreSound, Header
    <3> QED
      BY <2>1, <3>1, <3>2 DEF Alloc
  <2>2. ASSUME NEW b \in live, Dealloc(b) PROVE IInv'
    BY <2>2, DeallocStep
  <2>3. CASE UNCHANGED vars
    BY <2>3 DEF IInv, HeapIsTiled, BlocksAreSound, Header, vars
  <2> QED
    BY <2>1, <2>2, <2>3 DEF Next
<1> QED
  BY <1>1, <1>2, PTL DEF Spec

(* The list covers the heap exactly, whatever is allocated and freed: the  *)
(* panic of traverse() is unreachable.                                     *)
THEOREM TilingCorrect == Spec => []HeapIsTiled
<1>1. IInv => HeapIsTiled
  BY DEF IInv
<1> QED
  BY <1>1, HeapInductive, PTL

(* A block is aligned, lies in a node of its own and leads dealloc to the  *)
(* header of that node.                                                    *)
THEOREM BlocksCorrect == Spec => []BlocksAreSound
<1>1. IInv => BlocksAreSound
  BY DEF IInv
<1> QED
  BY <1>1, HeapInductive, PTL

(* No byte belongs to two blocks that are in use, or to a block and to a   *)
(* header of the list.                                                     *)
BlocksDisjoint ==
  /\ \A b, c \in live : b # c => b.ptr + b.size <= c.ptr \/ c.ptr + c.size <= b.ptr
  /\ \A b \in live, a \in DOMAIN nodes : a + HEADER <= b.ptr \/ b.ptr + b.size <= a

(* The blocks lie in different nodes, and nodes do not overlap.            *)
LEMMA DisjointNodes == ASSUME IInv PROVE BlocksDisjoint
<1>1. ASSUME NEW b \in live, NEW a \in DOMAIN nodes, a # Header(b)
      PROVE  a + nodes[a].sz <= Header(b) \/ b.ptr + b.size <= a
  <2>1. /\ a < Header(b) => a + nodes[a].sz <= Header(b)
        /\ Header(b) < a => Header(b) + nodes[Header(b)].sz <= a
    BY BlockFacts DEF IInv, HeapIsTiled
  <2>2. /\ b.ptr \in Nat /\ b.size \in Nat /\ Header(b) \in Nat /\ nodes[Header(b)].sz \in Nat
        /\ b.ptr + b.size <= Header(b) + nodes[Header(b)].sz
        /\ a \in Nat
    BY BlockFacts, NodeFacts
  <2> QED
    BY <1>1, <2>1, <2>2, SMTT(30)
<1>2. ASSUME NEW b \in live, NEW c \in live, b # c
      PROVE  b.ptr + b.size <= c.ptr \/ c.ptr + c.size <= b.ptr
  <2>1. Header(b) # Header(c)
    BY <1>2 DEF IInv, BlocksAreSound
  <2>2. Header(c) + nodes[Header(c)].sz <= Header(b) \/ b.ptr + b.size <= Header(c)
    BY <1>1, <2>1, BlockFacts
  <2>3. /\ b.ptr \in Nat /\ b.size \in Nat /\ c.ptr \in Nat /\ c.size \in Nat
        /\ Header(b) \in Nat /\ Header(c) \in Nat /\ nodes[Header(c)].sz \in Nat
        /\ Header(b) < b.ptr
        /\ Header(c) < c.ptr /\ c.ptr + c.size <= Header(c) + nodes[Header(c)].sz
    BY BlockFacts
  <2> QED
    BY <2>2, <2>3, SMTT(30)
<1>3. ASSUME NEW b \in live, NEW a \in DOMAIN nodes
      PROVE  a + HEADER <= b.ptr \/ b.ptr + b.size <= a
  <2>1. /\ a \in Nat /\ nodes[a].sz \in Nat /\ nodes[a].sz > HEADER + USIZE
        /\ b.ptr \in Nat /\ Header(b) \in Nat /\ Header(b) < b.ptr
        /\ Header(b) + HEADER + USIZE <= b.ptr
        /\ HEADER \in Nat /\ USIZE \in Nat
    BY BlockFacts, NodeFacts, KmallocAssumption
  <2>2. CASE a = Header(b)
    BY <2>1, <2>2, SMTT(30)
  <2>3. CASE a # Header(b)
    BY <1>1, <2>1, <2>3, SMTT(30)
  <2> QED
    BY <2>2, <2>3
<1> QED
  BY <1>2, <1>3 DEF BlocksDisjoint

(* What alloc promises the kernel: until a block is given back its memory  *)
(* is nobody else's, and writing to it cannot damage the list.             *)
THEOREM BlocksApart == Spec => []BlocksDisjoint
<1>1. IInv => BlocksDisjoint
  BY DisjointNodes
<1> QED
  BY <1>1, HeapInductive, PTL
=============================================================================
