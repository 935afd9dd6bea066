-------------------------------- MODULE Kmalloc --------------------------------
(***************************************************************************)
(* The kernel heap: kmalloc/src/linked_list_allocator.rs behind the lock   *)
(* of kernel_allocator.rs.  A list of nodes covers the heap; each node is  *)
(*      [ header ][ maybe padding ][ back offset ][ data ]                 *)
(* alloc takes the first free node that is large enough and splits it if   *)
(* the rest can hold a node; dealloc finds the header through the back     *)
(* offset in front of the data.  Addresses and sizes are bytes.            *)
(***************************************************************************)
EXTENDS Integers

CONSTANTS
  StartAddr, EndAddr,
  HEADER, USIZE, HALIGN,   \* size_of::<Header>, size_of::<usize>, align_of::<Header>
  Layouts,                 \* set of [size, align] that the kernel asks for
  NoNode                   \* Header.next = None

(* The heap that mm::init reserves is page aligned and far larger than one *)
(* node; GlobalAlloc is never asked for 0 bytes, and alignments are at     *)
(* least 1 (Layout).                                                       *)
ASSUME KmallocAssumption ==
  /\ StartAddr \in Nat /\ EndAddr \in Nat
  /\ HEADER \in Nat \ {0} /\ USIZE \in Nat \ {0} /\ HALIGN \in Nat \ {0}
  /\ StartAddr % HALIGN = 0
  /\ StartAddr + HEADER + USIZE < EndAddr
  /\ Layouts \subseteq [size : Nat \ {0}, align : Nat \ {0}]
  /\ NoNode \notin Int

VARIABLES
  nodes,   \* the headers in memory, by address: [sz, free, next]
  back,    \* the back offsets of the live blocks, by the address of the data
  live,    \* blocks handed out: [ptr, size, align]
  oom      \* alloc panicked

vars == <<nodes, back, live, oom>>

(* (addr + align - 1) & !(align - 1): an alignment is a power of two, so   *)
(* the mask takes away the remainder.                                      *)
align_up(addr, align) ==
  LET x == addr + align - 1 IN x - (x % align)

(* LinkedListAllocator::new.                                               *)
Init ==
  /\ nodes = [a \in {StartAddr} |-> [sz |-> EndAddr - StartAddr, free |-> TRUE, next |-> NoNode]]
  /\ back = <<>>
  /\ live = {}
  /\ oom = FALSE

-----------------------------------------------------------------------------
DataStart(a, layout) == align_up(a + HEADER + USIZE, layout.align)

(* Mutant: the offset does not count the padding.                          *)
BackOffset_NoPadding(a, layout) == HEADER + USIZE

BackOffset(a, layout) == DataStart(a, layout) - a

AllocSize(a, layout) == align_up(DataStart(a, layout) - a + layout.size, HALIGN)

Fits(a, layout) == nodes[a].free /\ nodes[a].sz >= AllocSize(a, layout)

(* The rest of a node becomes a node if it can hold a header, a back       *)
(* offset and a byte.  Mutant: if there is any rest.                       *)
Splits_Always(rest) == rest > 0

Splits(rest) == rest >= align_up(HEADER + USIZE + 1, HALIGN)

(* The list is in address order, so the first node that fits is the        *)
(* lowest.                                                                 *)
FirstFit(a, layout) ==
  Fits(a, layout) /\ \A x \in DOMAIN nodes : Fits(x, layout) => a <= x

Place(a, layout) ==
  LET size == AllocSize(a, layout)
      rest == nodes[a].sz - size
      ptr  == DataStart(a, layout)
  IN  /\ nodes' = IF Splits(rest)
                  THEN [x \in DOMAIN nodes \cup {a + size} |->
                          IF x = a + size
                          THEN [sz |-> rest, free |-> TRUE, next |-> nodes[a].next]
                          ELSE IF x = a
                          THEN [sz |-> size, free |-> FALSE, next |-> a + size]
                          ELSE nodes[x]]
                  ELSE [nodes EXCEPT ![a].free = FALSE]
      /\ back' = [x \in DOMAIN back \cup {ptr} |->
                    IF x = ptr THEN BackOffset(a, layout) ELSE back[x]]
      /\ live' = live \cup {[ptr |-> ptr, size |-> layout.size, align |-> layout.align]}
      /\ UNCHANGED oom

Alloc(layout) ==
  /\ ~oom
  /\ \/ \E a \in DOMAIN nodes : FirstFit(a, layout) /\ Place(a, layout)
     \/ /\ \A a \in DOMAIN nodes : ~Fits(a, layout)
        /\ oom' = TRUE
        /\ UNCHANGED <<nodes, back, live>>

(* The caller gives back a block it was given.                             *)
Header(b) == b.ptr - back[b.ptr]

Dealloc(b) ==
  /\ ~oom
  /\ b \in live
  /\ nodes' = [nodes EXCEPT ![Header(b)].free = TRUE]
  /\ live' = live \ {b}
  /\ back' = [x \in DOMAIN back \ {b.ptr} |-> back[x]]
  /\ UNCHANGED oom

Next ==
  \/ \E layout \in Layouts : Alloc(layout)
  \/ \E b \in live : Dealloc(b)

Spec == Init /\ [][Next]_vars

-----------------------------------------------------------------------------
(* The panic of traverse(): "expected the traversed size to match the      *)
(* total size".  Every node ends where its successor starts, the last one  *)
(* at the end of the heap; no two overlap; each is aligned for its header  *)
(* and can hold at least one byte of data.                                 *)
HeapIsTiled ==
  /\ StartAddr \in DOMAIN nodes
  /\ \A a \in DOMAIN nodes :
       /\ a \in StartAddr..(EndAddr - HEADER) /\ a % HALIGN = 0
       /\ nodes[a].sz > HEADER + USIZE
       /\ IF nodes[a].next = NoNode
          THEN a + nodes[a].sz = EndAddr
          ELSE nodes[a].next = a + nodes[a].sz /\ nodes[a].next \in DOMAIN nodes
  /\ \A a, b \in DOMAIN nodes : a < b => a + nodes[a].sz <= b

(* Every block handed out lies behind the header and the back offset of a  *)
(* node of its own, aligned as asked; the back offset in front of it leads *)
(* to that header; and every node in use belongs to a block, so that       *)
(* nothing is lost while it can still be given back.                       *)
BlocksAreSound ==
  /\ \A b \in live :
       /\ b.ptr % b.align = 0
       /\ Header(b) \in DOMAIN nodes
       /\ ~nodes[Header(b)].free
       /\ Header(b) + HEADER + USIZE <= b.ptr
       /\ b.ptr + b.size <= Header(b) + nodes[Header(b)].sz
  /\ \A b, c \in live : Header(b) = Header(c) => b = c
  /\ \A a \in DOMAIN nodes : ~nodes[a].free => \E b \in live : Header(b) = a
===============================================================================
