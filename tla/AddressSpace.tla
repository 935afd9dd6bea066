----------------------------- MODULE AddressSpace -----------------------------
(***************************************************************************)
(* The memory manager: physical frames (mm/frame_allocator.rs), reference  *)
(* counts of user pages (mm/page.rs), address spaces with their regions,   *)
(* page tables and kernel stacks (mm/mod.rs, sv39/page_table.rs), and the  *)
(* operations of tasks on them (task/task.rs): spawn, fork, page faults,   *)
(* brk, exit and the deferred cleanup.                                     *)
(*                                                                         *)
(* A frame stands for 4 KiB and its content for one value.  A page number  *)
(* stands for a 4 KiB virtual page; addresses count half pages, so that    *)
(* brk need not be aligned.  Page-table walks are abstracted to the names  *)
(* of the tables below the root that a page needs.  Handlers run with      *)
(* interrupts off; copy_on_write is two steps, because on several harts    *)
(* two processes can be in it for the same frame.                          *)
(***************************************************************************)
EXTENDS Integers, FiniteSets, SequencesExt

CONSTANTS
  Spaces,              \* address spaces (tasks)
  NFrames,             \* frames of the allocator
  NPages,              \* user pages of an address space
  Image,               \* sequence of [page, flags]: PT_LOAD segments, page by page
  StackPages,          \* sequence of the pages of the user stack
  TableOrder,          \* names of the tables below the root, in walk order
  Walk(_),             \* the tables below the root that a page needs
  KERNEL_STACK_PAGES,
  Stores,              \* values that programs store
  BrkRequests,         \* addresses that programs pass to brk
  MaxTasks,            \* bound: spawns, failed or not, and forks in a behaviour
  Zero, Loaded,        \* content of a cleared page and of a page of the image
  Stale,               \* whatever is in a frame that is not a user page
  NoPte, NoRegion, NoStack, NoCow, NoValue

Frames == 1..NFrames
Pages == 0..(NPages - 1)
PageUnits == 2                                   \* addresses per page
AlignUp(a) == (a + PageUnits - 1) \div PageUnits   \* first page at or above a

VARIABLES
  used,    \* FrameAllocator.pages: the bits that are set
  refs,    \* PAGE_METADATA_TABLE: reference counts, 0 for no entry
  mem,     \* content of the frames
  space,   \* the MemoryManager of each task
  cow,     \* a copy_on_write between its copy and its remapping
  leaked,  \* frames no MemoryManager refers to any more (history)
  halt,    \* "no", or why the kernel panicked
  made     \* number of spawns and forks (history)

vars == <<used, refs, mem, space, cow, leaked, halt, made>>

(* MemoryManager::EMPTY.                                                   *)
EMPTY ==
  [status |-> "none", root |-> 0, tables |-> <<>>, pt |-> [p \in Pages |-> NoPte],
   regions |-> [p \in Pages |-> NoRegion], kstack |-> NoStack, start_brk |-> 0, brk |-> 0]

Init ==
  /\ used = {}
  /\ refs = [f \in Frames |-> 0]
  /\ mem = [f \in Frames |-> Stale]
  /\ space = [s \in Spaces |-> EMPTY]
  /\ cow = [s \in Spaces |-> NoCow]
  /\ leaked = {}
  /\ halt = "no"
  /\ made = 0

-----------------------------------------------------------------------------
(* alloc_frame takes the lowest clear bit: Alloc(n) is the n-th frame an   *)
(* operation allocates.                                                    *)
Free == Frames \ used

Alloc(n) == CHOOSE f \in Free : Cardinality({g \in Free : g < f}) = n - 1

(* An operation that needs n frames: unwrap panics when there are fewer.   *)
Allocating(n, action) ==
  IF Cardinality(Free) < n
  THEN halt' = "NoMem" /\ UNCHANGED <<used, refs, mem, space, cow, leaked>>
  ELSE action /\ UNCHANGED halt

Allocated(n) == {Alloc(i) : i \in 1..n}

(* create_kernel_stack after n other allocations: a guard, the first page, *)
(* and the others, whose addresses are dropped: the stack is taken to be   *)
(* the pages that follow the first.                                        *)
StackFrames == KERNEL_STACK_PAGES + 1
CreateKernelStack(n) == [guard |-> Alloc(n + 1), bottom |-> Alloc(n + 2)]
KernelStack(st) == {st.guard} \cup st.bottom..(st.bottom + KERNEL_STACK_PAGES - 1)

(* Tables to create for page p, given those that exist.                    *)
Missing(p, have) == SelectSeq(TableOrder, LAMBDA t : t \in Walk(p) /\ t \notin have)

Pte(frame, flags) == [frame |-> frame, flags |-> flags]

Creating == halt = "no" /\ made < MaxTasks /\ made' = made + 1

Running(s) == halt = "no" /\ space[s].status = "live" /\ cow[s] = NoCow

-----------------------------------------------------------------------------
(* spawn: MemoryManager::new, load_executable, create_user_stack,          *)
(* create_kernel_stack.  What is mapped is a list of [page, flags]; what   *)
(* is allocated, in order, is the root, and for each new page its frame    *)
(* and the tables it needs.                                                *)
Entries == Image \o [i \in 1..Len(StackPages) |-> [page |-> StackPages[i], flags |-> {"R", "W"}]]

MapEntry(order, e) ==
  LET have   == {t \in ToSet(TableOrder) : <<"table", t>> \in ToSet(order)}
      tables == Missing(e.page, have)
  IN  IF <<"page", e.page>> \in ToSet(order) THEN order
      ELSE order \o << <<"page", e.page>> >> \o [i \in DOMAIN tables |-> <<"table", tables[i]>>]

(* What loading the first k entries allocates.                             *)
Order(k) == FoldLeft(MapEntry, << <<"root">> >>, SubSeq(Entries, 1, k))

FlagsOf(p) == UNION {Entries[i].flags : i \in {j \in DOMAIN Entries : Entries[j].page = p}}
FirstFlags(p) == (SelectSeq(Entries, LAMBDA e : e.page = p)[1]).flags

(* A page that two segments share is remapped: its PTE gets the flags of   *)
(* both, its region keeps those of the first.                              *)
LoadedSpace ==
  LET order   == Order(Len(Entries))
      at(r)   == Alloc(CHOOSE i \in DOMAIN order : order[i] = r)
      mapped  == {p \in Pages : <<"page", p>> \in ToSet(order)}
      have    == {t \in ToSet(TableOrder) : <<"table", t>> \in ToSet(order)}
      heap    == 1 + Max({Image[i].page : i \in DOMAIN Image})
  IN  [status    |-> "live",
       root      |-> at(<<"root">>),
       tables    |-> [t \in have |-> at(<<"table", t>>)],
       pt        |-> [p \in Pages |-> IF p \in mapped THEN Pte(at(<<"page", p>>), FlagsOf(p)) ELSE NoPte],
       regions   |-> [p \in Pages |-> IF p \in mapped THEN FirstFlags(p) ELSE NoRegion],
       kstack    |-> CreateKernelStack(Len(order)),
       start_brk |-> heap * PageUnits,
       brk       |-> heap * PageUnits]

(* map_allocate_page clears the frame and counts it.                       *)
UserFrames(sp) == {sp.pt[p].frame : p \in {q \in Pages : sp.pt[q] # NoPte}}

Spawn(s) ==
  /\ Creating
  /\ space[s].status = "none"
  /\ LET n  == Len(Order(Len(Entries)))
         sp == LoadedSpace
     IN  Allocating(n + StackFrames,
           /\ used' = used \cup Allocated(n + StackFrames)
           /\ space' = [space EXCEPT ![s] = sp]
           /\ refs' = [f \in Frames |-> IF f \in UserFrames(sp) THEN refs[f] + 1 ELSE refs[f]]
           /\ mem' = [f \in Frames |->
                        IF f \notin UserFrames(sp) THEN mem[f]
                        ELSE IF \E i \in DOMAIN Image : sp.pt[Image[i].page].frame = f THEN Loaded ELSE Zero]
           /\ UNCHANGED <<cow, leaked>>)

(* The executable cannot be opened, or is found to be broken, or the       *)
(* arguments do not fit, after k entries were mapped: the MemoryManager is *)
(* dropped, and nothing frees what it refers to.                           *)
SpawnError(k) ==
  /\ Creating
  /\ \E s \in Spaces : space[s].status = "none"
  /\ LET order == Order(k)
         user  == {Alloc(i) : i \in {j \in DOMAIN order : order[j][1] = "page"}}
     IN  Allocating(Len(order),
           /\ used' = used \cup Allocated(Len(order))
           /\ leaked' = leaked \cup Allocated(Len(order))
           /\ refs' = [f \in Frames |-> IF f \in user THEN refs[f] + 1 ELSE refs[f]]
           /\ mem' = [f \in Frames |-> IF f \in user THEN Zero ELSE mem[f]]
           /\ UNCHANGED <<space, cow>>)

-----------------------------------------------------------------------------
(* PageTable::fork: the root and every table are copied; each user page is *)
(* counted once more and loses W in both copies.  MemoryManager::fork adds *)
(* the regions, brk and a kernel stack.  Mutant: the parent keeps W.       *)
Shared(e) == IF e = NoPte THEN NoPte ELSE Pte(e.frame, e.flags \ {"W"})

ParentPte_KeepsW(e) == e

ParentPte(e) == Shared(e)

(* Mutant: only the pages that lose W are counted.                         *)
Counted_Writable(sp) == {sp.pt[p].frame : p \in {q \in Pages : sp.pt[q] # NoPte /\ "W" \in sp.pt[q].flags}}

Counted(sp) == UserFrames(sp)

Fork(s, t) ==
  /\ Running(s)
  /\ Creating
  /\ space[t].status = "none"
  /\ LET order == SelectSeq(TableOrder, LAMBDA x : x \in DOMAIN space[s].tables)
         n     == 1 + Len(order)
         copy  == [space[s] EXCEPT
                     !.root   = Alloc(1),
                     !.tables = [x \in DOMAIN @ |-> Alloc(1 + CHOOSE i \in DOMAIN order : order[i] = x)],
                     !.pt     = [p \in Pages |-> Shared(@[p])],
                     !.kstack = CreateKernelStack(n)]
     IN  Allocating(n + StackFrames,
           /\ used' = used \cup Allocated(n + StackFrames)
           /\ refs' = [f \in Frames |-> IF f \in Counted(space[s]) THEN refs[f] + 1 ELSE refs[f]]
           /\ space' = [space EXCEPT ![t] = copy, ![s].pt = [p \in Pages |-> ParentPte(@[p])]]
           /\ UNCHANGED <<mem, cow, leaked>>)

(* A store in user mode, or by the kernel on behalf of the process, where  *)
(* the page table grants it.                                               *)
Granted(s, p, access) == space[s].pt[p] # NoPte /\ access \in space[s].pt[p].flags

Store(s, p, v) ==
  /\ Running(s)
  /\ Granted(s, p, "W")
  /\ mem' = [mem EXCEPT ![space[s].pt[p].frame] = v]
  /\ UNCHANGED <<used, refs, space, cow, leaked, halt, made>>

(* handle_page_fault and on_page_fault, by what the region allows and      *)
(* whether the page is there.  access is "R" or "W".                       *)
Faults(s, p, access) == Running(s) /\ ~Granted(s, p, access)

Allowed(s, p, access) == space[s].regions[p] # NoRegion /\ access \in space[s].regions[p]

(* exit(task, -1): the address space stays until the reaper gets to it.    *)
Exit(s) ==
  /\ Running(s)
  /\ space' = [space EXCEPT ![s].status = "zombie"]
  /\ UNCHANGED <<used, refs, mem, cow, leaked, halt, made>>

FaultKills(s, p, access) ==
  /\ Faults(s, p, access)
  /\ Allowed(s, p, access) => (space[s].pt[p] # NoPte /\ access = "R")
  /\ Exit(s)

(* Demand allocation: a cleared frame, and the tables on the way to it.    *)
FaultAllocates(s, p, access) ==
  /\ Faults(s, p, access)
  /\ Allowed(s, p, access)
  /\ space[s].pt[p] = NoPte
  /\ LET tables == Missing(p, DOMAIN space[s].tables)
         n      == 1 + Len(tables)
         at(x)  == Alloc(1 + CHOOSE i \in DOMAIN tables : tables[i] = x)
     IN  Allocating(n,
           /\ used' = used \cup Allocated(n)
           /\ mem' = [mem EXCEPT ![Alloc(1)] = Zero]
           /\ refs' = [refs EXCEPT ![Alloc(1)] = @ + 1]
           /\ space' = [space EXCEPT
                          ![s].pt[p] = Pte(Alloc(1), space[s].regions[p]),
                          ![s].tables = [x \in (DOMAIN @) \cup ToSet(tables) |->
                                           IF x \in DOMAIN @ THEN @[x] ELSE at(x)]]
           /\ UNCHANGED <<cow, leaked>>)
  /\ UNCHANGED made

(* copy_on_write up to the copy of the frame ...                           *)
CopyFrame(s, p) ==
  /\ Faults(s, p, "W")
  /\ Allowed(s, p, "W")
  /\ space[s].pt[p] # NoPte
  /\ Allocating(1,
       /\ used' = used \cup Allocated(1)
       /\ mem' = [mem EXCEPT ![Alloc(1)] = mem[space[s].pt[p].frame]]
       /\ cow' = [cow EXCEPT ![s] = [page |-> p, old |-> space[s].pt[p].frame, new |-> Alloc(1)]]
       /\ UNCHANGED <<refs, space, leaked>>)
  /\ UNCHANGED made

(* ... and the rest: the copy is counted and mapped writable, the old      *)
(* frame is given up and freed by the last.  page::remove of a frame that  *)
(* has no entry is an expect.                                              *)
RemapCopy(s) ==
  /\ halt = "no"
  /\ cow[s] # NoCow
  /\ LET c == cow[s]
     IN  IF refs[c.old] = 0
         THEN halt' = "expect" /\ UNCHANGED <<used, refs, mem, space, cow, leaked, made>>
         ELSE /\ refs' = [refs EXCEPT ![c.new] = @ + 1, ![c.old] = @ - 1]
              /\ space' = [space EXCEPT ![s].pt[c.page] = Pte(c.new, @.flags \cup {"W"})]
              /\ used' = IF refs[c.old] = 1 THEN used \ {c.old} ELSE used
              /\ mem' = IF refs[c.old] = 1 THEN [mem EXCEPT ![c.old] = Stale] ELSE mem
              /\ cow' = [cow EXCEPT ![s] = NoCow]
              /\ UNCHANGED <<leaked, halt, made>>

(* brk: an address at or below the start is a query.  Growing adds regions *)
(* for the pages in between that have none; the frames come with the first *)
(* access.  Shrinking keeps both.                                          *)
Query(s, new) == space[s].start_brk >= new

(* map_page_if_not_exist for each page: a region that exists stays.        *)
MapPageIfNotExist(regions, pages) ==
  [p \in Pages |-> IF p \in pages /\ regions[p] = NoRegion THEN {"R", "W"} ELSE regions[p]]

Brk(s, new) ==
  /\ Running(s)
  /\ ~Query(s, new)
  /\ LET grown == AlignUp(space[s].brk)..(AlignUp(new) - 1)
     IN  space' = [space EXCEPT
                     ![s].brk = new,
                     ![s].regions = MapPageIfNotExist(@, grown)]
  /\ UNCHANGED <<used, refs, mem, cow, leaked, halt, made>>

(* cleanup by the reaper: MemoryManager::free gives up the page of every   *)
(* region, then the kernel stack, then the tables.  Mutant: the frames of  *)
(* shared pages are freed with their last but one reference.               *)
LastReference_Early(n) == n <= 1

LastReference(n) == n = 0

Cleanup(s) ==
  /\ halt = "no"
  /\ space[s].status = "zombie"
  /\ LET sp   == space[s]
         user == {sp.pt[p].frame : p \in {q \in Pages : sp.regions[q] # NoRegion /\ sp.pt[q] # NoPte}}
         freed == {f \in user : LastReference(refs[f] - 1)}
         own  == KernelStack(sp.kstack) \cup {sp.root} \cup {sp.tables[x] : x \in DOMAIN sp.tables}
     IN  IF \E f \in user : refs[f] = 0
         THEN halt' = "expect" /\ UNCHANGED <<used, refs, mem, space, cow, leaked, made>>
         ELSE /\ refs' = [f \in Frames |-> IF f \in user THEN refs[f] - 1 ELSE refs[f]]
              /\ used' = used \ (own \cup freed)
              /\ mem' = [f \in Frames |-> IF f \in freed THEN Stale ELSE mem[f]]
              /\ space' = [space EXCEPT ![s] = EMPTY]
              /\ UNCHANGED <<cow, leaked, halt, made>>

Next ==
  \/ \E k \in 0..Len(Entries) : SpawnError(k)
  \/ \E s \in Spaces :
       \/ Spawn(s)
       \/ \E t \in Spaces : Fork(s, t)
       \/ \E p \in Pages :
            \/ \E v \in Stores : Store(s, p, v)
            \/ CopyFrame(s, p)
            \/ \E access \in {"R", "W"} : FaultAllocates(s, p, access) \/ FaultKills(s, p, access)
       \/ RemapCopy(s)
       \/ \E new \in BrkRequests : Brk(s, new)
       \/ Exit(s)
       \/ Cleanup(s)

Spec == Init /\ [][Next]_vars

-----------------------------------------------------------------------------
Live == {s \in Spaces : space[s].status # "none"}

(* The page metadata counts exactly the page-table entries that map a      *)
(* frame, so that neither expect can fail and no frame is freed too early  *)
(* or never; leaked pages keep their one reference.                        *)
RefcountsExact ==
  /\ halt # "expect"
  /\ \A f \in Frames \ leaked :
       refs[f] = Cardinality({x \in Live \X Pages :
                                space[x[1]].pt[x[2]] # NoPte /\ space[x[1]].pt[x[2]].frame = f})

(* Every allocated frame has one use: a user page, a table or the kernel   *)
(* stack of one task, the copy being made by one copy_on_write, or it is   *)
(* leaked by a failed spawn; and every frame in use is allocated.          *)
Tables(s) == {space[s].root} \cup {space[s].tables[x] : x \in DOMAIN space[s].tables}
Uses ==
  [x \in ({"tables", "kstack", "copy"} \X Live) \cup ({"user", "leaked"} \X {"all"}) |->
     CASE x[1] = "tables" -> Tables(x[2])
       [] x[1] = "kstack" -> KernelStack(space[x[2]].kstack)
       [] x[1] = "copy"   -> IF cow[x[2]] = NoCow THEN {} ELSE {cow[x[2]].new}
       [] x[1] = "user"   -> UNION {UserFrames(space[s]) : s \in Live}
       [] x[1] = "leaked" -> leaked]
OneUsePerFrame ==
  /\ UNION {Uses[x] : x \in DOMAIN Uses} = used
  /\ \A x, y \in DOMAIN Uses : x # y => Uses[x] \cap Uses[y] = {}

(* The README: "provides isolated Sv39 address spaces".  Processes that    *)
(* share frames after a fork cannot tell: what each reads is what a        *)
(* private copy would hold, and demand-allocated pages are zero.           *)
Reads(s, p) ==
  IF space[s].status = "none" \/ space[s].regions[p] = NoRegion THEN NoValue
  ELSE IF space[s].pt[p] = NoPte THEN Zero ELSE mem[space[s].pt[p].frame]
Private == INSTANCE PrivateMemory WITH
             view <- [s \in Spaces |-> [p \in Pages |-> Reads(s, p)]],
             Values <- Stores
MemoryIsPrivate == Private!PMSpec
===============================================================================
