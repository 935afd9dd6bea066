# A TLA+ model of efiks-os

efiks-os is a Unix-like kernel for RISC-V, written in Rust. This directory holds
TLA+ modules that model its parts, TLC configurations that check them on small
instances, and proofs that TLAPS checks for every instance. `PROJECT.json` is the
machine-readable index: which definition models which lines, which run checks
which property, which mutation of the code each property would catch, where the
code is exposed to hazards that are hard to test, and what is proved.

Paths below are relative to the repository.

## The system and its parts

A process enters the kernel by a trap (`kernel/src/arch/riscv/trap`): a system
call (`syscall.rs`), a page fault or an interrupt. Traps run with interrupts
disabled, so on one hart everything a handler does up to the next `schedule()` is
one step as far as other tasks can see. The default build runs one hart;
the `multi-core` feature starts three, each with a run queue of its own.

| part | source | module | state |
|---|---|---|---|
| scheduler, blocking, sleeping, reaper | `kernel/src/sched` | `Sched` (one hart), `SchedHarts` (several) | modelled |
| tasks: fork, spawn, exit, wait | `kernel/src/task` | `Sched`, `SchedHarts`, `AddressSpace` | modelled except the contents of the initial stack |
| traps and interrupts | `kernel/src/arch/riscv/trap`, `plic.rs` | `Sched`, `SchedHarts`, `AddressSpace` | dispatch; registers are not modelled |
| console and UART input | `kernel/src/console.rs`, `driver/uart.rs` | `Sched` | input ring and blocking read |
| address spaces, frames, reference counts | `kernel/src/mm` | `AddressSpace` | modelled |
| Sv39 page tables | `kernel/src/arch/riscv/mmu` | `AddressSpace` | tables and leaves; bit layouts are not modelled |
| ELF loading | `kernel/src/exec` | `AddressSpace` | what is mapped, and failures; parsing is left to the `elf` crate |
| VSFS: lookup, cache, create, bitmaps, mount | `vsfs/src/lib.rs` | `Vsfs` | modelled |
| open files: read, write, seek | `vfs/src/lib.rs`, `vsfs/src/lib.rs` | `VsfsFile` | modelled |
| image tool | `vsfs/src/bin/vsfs-tool.rs` | `VsfsImage` | allocation and contents of the image; reading host files is not modelled |
| kernel heap | `kmalloc` | `Kmalloc` | modelled |
| locks | `ksync` | `Locks` | modelled |
| VirtIO block driver | `kernel/src/driver/virtio` | `VirtioBlk` | requests, rings, initialisation; feature words are not modelled |
| mounts, file descriptors, file system calls | `syscall.rs`, `task/file_table.rs`, `vfs/mod.rs` | `OpenFiles` | modelled except the decoding of arguments |
| boot, kernel mapping, register wrappers, logging, user programs | | | not modelled: straight-line code that runs once, wrappers, or text |

How they interact: `Sched` treats memory and files as events that do or do not
block; `AddressSpace` treats scheduling as arbitrary interleaving of the steps of
processes; `Vsfs` and `VsfsFile` treat the block device as one that performs one
sector transfer at a time and may fail, which is `SectorDisk`, and `VirtioBlk` implements it; all of them rely on `Locks` for mutual
exclusion and on `Kmalloc` for memory.

## Modules

**`Sched`** (helpers in `Queues`). State: the run queue, the sleeping and
waiting queues, the task table, the cleanup queue, each task's `TaskState`, parent, children and place
in a blocking call, and the UART ring. One action per handler: `Boot`, `Fork`,
`Spawn`, `Exit`, `WaitReap`/`WaitBlock`/`WaitResume`, `Sleep`, `SysRead`/`ReadReturn`/`ReadBlock`,
`UartIrq`, `TimerInterrupt`, `ReaperRound`. An action includes the `schedule()` at its end. A
blocking call is split exactly where the code calls `schedule()`.

**`SchedHarts`** is the scheduler of the `multi-core` build. Here other harts go
on while a handler runs, so an action is one stretch of a handler between two
accesses that another hart can come between, and `at[h]` is the place hart `h` has
reached; a section under a `SpinLock` is one action. Each hart has its run queue, sleep heap, reaper and
current task; the task table, `irq_wait_queue`, `waiting_tasks` and the UART ring are shared. `Exit`
and `OnTaskExit`, `Wait`, `BlockOnWait` and `WaitResume`, `ReadLoop` and `BlockOnExternalIrq`, the two
writes of a wake-up (`Wake`), and `Schedule` and `SwitchTo` are separate. A
task finds "its" hart through `ThreadInfo.per_cpu_ctx`, which `enqueue_new_task`
overwrites (`ctx`). Where the code would go on with a context that is not its
own, or free a task that runs, the model takes that step, names it in `wild` and stops.

**`AddressSpace`** implements **`PrivateMemory`**. State: the frame bitmap, the
reference counts of `page.rs`, the contents of frames, and per process its tables,
entries, regions, kernel stack and break. `CopyFrame` and `RemapCopy` are the two halves of
`copy_on_write`, so that sharers can interleave. What a frame holds while it is
not a user page is one value, `Stale`. The run gives a kernel
stack one page and its guard; that the pages of a longer stack are contiguous
once frames have been freed is not guaranteed, as the `TODO` in
`create_kernel_stack` says. `PrivateMemory` is the promise:
each process has its own map from pages to values, fork copies it, a store
changes one cell of one process.

**`VsfsImage`** (constants of the disk in `VsfsLayout`). What `vsfs-tool` makes of a layout: inode numbers in preorder,
blocks after those of the children, an indirect block where the inode has too few
numbers, failure when the image is too small; then bitmaps, inode table,
directories and indirect blocks.

**`Vsfs`** starts from any image of a set `Images`, in the runs those that `VsfsImage` makes
of two layouts. State: both bitmaps, the inode table and directory blocks on disk;
the inode cache, cached inodes and their locks in memory; each hart's place in
`open` and `create`. One transfer per step; a failing write may have reached the
disk; `Crash` forgets the memory and mounts again.

**`VsfsFile`** implements **`ByteFile`**. The sector loops of `INode::read` and
`INode::write` through direct and indirect pointers, and `File::seek`; `ByteFile` is an
array of bytes with an offset.

**`Kmalloc`**. The list of headers in the heap, first fit, splitting, the back
offset in front of the data, `dealloc`.

**`Locks`**. `SpinLock` and `RwLock`, one atomic access per step.

**`VirtioBlk`** implements **`SectorDisk`**. State: `DRIVER`, the three
descriptors, the available ring, the used index, the boxes and buffer of each
hart's request, its place in `read` or `write`, and the device: the next entry it
will look at and how far it is with the chain in work. The driver takes one step
per store that the device can see (`WriteDescriptors`, `PutInRing`, `MoveIndex`,
`Notify`), then `Spin` and `Collect`. The device is external: `Fetch`, `Rest`, `TransferOk` or
`TransferErr`, `WriteStatus`, `PutUsed`. `SectorDisk` transfers a sector in one
step between call and return. The queue memory is zero at first, as the comment
above its allocation says; the code relies on `alloc` returning untouched RAM.

**`OpenFiles`**. State: the mount table, the names there are, each process's file
table and system call, and inode, offset and lock of each open file. `Mount` and
`Boot`; `Fork`, `Spawn`, `Exit`; `OpenFound`, or `OpenMissing` followed by `Create` or
`CreateFails`; `Close`; and `Request`, `Nothing`, `Transfer`, `TransferFails`, `MoveOffset`,
`Resume` for `readv` and `writev`, of which `read` and `write` are the case of one vector.
Processes run on harts of their own: on a single hart none of these calls is
interrupted, which is a part of these behaviours. Paths are strings of bytes for the
mount table; which bytes of a file are transferred is counted, what they are is
`VsfsFile`'s business. `Boot` mounts the root only, as `kmain` does; before it, `Mount`
builds every mount table over four paths, for the lookup.

The `MC*` modules give the constants their values.

## What the runs check

| run | instance | shows |
|---|---|---|
| `sched_safety` | one hart: three processes, idle, reaper | the run queue is exact, no wake-up is lost, `wait` never panics, only dead tasks are freed, a dead task stays dead and is accounted for; with fairness, a Ready task runs, a queued clean-up happens, an exit ends the wait, unless the hart hangs (below) |
| `sched_harts` | two harts, three processes, one character, one tick | no order of `wait` and `exit` loses the parent's wake-up; no Ready or Blocked task falls out of every queue while another hart wakes it |
| `mm` | two spaces, three processes in turn, 12 frames | `AddressSpace` implements `PrivateMemory`; reference counts are exact, each frame has one use |
| `vsfs_crash` | one hart, two failures, power loss | directories stay sound, created files survive, what the image held is found and owns its blocks alone, nothing leaks without a failure |
| `vsfs_harts` | two harts | no name twice, one object per inode, cache and disk agree |
| `vsfs_file` | 14-byte file, four images | `VsfsFile` implements `ByteFile`; a short result ends at a block that is missing or is reached through the indirect block |
| `open_files` | two processes, a file of two bytes, paths of up to five bytes | each byte goes out once through a shared offset; results are what moved it; descriptors keep their meaning; exclusive creation has one winner; paths are routed by components |
| `kmalloc` | 328-byte heap, three layouts | the list tiles the heap, blocks are sound |
| `virtio` | two harts, two sectors, a queue of two, indices modulo four | `VirtioBlk` implements `SectorDisk`; the device works only on memory its request owns; the driver is always given back |
| `locks` | three harts | exclusion; the reader count never overflows; waiting locks keep being taken |

Runs that end in a violation, each a disagreement between the code and what a
comment or an assertion in it says (details under `findings` in `PROJECT.json`):

| run | what the code does |
|---|---|
| `sched_harts_wait` | on two harts the `expect` of `wait` fails: a child that its parent has already reaped wakes the parent out of the wait for another child |
| `vsfs_sector` | creating in two directories at once can undo one creation |

Behaviours of the code that no run singles out:

- a reader of the console sleeps with the lock of the open file held; a relative
  that shares the file spins for it with interrupts disabled, and a single hart
  hangs there. The liveness properties of `Sched` name this as their one exception (`Hung`);
- on several harts a task that is woken between its registration and its
  `switch_to` is switched to before its context is saved, or finds another hart's context, and
  a zombie that its parent reaps at once can be freed while it still runs.
  `SchedHarts` reaches all three (`wild`);
- the zombies of a parent that dies before them stay in the table for ever;
  `DeadAreAccountedFor` excludes exactly those;
- a task is marked `Exited` when it is reaped, before its resources are
  released;
- the comment in `sleep_current_task` says that a time that overflows wakes the
  task after one slice; the product in `nanos_to_ticks` is not checked, so a sleep of half an hour
  or more panics a build with overflow checks. Such requests are not in the model;
- `File::seek` accepts the size of the file as a position;
- when the undo of a creation fails, its resources are leaked because the
  directory on disk may name them, but the cached parent keeps the old size: the
  next creation writes to the slot that the disk already counts, and if it fails
  its inode is freed while the entry names it. That takes three failed transfers,
  one more than `vsfs_crash` has;
- `remap_page` changes the flags in the page table and not in the region, so a
  page that a read-only and a writable segment share is writable until the
  process forks, and the first store after that kills it.

### Bounds and why they are enough

Bounds are constants of the modules, marked "bound" where they are declared. They
are chosen so that each interesting case happens: three processes give a
grandparent, a parent and a child; a UART ring of two or three cells wraps; a directory block
of three entries, which the image fills, makes a creation allocate a block; six inodes and
ten blocks make both bitmaps run full; a file of three blocks in the image needs an indirect block; two failures make an undo fail; one hart stands for a
crash at any step, two for every race over one directory; two harts and three processes make a parent with
two children meet both exits on the other hart; sectors of two
cells and one direct pointer put every block boundary and both sectors of the
indirect block inside a 14-byte file; indices that wrap after four requests, twice around the
queue; two open files, with one console file per process where the code has three, let a
process have the same file open twice, or share one and lose the other; 12 frames make allocation fail
(`unwrap` panics, which the model ends in). A sleeper
is due at the next timer interrupt in `sched_safety` (`MaxSleep` is 0): longer sleeps
triple the time of the liveness checks, and the safety properties are proved for
every bound. Deadlock checking is off only where
a panic, the exit of the last process, a `wild` step, or a bound ends the behaviour.

### Fairness

`Sched`: strong fairness of the timer interrupt (it stays pending until an
instruction with interrupts enabled) and weak fairness of kernel code that has
the hart. Nothing is assumed of programs or of the keyboard. `Locks`: a hart
keeps executing, and an exchange that could succeed again and again succeeds (the
guarantee RISC-V gives for LR/SC loops). No hart is promised a turn, as the comment in `rw_lock.rs`
says. `VirtioBlk`: a hart in the driver runs on (traps have interrupts disabled), the
device finishes what it has fetched, and it looks at the ring after a
notification. It is not assumed to look without one, and no hart is promised
`DRIVER`.

## What is proved

Each theorem holds for every value of the constants that the named `ASSUME` of its module
admits; TLC evaluates the `ASSUME`s in the runs. Every proof has the same plan: an inductive
invariant, one lemma per action, and the properties as consequences.

**`SchedProofs`** (one hart). For every set of tasks and every bound,
the safety properties that `sched_safety` checks:
`TypeCorrect`, `RunQueueCorrect`, `NoLostWakeUp`, `WaitersCorrect`, `WaitCorrect`,
`CleanupCorrect`, `DeadAccounted` and, a property of steps, `DeathFinal`. None of the invariants is
inductive alone. `IInv` adds to them what they rest
on: parent and children fields mirror each other while the parent lives; live
tasks are in the table; a parent that is blocked in `wait` has only live children and one that has been woken has a
zombie; the two kernel tasks never wait, exit or have children; what is queued for cleanup is dead and queued
once. The module starts with the facts about sequences, `IInv`, what `schedule()` guarantees whoever calls
it, and the actions that keep the processor; then come those that may give it up,
the console, the theorems, and for each action what it does to the dead:
`schedule()` chooses among the living only, so that a step kills or reaps whom its
handler names and nobody else.

**`SchedHartsProofs`** (any number of harts). A Ready task that no hart executes is in a
run queue or held by a hart that is about to queue it (`ReadyPlaced`), and a Blocked one that has left its hart
is registered or being woken (`BlockedPlaced`). Both properties leave out the task that a
hart executes, so they say nothing at the moment the hart switches away. The invariant
`HInv` says where the hart may be then: a Ready task that is found nowhere else is on a
hart that has not yet passed through `schedule()`, and a Blocked one is on a hart that is
still in `block_on_wait` or `block_on_external_irq`. A hart holds a task to wake exactly
while it is at one of the two writes of a wake-up. The order of these two, Ready first and
queued second, is what makes it safe that `schedule()` throws away entries that are not Ready.

**`VsfsProofs`**. All harts work on one object per directory (`OneObjectCorrect`): for
any number of harts, because neither the root nor a directory in use loses its cached object, and inode
numbers that are allocated are never a directory's. On one hart, the
default build, a created file is durable (`CreationDurable`): for any number of failed transfers and power
losses, any geometry, and any image whose directories have the blocks their size needs,
allocated and not shared (`Sound`, which TLC evaluates for the images of the runs). The invariant relates the disk to the cache: a directory on the disk begins with
the cached one (`Follows`), even after a failed undo has left it longer; the entries that count are
those within the cached size, or within the size on the disk when the directory is not cached, since a power loss makes that the
cached one (`Firm`). A creation in progress writes beyond that size only, into a block
that no directory names before the parent's inode is written (`Unlinked`), and a copy of a sector is fresh when it is
written back (`Buffers`). The last is what fails with several harts, as `vsfs_sector` shows.

Three more theorems of `VsfsProofs` are about one hart and start from an image of which the property holds, which is
what TLC evaluates of the images that `vsfs-tool` makes. A sound image stays sound (`DiskStaysSound`) while at most two transfers
fail; the third can leave an entry whose inode is free (the hazard at `lib.rs:561`), so
this bound is part of the theorem and not of the model. Its invariant `EInv` adds to the entries on the disk what a creation in progress has still to do:
its name is not in the cached directory, its inode is written before it is entered, no other
entry names it (`Making`); and a directory on the disk is at most one entry longer than the cached
one, which takes a failure whose undo is under way or a second failure (`Lengths`). Until
a transfer fails, the cache is what the disk holds (`CacheCorrect`): `Agree` adds that cached inodes are
allocated, that a new inode number is not cached before its file is complete, and that nothing is
being undone. Between operations, exactly the inodes and blocks in use are then
allocated (`NoLeak`), unless power was lost: within an operation what is allocated and
not in use is the inode and the block that the creation holds (`Balanced`). TLC has
checked these invariants on the instance of `vsfs_crash` before they were proved.

**`VsfsFileProofs`**. `VsfsFile` implements `ByteFile` (`FileImplemented`), and a short
result ends at a block that is missing or is reached through the indirect block (`ShortCorrect`): for any size of sectors, blocks and
file, and any image in which blocks lie on the disk and none has two uses. A block number may be
missing anywhere. The invariant: the pointers in the indirect block stay those of the image, because
no write of data reaches that block; an operation is at the offset plus what it has moved, inside
the file; the block number it remembers is the one the image gives; once it has moved something,
that is the block of the position or the position starts a block. The refinement
rests on the lemma that two bytes of the file never share a cell of the disk.

**`KmallocProofs`**. For any size and alignment of headers, any heap and any set of layouts: the nodes tile the
heap (`TilingCorrect`), blocks are sound (`BlocksCorrect`), and two live blocks or a block and
a header never overlap (`BlocksApart`). The two properties that the run checks are inductive together, once the types are
added. The arithmetic is in lemmas about `align_up`; that
the header of a split is aligned uses that the sizes handed out are multiples of its alignment.

**`OpenFilesProofs`**. For any number of processes, open files, vectors and
bytes: a byte goes through a shared open file once (`SharedOffsetCorrect`),
a call reports what it moved the offset by (`ReturnCorrect`), an open file has one
descriptor number (`DescriptorsCorrect`), and an exclusive creation has one winner
(`ExclusiveCorrect`). The invariant adds what these lean on: the lock of an open file and
the call of its holder name each other, nothing went through a file that no table
holds, a process that is not running holds nothing, and a name that was won is there from
then on.

**`LocksProofs`**. For any number of harts, the locks exclude
(`LocksExclude`), the types hold and the `assert!` of `read_lock` cannot fail
(`AssertionHolds`, assuming fewer harts than the counter has values). The
invariant ties the atomic word to who is inside: the word is the mark of the
writer exactly when there is a writer, and otherwise the number of readers.

**`VirtioBlkProofs`**. For any number of harts, any disk, any queue size and
any width of the indices, the device works only on memory whose request is
still waiting (`BuffersStayLive`), and the driver implements
`SectorDisk` (`SectorDiskImplemented`). The invariant says that `DRIVER` lets one
chain be in flight, so that the available index, the device's and the used
index are at most one apart, and that their differences tell the four phases of
the request apart: quiet, offered, taken, served. That an index never equals its
successor needs at least two index values; the rings need nothing else.

### Only model-checked

- Liveness: TLAPS does not prove properties under fairness.
- `ExitFindsWaiter` of `SchedHarts`. It is checked on two harts. It is about a parent that only its child's
  hart can wake; once a task has been woken twice (the finding of `sched_harts_wait`), a
  third hart can still be about to queue it while it waits again, and what it then relies on is not
  established.
- `AddressSpace`. That a frame has one use rests on the frames of a kernel stack being contiguous,
  which the code does not guarantee (see `Modules`); the run has stacks of one page. To
  assume it for every stack would assume the property. What loading a program maps is an
  induction over its segments.
- `LayoutIsKept` of `Vsfs`: the files of the layout are neither directories nor entries that were
  created, and the invariant of `VsfsProofs` says nothing of their blocks. Of the other invariants of `Vsfs`, all but
  `OneObjectPerInode` are proved for one hart only; several harts may lose each other's inodes
  in a shared sector (`vsfs_sector`), and for images that keep them apart they are only checked.
- The image of `vsfs-tool`, which is a recursion over the layout; `Vsfs` assumes of it what `Sound` says.
- The routing of paths in `OpenFiles`: what the components of a path are is an induction
  over the path.

## Not modelled

- The kernel's own mapping, register and firmware wrappers, assembly entry:
  straight-line code that runs once or makes no decision.
- Bit layouts of page-table entries and addresses; the decoding of system-call
  arguments and error numbers; pointer wrappers: stateless conversions that no
  property here depends on. What can fail in them is an outcome of the call.
- The width of times and ticks (see the sleep above).
- ELF header parsing: the `elf` crate does it.
- The search for the VirtIO device and its feature words: what a device makes of
  them is up to the device.
- Console output, logging, debugging aids: output only.
- User programs: a process may make any call at any time.
- The host side of `vsfs-tool`: its arguments, the layout file and the files it
  copies.
