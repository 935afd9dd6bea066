------------------------------- MODULE OpenFiles ------------------------------
(***************************************************************************)
(* The file system calls: the mount table (kernel/src/vfs/mod.rs), the     *)
(* file table of each process (task/file_table.rs) and open, close, read,  *)
(* write, readv and writev (syscall.rs).                                   *)
(*                                                                         *)
(* Processes run on harts of their own.  A call is cut where another       *)
(* process can see it: between the lookup and the creation in open, and    *)
(* around the lock of the open file.  A file table is changed only by its  *)
(* own process.  read and write differ in the direction of the bytes only, *)
(* which VsfsFile models: here each moves the offset over some bytes.      *)
(*                                                                         *)
(* Left out: I/O on the console, which Sched models, and user pointers,    *)
(* which the code takes to be valid.                                       *)
(***************************************************************************)
EXTENDS Integers, Sequences, FiniteSets, Queues

CONSTANTS
  Procs, Init1,            \* the processes, and the first of them
  Files,                   \* identities of File objects, reused when dropped
  MountPaths, Paths,       \* byte strings: where to mount, what to look up
  UserPaths, OnDisk,       \* what processes open, and what is there at first
  Size,                    \* bytes of a file that is there at first
  StdFiles,                \* console files of a new process: three in the code
  Vectors,                 \* lengths given to readv and writev
  MAX_FILE_PATH_LENGTH,
  None, Console

ASSUME FilesAssumption ==
  /\ Init1 \in Procs
  /\ None \notin Procs
  /\ UserPaths \subseteq Paths
  /\ Size \in Nat
  /\ StdFiles \in 1..Cardinality(Files)
  /\ MAX_FILE_PATH_LENGTH \in Nat
  /\ {None, Console} \cap Files = {}
  /\ Vectors \subseteq Seq(Nat) \ {<<>>}

VARIABLES
  mounts,   \* FILE_SYSTEMS: the mounted paths
  up,       \* boot is over
  names,    \* the files and directories there are
  live,     \* the processes that have not exited
  table,    \* the FileTable of each
  files,    \* inode and offset of each File
  lock,     \* the holder of its lock
  call,     \* the system call each process is in
  taken,    \* how often each byte was given out through a File
  wins      \* how often an exclusive creation of a name succeeded

ioVars == <<lock, call, taken>>
vars == <<mounts, up, names, live, table, files, ioVars, wins>>

-----------------------------------------------------------------------------
(* The mount table.                                                        *)

Slash == "/"
Root == <<Slash>>

StartsWith(path, prefix) ==
  Len(prefix) <= Len(path) /\ SubSeq(path, 1, Len(prefix)) = prefix

(* Mutant: what follows the mount point is not looked at.                  *)
IsMountPrefix_AnyByte(mount, path) == StartsWith(path, mount)

IsMountPrefix(mount, path) ==
  IF mount = Root
  THEN StartsWith(path, Root)
  ELSE \/ path = mount
       \/ /\ StartsWith(path, mount)
          /\ Len(path) > Len(mount)
          /\ path[Len(mount) + 1] = Slash

(* The candidates are prefixes of one path: no two have the same length.   *)
FindMount(ms, path) ==
  LET fit == {m \in ms : IsMountPrefix(m, path)}
  IN  IF fit = {} THEN None
      ELSE CHOOSE m \in fit : \A o \in fit : Len(o) <= Len(m)

StripPrefix(path, prefix, otherwise) ==
  IF StartsWith(path, prefix)
  THEN SubSeq(path, Len(prefix) + 1, Len(path))
  ELSE otherwise

RelativePath(mount, path) ==
  IF mount = Root
  THEN StripPrefix(path, Root, path)
  ELSE StripPrefix(StripPrefix(path, mount, path), Root, <<>>)

(* INode::open splits at slashes and ignores empty components: one begins  *)
(* wherever something else follows a slash or the start, and ends before   *)
(* the next slash.                                                         *)
Components(path) ==
  LET Plain(i) == path[i] # Slash
      starts   == {i \in 1..Len(path) : Plain(i) /\ (i = 1 \/ ~Plain(i - 1))}
      Start(k) == CHOOSE i \in starts : Cardinality({j \in starts : j <= i}) = k
      End(i)   == CHOOSE e \in i..Len(path) :
                    /\ \A j \in i..e : Plain(j)
                    /\ e = Len(path) \/ ~Plain(e + 1)
  IN  [k \in 1..Cardinality(starts) |-> SubSeq(path, Start(k), End(Start(k)))]

(* The file a path leads to: the file system, and the way from its root.   *)
ResolvePath(ms, path) ==
  LET m == FindMount(ms, path)
  IN  IF m = None THEN None
      ELSE [fs |-> m, at |-> Components(RelativePath(m, path))]

NodeOf(path) == ResolvePath({Root}, path)
Nodes == {NodeOf(p) : p \in UserPaths} \ {None}
RootNode == NodeOf(Root)
DiskNodes == {NodeOf(p) : p \in OnDisk}

-----------------------------------------------------------------------------
(* File tables: the descriptor of position i is i - 1.                     *)

Held(tables) == (UNION {Elems(tables[p]) : p \in Procs}) \ {None}
Free == Files \ Held(table)

(* The first entry that is empty, or else a new one.                       *)
FirstSlot(t, i) ==
  /\ i \in 1..Len(t) => t[i] = None
  /\ \A j \in 1..(i - 1) : t[j] # None

AddFile(t, f, i) == IF i = Len(t) + 1 THEN Append(t, f) ELSE [t EXCEPT ![i] = f]

GetFile(t, fd) == IF fd \in 1..Len(t) THEN t[fd] ELSE None

(* Mutant: the entry is removed instead of taken.                          *)
CloseFile_Shift(t, fd) == SubSeq(t, 1, fd - 1) \o SubSeq(t, fd + 1, Len(t))

CloseFile(t, fd) == [t EXCEPT ![fd] = None]

NewFile(node) == [inode |-> node, offset |-> 0]
Unused == NewFile(None)
Untaken == [b \in 0..(Size - 1) |-> 0]

(* The Arcs of the tables that have gone: a File goes with the last one.   *)
Drop(tables) ==
  /\ files' = [f \in Files |-> IF f \in Held(tables) THEN files[f] ELSE Unused]
  /\ taken' = [f \in Files |-> IF f \in Held(tables) THEN taken[f] ELSE Untaken]

(* No system call.                                                         *)
Idle == [op |-> "idle"]

Init ==
  /\ mounts = {}
  /\ up = FALSE
  /\ names = DiskNodes \cup {RootNode}
  /\ live = {}
  /\ table = [p \in Procs |-> <<>>]
  /\ files = [f \in Files |-> Unused]
  /\ lock = [f \in Files |-> None]
  /\ call = [p \in Procs |-> Idle]
  /\ taken = [f \in Files |-> Untaken]
  /\ wins = [n \in Nodes |-> 0]

(* mount; with the path mounted already it fails and changes nothing.      *)
Mount(path) ==
  /\ ~up /\ path \notin mounts
  /\ mounts' = mounts \cup {path}
  /\ UNCHANGED <<up, names, live, table, files, ioVars, wins>>

(* FileTable::init opens the console once for each standard descriptor.    *)
InitTable(p) ==
  \E std \in [1..StdFiles -> Free] :
    /\ \A i, j \in 1..StdFiles : std[i] = std[j] => i = j
    /\ live' = live \cup {p}
    /\ table' = [table EXCEPT ![p] = std]
    /\ files' = [f \in Files |-> IF f \in Elems(std) THEN NewFile(Console) ELSE files[f]]

(* kmain mounts the root and spawns the first process.                     *)
Boot ==
  /\ ~up
  /\ mounts = {Root}
  /\ up' = TRUE
  /\ InitTable(Init1)
  /\ UNCHANGED <<mounts, names, ioVars, wins>>

(* p runs in user mode: it is not in a system call.                        *)
InUser(p) == p \in live /\ call[p] = Idle

Spawn(p, c) ==
  /\ InUser(p)
  /\ c \notin live
  /\ InitTable(c)
  /\ UNCHANGED <<mounts, up, names, ioVars, wins>>

Fork(p, c) ==
  /\ InUser(p)
  /\ c \notin live
  /\ live' = live \cup {c}
  /\ table' = [table EXCEPT ![c] = table[p]]
  /\ UNCHANGED <<mounts, up, names, files, ioVars, wins>>

Exit(p) ==
  /\ InUser(p)
  /\ live' = live \ {p}
  /\ table' = [table EXCEPT ![p] = <<>>]
  /\ Drop(table')
  /\ UNCHANGED <<mounts, up, names, lock, call, wins>>

-----------------------------------------------------------------------------
(* open and close.  One that fails at once changes nothing.                *)

(* The flags that open looks at; the others are accepted and ignored.      *)
Flags == {"CREAT", "EXCL"}

Exclusive(flags) == Flags \subseteq flags

(* add_file with a new File at offset 0.                                   *)
Opened(p, node, flags) ==
  \E f \in Free, i \in 1..(Len(table[p]) + 1) :
    /\ FirstSlot(table[p], i)
    /\ table' = [table EXCEPT ![p] = AddFile(@, f, i)]
    /\ files' = [files EXCEPT ![f] = NewFile(node)]
    /\ wins' = IF Exclusive(flags) THEN [wins EXCEPT ![node] = @ + 1] ELSE wins

(* The path is copied up to its NUL, which has to be there.                *)
PathIsValid(path) == path # <<>> /\ Len(path) < MAX_FILE_PATH_LENGTH

OpenFound(p, path, flags) ==
  LET node == ResolvePath(mounts, path)
  IN  /\ InUser(p)
      /\ PathIsValid(path)
      /\ node \in names
      /\ ~Exclusive(flags)
      /\ Opened(p, node, flags)
      /\ UNCHANGED <<mounts, up, names, live, ioVars>>

OpenMissing(p, path, flags) ==
  LET node == ResolvePath(mounts, path)
  IN  /\ InUser(p)
      /\ PathIsValid(path)
      /\ node # None /\ node \notin names
      /\ "CREAT" \in flags
      /\ call' = [call EXCEPT ![p] = [op |-> "create", node |-> node, flags |-> flags]]
      /\ UNCHANGED <<mounts, up, names, live, table, files, lock, taken, wins>>

(* Mutant: the earlier lookup is trusted.                                  *)
CanCreate_Blindly(node) == TRUE

(* create looks the name up again, under the lock of the directory.        *)
CanCreate(node) == node \notin names

Creating(p) == call[p].op = "create"

Create(p) ==
  /\ Creating(p)
  /\ CanCreate(call[p].node)
  /\ names' = names \cup {call[p].node}
  /\ Opened(p, call[p].node, call[p].flags)
  /\ call' = [call EXCEPT ![p] = Idle]
  /\ UNCHANGED <<mounts, up, live, lock, taken>>

(* The name has appeared meanwhile, or the file system fails.              *)
CreateFails(p) ==
  /\ Creating(p)
  /\ call' = [call EXCEPT ![p] = Idle]
  /\ UNCHANGED <<mounts, up, names, live, table, files, lock, taken, wins>>

Close(p, fd) ==
  /\ InUser(p)
  /\ GetFile(table[p], fd) # None
  /\ table' = [table EXCEPT ![p] = CloseFile(@, fd)]
  /\ Drop(table')
  /\ UNCHANGED <<mounts, up, names, live, lock, call, wins>>

-----------------------------------------------------------------------------
(* readv and writev; read and write are vectors of one, and a call with    *)
(* no vector changes nothing.                                              *)

Err == -1

InIo(p, pc) == call[p].op = "io" /\ call[p].pc = pc
FileOf(p) == GetFile(table[p], call[p].fd)
AsksForBytes(p) == Head(call[p].vec) # 0

Request(p, fd, vec) ==
  LET f == GetFile(table[p], fd)
  IN  /\ InUser(p)
      /\ f # None => files[f].inode # Console
      /\ call' = [call EXCEPT ![p] =
                    [op |-> "io", pc |-> "next", fd |-> fd, vec |-> vec,
                     n |-> 0, now |-> 0, moved |-> 0]]
      /\ UNCHANGED <<mounts, up, names, live, table, files, lock, taken, wins>>

(* What a call leaves when it returns n: moved is by how much it really    *)
(* moved the offset.                                                       *)
Done(n, moved) == [op |-> "done", n |-> n, moved |-> moved]

(* Mutant: the error is returned whatever went before.                     *)
Error_NotPartial(c) == Done(Err, c.moved)

(* An error counts only if nothing has been transferred yet.               *)
Error(c) == Done(IF c.n # 0 THEN c.n ELSE Err, c.moved)

(* read or write has returned now for the first vector.                    *)
Continue(c, now) ==
  IF now < Head(c.vec) \/ Len(c.vec) = 1
  THEN Done(c.n + now, c.moved)
  ELSE [c EXCEPT !.pc = "next", !.vec = Tail(@), !.n = @ + now, !.now = 0]

(* Calls that end, or go on, before they have a File.                      *)
Nothing(p) ==
  /\ InIo(p, "next")
  /\ \/ /\ Head(call[p].vec) = 0
        /\ call' = [call EXCEPT ![p] = Continue(@, 0)]
     \/ /\ AsksForBytes(p) /\ FileOf(p) = None
        /\ call' = [call EXCEPT ![p] = Error(@)]
  /\ UNCHANGED <<mounts, up, names, live, table, files, lock, taken, wins>>

(* Mutant: the offset is used without the lock.                            *)
FileIsFree_Always(f) == TRUE

FileIsFree(f) == lock[f] = None

Least(a, b) == IF a < b THEN a ELSE b

SizeOf(node) == IF node \in DiskNodes THEN Size ELSE 0

(* INode::read and write stay inside the file and never grow it.           *)
Available(f, count) ==
  LET size == SizeOf(files[f].inode)
  IN  IF files[f].offset >= size THEN 0 ELSE Least(count, size - files[f].offset)

(* File::read and write, up to the return of the inode: all of the bytes,  *)
(* or fewer but some.                                                      *)
Transfer(p) ==
  LET f == FileOf(p)
      b == files[f].offset
  IN  /\ InIo(p, "next")
      /\ AsksForBytes(p)
      /\ f # None
      /\ FileIsFree(f)
      /\ files[f].inode # RootNode
      /\ \E now \in 0..Available(f, Head(call[p].vec)) :
           /\ now = 0 => Available(f, Head(call[p].vec)) = 0
           /\ taken' = [taken EXCEPT ![f] =
                          [i \in DOMAIN @ |-> @[i] + IF i \in b..(b + now - 1) THEN 1 ELSE 0]]
           /\ call' = [call EXCEPT ![p].pc = "offset", ![p].now = now]
      /\ lock' = [lock EXCEPT ![f] = p]
      /\ UNCHANGED <<mounts, up, names, live, table, files, wins>>

(* The inode is a directory, or fails.                                     *)
TransferFails(p) ==
  /\ InIo(p, "next")
  /\ AsksForBytes(p)
  /\ FileOf(p) # None /\ FileIsFree(FileOf(p))
  /\ call' = [call EXCEPT ![p] = Error(@)]
  /\ UNCHANGED <<mounts, up, names, live, table, files, lock, taken, wins>>

(* The rest of File::read and write; the guard of the lock goes.           *)
MoveOffset(p) ==
  LET f == FileOf(p)
  IN  /\ InIo(p, "offset")
      /\ files' = [files EXCEPT ![f].offset = @ + call[p].now]
      /\ lock' = [lock EXCEPT ![f] = None]
      /\ call' = [call EXCEPT ![p] = Continue([call[p] EXCEPT !.moved = @ + call[p].now], call[p].now)]
      /\ UNCHANGED <<mounts, up, names, live, table, taken, wins>>

(* The result goes into the trap frame, and the process goes on.           *)
Resume(p) ==
  /\ call[p].op = "done"
  /\ call' = [call EXCEPT ![p] = Idle]
  /\ UNCHANGED <<mounts, up, names, live, table, files, lock, taken, wins>>

Next ==
  \/ \E path \in MountPaths : Mount(path)
  \/ Boot
  \/ \E p, c \in Procs : Fork(p, c) \/ Spawn(p, c)
  \/ \E p \in Procs, path \in UserPaths, flags \in SUBSET Flags :
       OpenFound(p, path, flags) \/ OpenMissing(p, path, flags)
  \/ \E p \in Procs : Create(p) \/ CreateFails(p)
  \/ \E p \in Procs, fd \in 1..Cardinality(Files) : Close(p, fd)
  \/ \E p \in Procs, fd \in 1..Cardinality(Files), vec \in Vectors : Request(p, fd, vec)
  \/ \E p \in Procs : Nothing(p) \/ Transfer(p) \/ TransferFails(p) \/ MoveOffset(p) \/ Resume(p)
  \/ \E p \in Procs : Exit(p)

Spec == Init /\ [][Next]_vars

-----------------------------------------------------------------------------
(* Each path goes to the mount with the most leading components of it, and *)
(* on to the remaining components, although find_mount and resolve_path    *)
(* work on bytes: "/ab" is not below "/a".                                 *)
RoutedByComponents ==
  ~up => \A path \in Paths :
    LET whole == Components(path)
        above == {m \in mounts : path # <<>> /\ Head(path) = Slash /\ StartsWith(whole, Components(m))}
        node  == ResolvePath(mounts, path)
    IN  IF above = {} THEN node = None
        ELSE /\ node # None
             /\ node.fs \in above
             /\ \A m \in above : Len(Components(m)) <= Len(Components(node.fs))
             /\ Components(node.fs) \o node.at = whole

(* However many processes read and write through an open file that they    *)
(* share since a fork, the bytes before its offset have been given out     *)
(* once each, and no other byte but those of a transfer in progress: the   *)
(* lock of the File spans inode access and update of the offset.           *)
EachByteOnce ==
  \A f \in Held(table) :
    LET now == IF lock[f] = None THEN 0 ELSE call[lock[f]].now
    IN  \A b \in 0..(Size - 1) :
          taken[f][b] = IF b < files[f].offset + now THEN 1 ELSE 0

(* readv and writev return the number of bytes by which they moved the     *)
(* offset, also when a later vector fails, and an error only if it is 0.   *)
ReturnedIsMoved ==
  \A p \in Procs :
    call[p].op = "done" =>
      call[p].moved = IF call[p].n = Err THEN 0 ELSE call[p].n

(* An open file has the same descriptor in every process that has it, and  *)
(* one descriptor only: add_file, close_file and the clone of fork never   *)
(* move an entry, so that a number keeps meaning the file it was given for.*)
OneNumberPerFile ==
  \A p, q \in Procs : \A i \in 1..Len(table[p]), j \in 1..Len(table[q]) :
    table[p][i] = table[q][j] /\ table[p][i] # None => i = j

(* Of all calls of open with CREAT and EXCL for one name at most one gets  *)
(* the file, and none for a name that was there before, although open      *)
(* looks the name up and creates it in two steps.                          *)
ExclusiveCreatesOnce ==
  \A n \in Nodes : wins[n] <= IF n \in DiskNodes THEN 0 ELSE 1
=============================================================================
