--------------------------- MODULE OpenFilesProofs ---------------------------
(***************************************************************************)
(* Proofs about OpenFiles, for every set of processes, Files, paths and    *)
(* vectors: its inductive invariant, lemmas about its operators, one step  *)
(* per operation, and the theorems.                                        *)
(*                                                                         *)
(* IInv adds what the properties lean on: the lock of a File and the call  *)
(* of its holder name each other, a File that no table holds is as new, a  *)
(* process that does not run holds nothing, and a call has moved the       *)
(* offset by what it has counted so far.                                   *)
(***************************************************************************)
EXTENDS OpenFiles, TLAPS

USE ZenonT(20)

Entries == Files \cup {None}

(* What File.inode can be.                                                 *)
Inodes ==
  {ResolvePath(ms, path) : ms \in SUBSET MountPaths, path \in UserPaths} \cup {None, Console}

Creations == [op : {"create"}, node : Inodes, flags : SUBSET Flags]
Transfers ==
  [op : {"io"}, pc : {"next", "offset"}, fd : Int, vec : Seq(Nat) \ {<<>>},
   n : Nat, now : Nat, moved : Nat]
Results == [op : {"done"}, n : Nat \cup {Err}, moved : Nat]
Calls == {Idle} \cup Creations \cup Transfers \cup Results

Typed ==
  /\ mounts \subseteq MountPaths
  /\ live \subseteq Procs
  /\ table \in [Procs -> Seq(Entries)]
  /\ files \in [Files -> [inode : Inodes, offset : Nat]]
  /\ lock \in [Files -> Procs \cup {None}]
  /\ call \in [Procs -> Calls]
  /\ taken \in [Files -> [0..(Size - 1) -> Nat]]
  /\ wins \in [Nodes -> Nat]

(* A process that has not started or has exited has no descriptors and is  *)
(* in no call.                                                             *)
NotLiveHoldNothing ==
  /\ ~up => live = {}
  /\ \A p \in Procs \ live : table[p] = <<>> /\ call[p] = Idle

(* A File is locked by the process that is between transfer and offset.    *)
LocksMatchCalls ==
  /\ \A f \in Files : lock[f] # None => InIo(lock[f], "offset") /\ FileOf(lock[f]) = f
  /\ \A p \in Procs : InIo(p, "offset") => FileOf(p) \in Files /\ lock[FileOf(p)] = p

(* Nothing has been read or written through a File nobody holds.           *)
FreeIsUntaken == \A f \in Files \ Held(table) : taken[f] = Untaken

(* What a call reports, or is going to report, is what it has moved.       *)
Counted(c) ==
  /\ c.op = "io" => c.moved = c.n
  /\ c.op = "done" => c.moved = IF c.n = Err THEN 0 ELSE c.n

CallsCount == \A p \in Procs : Counted(call[p])

(* A name won by an exclusive creation is there from then on.              *)
WinsMatchNames ==
  /\ DiskNodes \subseteq names
  /\ \A n \in Nodes : /\ n \in DiskNodes => wins[n] = 0
                      /\ n \notin names => wins[n] = 0
                      /\ wins[n] <= 1

(* EachByteOnce for one File.                                              *)
InTransfer(f) == IF lock[f] = None THEN 0 ELSE call[lock[f]].now
BytesOnce(f) ==
  \A b \in 0..(Size - 1) :
    taken[f][b] = IF b < files[f].offset + InTransfer(f) THEN 1 ELSE 0

IInv ==
  /\ Typed
  /\ NotLiveHoldNothing
  /\ LocksMatchCalls
  /\ FreeIsUntaken
  /\ EachByteOnce
  /\ CallsCount
  /\ OneNumberPerFile
  /\ WinsMatchNames

-----------------------------------------------------------------------------
(* The Files that tables hold.                                             *)
LEMMA HeldIff ==
  ASSUME NEW tb \in [Procs -> Seq(Entries)], NEW f
  PROVE  f \in Held(tb) <=> f # None /\ \E p \in Procs : \E i \in 1..Len(tb[p]) : tb[p][i] = f
<1>1. \A p \in Procs : DOMAIN tb[p] = 1..Len(tb[p])
  BY SMTT(30)
<1>2. f \in Held(tb) <=> f # None /\ \E p \in Procs : f \in Elems(tb[p])
  BY DEF Held
<1>3. \A p \in Procs : f \in Elems(tb[p]) <=> \E i \in 1..Len(tb[p]) : tb[p][i] = f
  BY <1>1 DEF Elems
<1> QED
  BY <1>2, <1>3

(* All of them are Files.                                                  *)
LEMMA HeldFiles ==
  ASSUME NEW tb \in [Procs -> Seq(Entries)]
  PROVE  Held(tb) \subseteq Files
<1> SUFFICES ASSUME NEW f \in Held(tb) PROVE f \in Files
  OBVIOUS
<1>1. PICK p \in Procs : \E i \in 1..Len(tb[p]) : tb[p][i] = f
  BY HeldIff
<1>2. PICK i \in 1..Len(tb[p]) : tb[p][i] = f
  BY <1>1
<1>3. f # None /\ tb[p][i] \in Entries
  BY HeldIff, SMTT(30)
<1> QED
  BY <1>2, <1>3 DEF Entries

(* Tables that keep all entries hold at least the same Files.              *)
LEMMA HeldGrows ==
  ASSUME NEW t1 \in [Procs -> Seq(Entries)], NEW t2 \in [Procs -> Seq(Entries)],
         \A q \in Procs : \A i \in 1..Len(t1[q]) :
           t1[q][i] # None => i \in 1..Len(t2[q]) /\ t2[q][i] = t1[q][i]
  PROVE  Held(t1) \subseteq Held(t2)
<1> SUFFICES ASSUME NEW f \in Held(t1) PROVE f \in Held(t2)
  OBVIOUS
<1>1. f # None /\ \E q \in Procs : \E i \in 1..Len(t1[q]) : t1[q][i] = f
  BY HeldIff
<1>2. \E q \in Procs : \E i \in 1..Len(t2[q]) : t2[q][i] = f
  BY <1>1
<1> QED
  BY <1>1, <1>2, HeldIff

(* Tables made of old entries and Files of N hold no others.               *)
MadeOf(t2, t1, N) ==
  \A q \in Procs : \A i \in 1..Len(t2[q]) :
    \/ t2[q][i] \in N \cup {None}
    \/ \E r \in Procs : i \in 1..Len(t1[r]) /\ t2[q][i] = t1[r][i]

LEMMA HeldFrom ==
  ASSUME NEW t1 \in [Procs -> Seq(Entries)], NEW t2 \in [Procs -> Seq(Entries)], NEW N,
         MadeOf(t2, t1, N)
  PROVE  Held(t2) \subseteq Held(t1) \cup N
<1> SUFFICES ASSUME NEW f \in Held(t2), f \notin N PROVE f \in Held(t1)
  OBVIOUS
<1>1. f # None /\ \E q \in Procs : \E i \in 1..Len(t2[q]) : t2[q][i] = f
  BY HeldIff
<1>2. \E r \in Procs : \E i \in 1..Len(t1[r]) : t1[r][i] = f
  BY <1>1, SMTT(30) DEF MadeOf
<1> QED
  BY <1>1, <1>2, HeldIff

(* add_file puts the file into an empty entry or a new one.                *)
LEMMA AddFileEntry ==
  ASSUME NEW t \in Seq(Entries), NEW f \in Files, NEW i \in 1..(Len(t) + 1), FirstSlot(t, i)
  PROVE  /\ AddFile(t, f, i) \in Seq(Entries)
         /\ i \in 1..Len(AddFile(t, f, i))
         /\ AddFile(t, f, i)[i] = f
         /\ i \in 1..Len(t) => t[i] = None
         /\ \A j \in 1..Len(AddFile(t, f, i)) :
              j # i => j \in 1..Len(t) /\ AddFile(t, f, i)[j] = t[j]
         /\ \A j \in 1..Len(t) : j \in 1..Len(AddFile(t, f, i))
<1>1. f \in Entries /\ Len(t) \in Nat
  BY SMTT(30) DEF Entries
<1>2. CASE i = Len(t) + 1
  BY <1>1, <1>2, SMTT(30) DEF AddFile
<1>3. CASE i \in 1..Len(t)
  <2>1. AddFile(t, f, i) = [t EXCEPT ![i] = f]
    BY <1>1, <1>3, SMTT(30) DEF AddFile
  <2>2. /\ [t EXCEPT ![i] = f] \in Seq(Entries)
        /\ Len([t EXCEPT ![i] = f]) = Len(t)
        /\ [t EXCEPT ![i] = f][i] = f
        /\ \A j \in 1..Len(t) : j # i => [t EXCEPT ![i] = f][j] = t[j]
    BY <1>1, <1>3, SMTT(30)
  <2>3. t[i] = None
    BY <1>1, <1>3, SMTT(30) DEF FirstSlot
  <2> QED
    BY <1>3, <2>1, <2>2, <2>3
<1> QED
  BY <1>1, <1>2, <1>3, SMTT(30)

(* The kinds of calls.                                                     *)
LEMMA CallKinds ==
  ASSUME NEW c \in Calls
  PROVE  /\ c.op \in {"idle", "create", "io", "done"}
         /\ c.op = "idle" => c = Idle
         /\ c.op = "create" => c \in Creations
         /\ c.op = "io" => c \in Transfers
         /\ c.op = "done" => c \in Results
  BY SMTT(30) DEF Calls, Creations, Transfers, Results, Idle

(* The initial state.                                                      *)
LEMMA InitIInv == Init => IInv
<1> SUFFICES ASSUME Init PROVE IInv
  OBVIOUS
<1> USE FilesAssumption DEF Init
<1>1. Typed
  BY SMTT(30) DEF Typed, Inodes, Calls, Unused, NewFile, Untaken
<1>2. NotLiveHoldNothing
  BY DEF NotLiveHoldNothing
<1>3. LocksMatchCalls
  BY DEF LocksMatchCalls, InIo, Idle
<1>4. FreeIsUntaken
  BY DEF FreeIsUntaken
<1>5. Held(table) = {}
  <2>1. \A p \in Procs : Len(table[p]) = 0
    OBVIOUS
  <2>2. table \in [Procs -> Seq(Entries)]
    BY <1>1 DEF Typed
  <2>3. \A p \in Procs : 1..Len(table[p]) = {}
    BY <2>1, SMTT(30)
  <2> HIDE DEF Init
  <2>4. \A f : f \notin Held(table)
    BY <2>2, <2>3, HeldIff
  <2> QED
    BY <2>4
<1>6. EachByteOnce
  BY <1>5 DEF EachByteOnce
<1>7. CallsCount
  BY DEF CallsCount, Counted, Idle
<1>8. OneNumberPerFile
  BY SMTT(30) DEF OneNumberPerFile
<1>9. WinsMatchNames
  BY SMTT(30) DEF WinsMatchNames
<1> QED
  BY <1>1, <1>2, <1>3, <1>4, <1>6, <1>7, <1>8, <1>9 DEF IInv

-----------------------------------------------------------------------------
(* A descriptor that is in use leads to a File.                            *)
LEMMA GetFileHeld ==
  ASSUME Typed, NEW p \in Procs, NEW fd, GetFile(table[p], fd) # None
  PROVE  /\ GetFile(table[p], fd) \in Files
         /\ GetFile(table[p], fd) \in Held(table)
         /\ fd \in 1..Len(table[p])
         /\ GetFile(table[p], fd) = table[p][fd]
<1>1. table \in [Procs -> Seq(Entries)]
  BY DEF Typed
<1>2. fd \in 1..Len(table[p]) /\ GetFile(table[p], fd) = table[p][fd]
  BY DEF GetFile
<1>3. table[p][fd] \in Held(table)
  BY <1>1, <1>2, HeldIff
<1> QED
  BY <1>1, <1>2, <1>3, HeldFiles

(* A process in a call is live.                                            *)
LEMMA BusyIsLive ==
  ASSUME IInv, NEW p \in Procs, call[p].op # "idle"
  PROVE  p \in live
  BY SMTT(30) DEF IInv, NotLiveHoldNothing, Idle

(* A step that changes nothing but the call of p, which has no lock before *)
(* and after.                                                              *)
LEMMA CallStep ==
  ASSUME IInv, NEW p \in live, NEW c \in Calls, Counted(c),
         ~InIo(p, "offset"), ~(c.op = "io" /\ c.pc = "offset"),
         call' = [call EXCEPT ![p] = c],
         UNCHANGED <<mounts, up, names, live, table, files, lock, taken, wins>>
  PROVE  IInv'
<1> USE DEF IInv
<1>1. p \in Procs
  BY DEF Typed
<1>2. /\ mounts' = mounts /\ up' = up /\ names' = names /\ live' = live /\ table' = table
      /\ files' = files /\ lock' = lock /\ taken' = taken /\ wins' = wins
  OBVIOUS
<1>3. call'[p] = c /\ \A q \in Procs \ {p} : call'[q] = call[q]
  BY <1>1 DEF Typed
<1>4. Typed'
  BY <1>1, <1>2 DEF Typed
<1>5. NotLiveHoldNothing'
  BY <1>2, <1>3, SMTT(30) DEF NotLiveHoldNothing
<1>6. \A f \in Files : lock[f] # None => lock[f] \in Procs \ {p}
  BY DEF LocksMatchCalls, Typed
<1>7. LocksMatchCalls'
  <2>1. \A f \in Files : lock[f] # None => InIo(lock[f], "offset")' /\ FileOf(lock[f])' = f
    BY <1>2, <1>3, <1>6, SMTT(30) DEF LocksMatchCalls, InIo, FileOf
  <2>2. ASSUME NEW q \in Procs, InIo(q, "offset")'
        PROVE  FileOf(q)' \in Files /\ lock[FileOf(q)'] = q
    <3>1. q # p
      BY <1>3, <2>2 DEF InIo
    <3>2. InIo(q, "offset") /\ FileOf(q)' = FileOf(q)
      BY <1>2, <1>3, <2>2, <3>1 DEF InIo, FileOf
    <3> QED
      BY <3>2 DEF LocksMatchCalls
  <2> QED
    BY <1>2, <2>1, <2>2 DEF LocksMatchCalls
<1>8. FreeIsUntaken' /\ OneNumberPerFile' /\ WinsMatchNames'
  BY <1>2, SMTT(30) DEF FreeIsUntaken, OneNumberPerFile, WinsMatchNames
<1>9. EachByteOnce'
  <2>1. Held(table) \subseteq Files
    BY HeldFiles DEF Typed
  <2>2. \A f \in Held(table) : lock[f] # None => call'[lock[f]] = call[lock[f]]
    BY <1>3, <1>6, <2>1
  <2>3. ASSUME NEW f \in Held(table) PROVE BytesOnce(f)'
    <3>1. InTransfer(f)' = InTransfer(f)
      BY <1>2, <2>2, SMTT(30) DEF InTransfer
    <3> QED
      BY <1>2, <3>1 DEF EachByteOnce, BytesOnce, InTransfer
  <2> QED
    BY <1>2, <2>3 DEF EachByteOnce, BytesOnce, InTransfer
<1>10. CallsCount'
  BY <1>3 DEF CallsCount
<1> QED
  BY <1>4, <1>5, <1>7, <1>8, <1>9, <1>10

(* A vector that has been dealt with: the call goes on or returns, having  *)
(* counted what it moved.                                                  *)
LEMMA ContinueCall ==
  ASSUME NEW c \in Transfers, NEW now \in Nat, c.moved = c.n + now
  PROVE  /\ Continue(c, now) \in Calls
         /\ Counted(Continue(c, now))
         /\ ~(Continue(c, now).op = "io" /\ Continue(c, now).pc = "offset")
<1>1. /\ c.n \in Nat /\ c.moved \in Nat /\ c.vec \in Seq(Nat) /\ c.vec # <<>>
      /\ c.n + now \in Nat
  BY DEF Transfers
<1>2. CASE now < Head(c.vec) \/ Len(c.vec) = 1
  <2>1. Continue(c, now) = [op |-> "done", n |-> c.n + now, moved |-> c.moved]
    BY <1>2 DEF Continue, Done
  <2> QED
    BY <1>1, <2>1, SMTT(30) DEF Calls, Results, Counted, Err
<1>3. CASE ~(now < Head(c.vec) \/ Len(c.vec) = 1)
  <2> DEFINE d == [c EXCEPT !.pc = "next", !.vec = Tail(@), !.n = @ + now, !.now = 0]
  <2>1. Continue(c, now) = d
    BY <1>3 DEF Continue
  <2>2. Tail(c.vec) \in Seq(Nat) \ {<<>>}
    <3>1. Len(c.vec) \in Nat /\ Len(c.vec) # 0 /\ Len(c.vec) # 1
      BY <1>1, <1>3, SMTT(30)
    <3>2. Tail(c.vec) \in Seq(Nat) /\ Len(Tail(c.vec)) = Len(c.vec) - 1
      BY <1>1, SMTT(30)
    <3>3. Len(Tail(c.vec)) # Len(<<>>)
      BY <3>1, <3>2, SMTT(30)
    <3> QED
      BY <3>2, <3>3
  <2>3. d \in Transfers /\ d.op = "io" /\ d.pc = "next" /\ d.moved = c.moved /\ d.n = c.n + now
    BY <1>1, <2>2 DEF Transfers
  <2> HIDE DEF d
  <2> QED
    BY <2>1, <2>3 DEF Calls, Counted
<1> QED
  BY <1>2, <1>3

(* An error: what was moved before it is what is returned.                 *)
LEMMA ErrorCall ==
  ASSUME NEW c \in Transfers, c.moved = c.n
  PROVE  Error(c) \in Calls /\ Counted(Error(c)) /\ Error(c).op = "done"
<1>1. c.n \in Nat
  BY DEF Transfers
<1>2. Error(c) = [op |-> "done", n |-> IF c.n # 0 THEN c.n ELSE Err, moved |-> c.moved]
  BY DEF Error, Done
<1> QED
  BY <1>1, <1>2, SMTT(30) DEF Calls, Results, Counted, Err

(* open that does not find the name.                                       *)
LEMMA OpenMissingStep ==
  ASSUME IInv, NEW p \in Procs, NEW path \in UserPaths, NEW flags \in SUBSET Flags,
         OpenMissing(p, path, flags)
  PROVE  IInv'
<1> DEFINE node == ResolvePath(mounts, path)
           c == [op |-> "create", node |-> node, flags |-> flags]
<1>1. p \in live /\ call[p] = Idle /\ call' = [call EXCEPT ![p] = c]
  BY DEF OpenMissing, InUser
<1>2. node \in Inodes
  BY SMTT(30) DEF IInv, Typed, Inodes
<1> HIDE DEF node
<1>3. c \in Calls /\ Counted(c) /\ c.op = "create"
  BY <1>2 DEF Calls, Creations, Counted
<1>4. ~InIo(p, "offset")
  BY <1>1, SMTT(30) DEF InIo, Idle
<1> HIDE DEF c
<1> QED
  BY <1>1, <1>3, <1>4, CallStep DEF OpenMissing

(* A creation that fails, and the return of a result.                      *)
LEMMA ToIdleStep ==
  ASSUME IInv, NEW p \in Procs, CreateFails(p) \/ Resume(p)
  PROVE  IInv'
<1>1. call[p].op \in {"create", "done"} /\ call' = [call EXCEPT ![p] = Idle]
  BY DEF CreateFails, Resume, Creating
<1>2. p \in live
  BY <1>1, BusyIsLive
<1>3. Idle \in Calls /\ Counted(Idle) /\ Idle.op = "idle"
  BY DEF Calls, Counted, Idle
<1>4. ~InIo(p, "offset")
  BY <1>1 DEF InIo
<1>5. UNCHANGED <<mounts, up, names, live, table, files, lock, taken, wins>>
  BY DEF CreateFails, Resume
<1> QED
  BY <1>1, <1>2, <1>3, <1>4, <1>5, CallStep

(* readv or writev is called.                                              *)
LEMMA RequestStep ==
  ASSUME IInv, NEW p \in Procs, NEW fd \in Int, NEW vec \in Vectors, Request(p, fd, vec)
  PROVE  IInv'
<1> DEFINE c == [op |-> "io", pc |-> "next", fd |-> fd, vec |-> vec,
                 n |-> 0, now |-> 0, moved |-> 0]
<1>1. p \in live /\ call[p] = Idle /\ call' = [call EXCEPT ![p] = c]
  BY DEF Request, InUser
<1>2. c \in Calls /\ Counted(c) /\ c.pc = "next"
  BY FilesAssumption DEF Calls, Transfers, Counted
<1>3. ~InIo(p, "offset")
  BY <1>1, SMTT(30) DEF InIo, Idle
<1> HIDE DEF c
<1> QED
  BY <1>1, <1>2, <1>3, CallStep DEF Request

(* What is known of a process at the start of a vector.                    *)
LEMMA AtNext ==
  ASSUME IInv, NEW p \in Procs, InIo(p, "next")
  PROVE  p \in live /\ call[p] \in Transfers /\ call[p].moved = call[p].n /\ ~InIo(p, "offset")
<1>1. call[p].op = "io" /\ call[p].pc = "next" /\ call[p] \in Calls
  BY DEF InIo, IInv, Typed
<1> QED
  BY <1>1, CallKinds, BusyIsLive DEF IInv, CallsCount, Counted, InIo

(* A vector of length 0, a bad descriptor or a transfer that fails.        *)
LEMMA NothingStep ==
  ASSUME IInv, NEW p \in Procs, Nothing(p) \/ TransferFails(p)
  PROVE  IInv'
<1>1. InIo(p, "next")
  BY DEF Nothing, TransferFails
<1>2. UNCHANGED <<mounts, up, names, live, table, files, lock, taken, wins>>
  BY DEF Nothing, TransferFails
<1>3. p \in live /\ call[p] \in Transfers /\ call[p].moved = call[p].n /\ ~InIo(p, "offset")
  BY <1>1, AtNext
<1>4. call[p].moved = call[p].n + 0
  BY <1>3, SMTT(30) DEF Transfers
<1>5. CASE call' = [call EXCEPT ![p] = Continue(@, 0)]
  <2>1. call' = [call EXCEPT ![p] = Continue(call[p], 0)]
    BY <1>5
  <2> QED
    BY <1>2, <1>3, <1>4, <2>1, ContinueCall, CallStep
<1>6. CASE call' = [call EXCEPT ![p] = Error(@)]
  <2>1. call' = [call EXCEPT ![p] = Error(call[p])]
    BY <1>6
  <2> QED
    BY <1>2, <1>3, <2>1, ErrorCall, CallStep
<1> QED
  BY <1>5, <1>6 DEF Nothing, TransferFails

-----------------------------------------------------------------------------
(* Steps that change a file table.  The process is in no transfer, so no   *)
(* lock depends on its entries.                                            *)
LEMMA LocksKept ==
  ASSUME LocksMatchCalls, Typed, NEW p \in Procs, call[p].op # "io", call'[p].op # "io",
         lock' = lock,
         \A q \in Procs \ {p} : table'[q] = table[q] /\ call'[q] = call[q]
  PROVE  /\ LocksMatchCalls'
         /\ \A f \in Files : InTransfer(f)' = InTransfer(f)
<1>1. \A f \in Files : lock[f] # None => lock[f] \in Procs \ {p}
  BY SMTT(30) DEF LocksMatchCalls, Typed, InIo
<1>2. \A q \in Procs \ {p} : (InIo(q, "offset")' <=> InIo(q, "offset")) /\ FileOf(q)' = FileOf(q)
  BY DEF InIo, FileOf
<1>3. \A f \in Files : lock[f] # None => InIo(lock[f], "offset")' /\ FileOf(lock[f])' = f
  BY <1>1, <1>2 DEF LocksMatchCalls
<1>4. ASSUME NEW q \in Procs, InIo(q, "offset")'
      PROVE  FileOf(q)' \in Files /\ lock[FileOf(q)'] = q
  <2>1. q # p
    BY <1>4 DEF InIo
  <2> QED
    BY <1>2, <1>4, <2>1 DEF LocksMatchCalls
<1>5. \A f \in Files : InTransfer(f)' = InTransfer(f)
  BY <1>1 DEF InTransfer
<1> QED
  BY <1>3, <1>4, <1>5 DEF LocksMatchCalls

(* Entries of p go away, and with the last of its entries a File.          *)
LEMMA DropStep ==
  ASSUME IInv, NEW p \in live, call[p] = Idle, NEW t \in Seq(Entries),
         \A i \in 1..Len(t) : i \in 1..Len(table[p]) /\ (t[i] = None \/ t[i] = table[p][i]),
         table' = [table EXCEPT ![p] = t],
         live' = live \/ (live' = live \ {p} /\ t = <<>>),
         Drop(table'),
         UNCHANGED <<mounts, up, names, lock, call, wins>>
  PROVE  IInv'
<1> USE DEF IInv
<1>1. p \in Procs /\ call[p].op = "idle"
  BY SMTT(30) DEF Typed, Idle
<1>2. mounts' = mounts /\ up' = up /\ names' = names /\ lock' = lock /\ call' = call /\ wins' = wins
  OBVIOUS
<1>3. /\ table \in [Procs -> Seq(Entries)] /\ table' \in [Procs -> Seq(Entries)]
      /\ table'[p] = t
      /\ \A q \in Procs \ {p} : table'[q] = table[q]
  BY <1>1 DEF Typed
<1>4. \A q \in Procs : \A i \in 1..Len(table'[q]) :
        i \in 1..Len(table[q]) /\ (table'[q][i] = None \/ table'[q][i] = table[q][i])
  BY <1>3
<1>5. Held(table') \subseteq Held(table) /\ Held(table) \subseteq Files
  <2>1. Held(table') \subseteq Held(table) \cup {}
    BY <1>3, <1>4, HeldFrom DEF MadeOf
  <2> QED
    BY <1>3, <2>1, HeldFiles
<1>6. \A f \in Files :
        /\ files'[f] = IF f \in Held(table') THEN files[f] ELSE Unused
        /\ taken'[f] = IF f \in Held(table') THEN taken[f] ELSE Untaken
  BY DEF Drop
<1>7. Typed'
  <2>1. live' \subseteq Procs
    BY DEF Typed
  <2>2. Unused \in [inode : Inodes, offset : Nat] /\ Untaken \in [0..(Size - 1) -> Nat]
    BY SMTT(30) DEF Unused, NewFile, Untaken, Inodes
  <2>3. /\ files' \in [Files -> [inode : Inodes, offset : Nat]]
        /\ taken' \in [Files -> [0..(Size - 1) -> Nat]]
    BY <2>2 DEF Drop, Typed
  <2> QED
    BY <1>2, <1>3, <2>1, <2>3 DEF Typed
<1>8. NotLiveHoldNothing'
  BY <1>1, <1>2, <1>3, SMTT(30) DEF NotLiveHoldNothing
<1>9. LocksMatchCalls' /\ \A f \in Files : InTransfer(f)' = InTransfer(f)
  BY <1>1, <1>2, <1>3, LocksKept
<1>10. FreeIsUntaken'
  BY <1>6 DEF FreeIsUntaken
<1>11. EachByteOnce'
  <2>1. ASSUME NEW f \in Held(table') PROVE BytesOnce(f)'
    <3>1. f \in Held(table) /\ f \in Files
      BY <1>5
    <3>2. files'[f] = files[f] /\ taken'[f] = taken[f] /\ InTransfer(f)' = InTransfer(f)
      BY <1>6, <1>9, <3>1
    <3>3. BytesOnce(f)
      BY <3>1 DEF EachByteOnce, BytesOnce, InTransfer
    <3> QED
      BY <3>2, <3>3 DEF BytesOnce
  <2> QED
    BY <2>1 DEF EachByteOnce, BytesOnce, InTransfer
<1>12. CallsCount' /\ WinsMatchNames'
  BY <1>2 DEF CallsCount, WinsMatchNames
<1>13. OneNumberPerFile'
  BY <1>4, SMTT(30) DEF OneNumberPerFile
<1> QED
  BY <1>7, <1>8, <1>9, <1>10, <1>11, <1>12, <1>13

(* exit drops the whole table.                                             *)
LEMMA ExitStep ==
  ASSUME IInv, NEW p \in Procs, Exit(p)
  PROVE  IInv'
<1>1. p \in live /\ call[p] = Idle
  BY DEF Exit, InUser
<1>2. <<>> \in Seq(Entries) /\ \A i \in 1..Len(<<>>) : FALSE
  BY SMTT(30)
<1>3. /\ table' = [table EXCEPT ![p] = <<>>] /\ live' = live \ {p} /\ Drop(table')
      /\ UNCHANGED <<mounts, up, names, lock, call, wins>>
  BY DEF Exit
<1> QED
  BY <1>1, <1>2, <1>3, DropStep

(* close empties one entry.                                                *)
LEMMA CloseStep ==
  ASSUME IInv, NEW p \in Procs, NEW fd, Close(p, fd)
  PROVE  IInv'
<1> DEFINE t == [table[p] EXCEPT ![fd] = None]
<1>1. p \in live /\ call[p] = Idle
  BY DEF Close, InUser
<1>2. fd \in 1..Len(table[p]) /\ table[p] \in Seq(Entries)
  BY GetFileHeld DEF Close, IInv, Typed
<1>3. /\ t \in Seq(Entries)
      /\ \A i \in 1..Len(t) : i \in 1..Len(table[p]) /\ (t[i] = None \/ t[i] = table[p][i])
  BY <1>2, SMTT(30) DEF Entries
<1>4. /\ table' = [table EXCEPT ![p] = t] /\ live' = live /\ Drop(table')
      /\ UNCHANGED <<mounts, up, names, lock, call, wins>>
  BY DEF Close, CloseFile
<1> HIDE DEF t
<1> QED
  BY <1>1, <1>3, <1>4, DropStep

(* A File that no table holds is not locked.                               *)
LEMMA FreeIsUnlocked ==
  ASSUME IInv, NEW f \in Free
  PROVE  f \in Files /\ f \notin Held(table) /\ lock[f] = None /\ taken[f] = Untaken
<1> USE DEF IInv
<1>1. f \in Files /\ f \notin Held(table)
  BY DEF Free
<1>2. ASSUME lock[f] # None PROVE FALSE
  <2>1. lock[f] \in Procs /\ FileOf(lock[f]) = f
    BY <1>1, <1>2 DEF LocksMatchCalls, Typed
  <2>2. f # None
    BY <1>1, FilesAssumption
  <2>3. f \in Held(table)
    BY <2>1, <2>2, GetFileHeld DEF FileOf
  <2> QED
    BY <1>1, <2>3
<1> QED
  BY <1>1, <1>2 DEF FreeIsUntaken

(* Process p gets entries: copies of entries of the same number, and the   *)
(* new Files N, each in one place.                                         *)
LEMMA GrowStep ==
  ASSUME IInv, NEW p \in Procs, call[p].op # "io", NEW t \in Seq(Entries), NEW N \in SUBSET Free,
         \A i \in 1..Len(t) :
           \/ t[i] \in N \cup {None}
           \/ \E q \in Procs : i \in 1..Len(table[q]) /\ t[i] = table[q][i],
         \A i, j \in 1..Len(t) : t[i] \in N /\ t[i] = t[j] => i = j,
         \A i \in 1..Len(table[p]) : table[p][i] # None => i \in 1..Len(t) /\ t[i] = table[p][i],
         table' = [table EXCEPT ![p] = t],
         files' \in [Files -> [inode : Inodes, offset : Nat]],
         \A f \in Files : IF f \in N THEN files'[f].offset = 0 ELSE files'[f] = files[f],
         NEW c \in Calls, c.op # "io", Counted(c), call' = [call EXCEPT ![p] = c],
         live' = live \cup {p}, up',
         wins' \in [Nodes -> Nat], WinsMatchNames',
         UNCHANGED <<mounts, lock, taken>>
  PROVE  IInv'
<1> USE DEF IInv
<1>1. mounts' = mounts /\ lock' = lock /\ taken' = taken
  OBVIOUS
<1>2. /\ table \in [Procs -> Seq(Entries)] /\ table' \in [Procs -> Seq(Entries)]
      /\ table'[p] = t /\ call'[p] = c
      /\ \A q \in Procs \ {p} : table'[q] = table[q] /\ call'[q] = call[q]
  BY DEF Typed
<1>3. Typed'
  BY <1>1, <1>2, SMTT(30) DEF Typed
<1>4. NotLiveHoldNothing'
  BY <1>2, Zenon DEF NotLiveHoldNothing
<1>5. LocksMatchCalls' /\ \A f \in Files : InTransfer(f)' = InTransfer(f)
  BY <1>1, <1>2, LocksKept
<1>6. Held(table) \subseteq Files /\ Held(table') \subseteq Files
  BY <1>2, HeldFiles
<1>7. Held(table) \subseteq Held(table')
  <2>1. \A q \in Procs : \A i \in 1..Len(table[q]) :
          table[q][i] # None => i \in 1..Len(table'[q]) /\ table'[q][i] = table[q][i]
    BY <1>2, SMTT(30)
  <2> QED
    BY <1>2, <2>1, HeldGrows
<1>8. Held(table') \subseteq Held(table) \cup N
  <2>1. MadeOf(table', table, N)
    BY <1>2, SMTT(30) DEF MadeOf
  <2> QED
    BY <1>2, <2>1, HeldFrom
<1>9. FreeIsUntaken'
  BY <1>1, <1>7 DEF FreeIsUntaken
<1>10. EachByteOnce'
  <2>1. ASSUME NEW f \in Held(table'), f \in N PROVE BytesOnce(f)'
    <3>1. f \in Files /\ lock[f] = None /\ taken[f] = Untaken
      BY <2>1, FreeIsUnlocked
    <3>2. files'[f].offset = 0 /\ InTransfer(f)' = 0
      BY <1>1, <2>1, <3>1 DEF InTransfer
    <3> QED
      BY <1>1, <3>1, <3>2, SMTT(30) DEF BytesOnce, Untaken
  <2>2. ASSUME NEW f \in Held(table'), f \notin N PROVE BytesOnce(f)'
    <3>1. f \in Held(table) /\ f \in Files
      BY <1>6, <1>8, <2>2
    <3>2. files'[f] = files[f] /\ taken'[f] = taken[f] /\ InTransfer(f)' = InTransfer(f)
      BY <1>1, <1>5, <2>2, <3>1
    <3>3. BytesOnce(f)
      BY <3>1 DEF EachByteOnce, BytesOnce, InTransfer
    <3> QED
      BY <3>2, <3>3 DEF BytesOnce
  <2>3. \A f \in Held(table') : BytesOnce(f)'
    BY <2>1, <2>2
  <2> QED
    BY <2>3 DEF EachByteOnce, BytesOnce, InTransfer
<1>11. CallsCount'
  BY <1>2 DEF CallsCount
<1>12. OneNumberPerFile'
  <2> SUFFICES ASSUME NEW a \in Procs, NEW b \in Procs,
                      NEW i \in 1..Len(table'[a]), NEW j \in 1..Len(table'[b]),
                      table'[a][i] = table'[b][j], table'[a][i] # None
               PROVE  i = j
    BY SMTT(30) DEF OneNumberPerFile
  <2> DEFINE f == table'[a][i]
  <2>1. CASE f \in N
    <3>1. \A q \in Procs : \A k \in 1..Len(table[q]) : table[q][k] # f
      BY <1>2, <2>1, HeldIff DEF Free
    <3>2. a = p /\ b = p
      BY <1>2, <3>1, SMTT(30)
    <3> QED
      BY <1>2, <2>1, <3>2
  <2>2. CASE f \notin N
    <3>1. \E q \in Procs : i \in 1..Len(table[q]) /\ table[q][i] = f
      BY <1>2, <2>2
    <3>2. \E q \in Procs : j \in 1..Len(table[q]) /\ table[q][j] = f
      BY <1>2, <2>2, SMTT(30)
    <3> QED
      BY <3>1, <3>2, SMTT(30) DEF OneNumberPerFile
  <2> QED
    BY <2>1, <2>2
<1> QED
  BY <1>3, <1>4, <1>5, <1>9, <1>10, <1>11, <1>12

-----------------------------------------------------------------------------
(* The steps that open, share and move files, and the theorems.            *)

(* A live process gets a descriptor for a new File.                        *)
LEMMA OpenedStep ==
  ASSUME IInv, NEW p \in live, call[p].op # "io", NEW node \in Inodes, NEW flags,
         Opened(p, node, flags),
         call' = [call EXCEPT ![p] = Idle],
         WinsMatchNames',
         UNCHANGED <<mounts, up, live, lock, taken>>
  PROVE  IInv'
<1> USE DEF IInv
<1>1. p \in Procs /\ up /\ table[p] \in Seq(Entries) /\ live' = live \cup {p} /\ up'
  BY DEF Typed, NotLiveHoldNothing
<1>2. PICK f \in Free, k \in 1..(Len(table[p]) + 1) :
        /\ FirstSlot(table[p], k)
        /\ table' = [table EXCEPT ![p] = AddFile(@, f, k)]
        /\ files' = [files EXCEPT ![f] = NewFile(node)]
        /\ wins' = IF Exclusive(flags) THEN [wins EXCEPT ![node] = @ + 1] ELSE wins
  BY DEF Opened
<1> DEFINE t == AddFile(table[p], f, k)
           N == {f}
<1>3. f \in Files /\ N \in SUBSET Free /\ f \notin Held(table)
  BY DEF Free
<1>13. table[p] \in Seq(Entries) /\ k \in 1..(Len(table[p]) + 1) /\ FirstSlot(table[p], k)
  BY <1>1, <1>2 DEF Typed
<1>4. t \in Seq(Entries)
  BY <1>3, <1>13, AddFileEntry
<1>5. /\ k \in 1..Len(t)
      /\ t[k] = f
      /\ k \in 1..Len(table[p]) => table[p][k] = None
      /\ \A j \in 1..Len(t) : j # k => j \in 1..Len(table[p]) /\ t[j] = table[p][j]
      /\ \A j \in 1..Len(table[p]) : j \in 1..Len(t)
  BY <1>3, <1>13, AddFileEntry, SMTT(30)
<1>6. table' = [table EXCEPT ![p] = t]
  BY <1>2
<1> HIDE DEF t
<1>7. \A j \in 1..Len(table[p]) : table[p][j] # f
  <2>1. f # None
    BY <1>3, FilesAssumption
  <2> QED
    BY <1>1, <1>3, <2>1, HeldIff DEF Typed
<1>8. \A i \in 1..Len(t) :
        \/ t[i] \in N \cup {None}
        \/ \E q \in Procs : i \in 1..Len(table[q]) /\ t[i] = table[q][i]
  BY <1>1, <1>5
<1>9. \A i, j \in 1..Len(t) : t[i] \in N /\ t[i] = t[j] => i = j
  BY <1>5, <1>7
<1>10. \A i \in 1..Len(table[p]) : table[p][i] # None => i \in 1..Len(t) /\ t[i] = table[p][i]
  BY <1>5
<1>11. NewFile(node) \in [inode : Inodes, offset : Nat] /\ NewFile(node).offset = 0
  BY DEF NewFile
<1>12. /\ files' \in [Files -> [inode : Inodes, offset : Nat]]
       /\ \A g \in Files : IF g \in N THEN files'[g].offset = 0 ELSE files'[g] = files[g]
  BY <1>2, <1>3, <1>11 DEF Typed
<1>16. wins' \in [Nodes -> Nat]
  <2>1. wins \in [Nodes -> Nat] /\ \A n \in Nodes : wins[n] + 1 \in Nat
    BY SMTT(30) DEF Typed
  <2> QED
    BY <1>2, <2>1
<1>14. Idle \in Calls /\ Idle.op # "io" /\ Counted(Idle)
  BY DEF Calls, Counted, Idle
<1> HIDE DEF N
<1> HIDE DEF IInv
<1>15. UNCHANGED <<mounts, lock, taken>>
  OBVIOUS
<1> QED
  BY <1>1, <1>3, <1>4, <1>6, <1>8, <1>9, <1>10, <1>12, <1>16, <1>14, <1>15, GrowStep

(* open of a name that is there.                                           *)
LEMMA OpenFoundStep ==
  ASSUME IInv, NEW p \in Procs, NEW path \in UserPaths, NEW flags, OpenFound(p, path, flags)
  PROVE  IInv'
<1> DEFINE node == ResolvePath(mounts, path)
<1>1. /\ p \in live /\ call[p] = Idle /\ ~Exclusive(flags) /\ Opened(p, node, flags)
      /\ UNCHANGED <<mounts, up, names, live, lock, call, taken>>
  BY DEF OpenFound, InUser, ioVars
<1>2. node \in Inodes
  BY SMTT(30) DEF IInv, Typed, Inodes
<1> HIDE DEF node
<1>3. call' = [call EXCEPT ![p] = Idle] /\ call[p].op # "io"
  BY <1>1, SMTT(30) DEF IInv, Typed, Idle
<1>4. wins' = wins /\ names' = names
  BY <1>1 DEF Opened
<1>5. WinsMatchNames'
  BY <1>4 DEF IInv, WinsMatchNames
<1> QED
  BY <1>1, <1>2, <1>3, <1>5, OpenedStep

(* The second half of open: the creation.                                  *)
LEMMA CreateStep ==
  ASSUME IInv, NEW p \in Procs, Create(p)
  PROVE  IInv'
<1> DEFINE node == call[p].node
           flags == call[p].flags
<1>1. /\ call[p].op = "create" /\ node \notin names /\ names' = names \cup {node}
      /\ Opened(p, node, flags)
      /\ call' = [call EXCEPT ![p] = Idle]
      /\ UNCHANGED <<mounts, up, live, lock, taken>>
  BY DEF Create, Creating, CanCreate
<1>2. p \in live
  BY <1>1, BusyIsLive
<1>3. node \in Inodes
  <2>1. call[p] \in Creations
    BY <1>1, CallKinds DEF IInv, Typed
  <2> QED
    BY <2>1 DEF Creations
<1> HIDE DEF node, flags
<1>4. wins' = [wins EXCEPT ![node] = @ + 1] \/ wins' = wins
  BY <1>1 DEF Opened
<1>5. WinsMatchNames'
  <2>1. wins \in [Nodes -> Nat] /\ WinsMatchNames
    BY DEF IInv, Typed
  <2>2. node \notin DiskNodes /\ DiskNodes \subseteq names'
    BY <1>1, <2>1 DEF WinsMatchNames
  <2>3. ASSUME NEW n \in Nodes
        PROVE  /\ n \in DiskNodes => wins'[n] = 0
               /\ n \notin names' => wins'[n] = 0
               /\ wins'[n] <= 1
    <3>1. CASE n = node
      <4>1. wins[n] = 0
        BY <1>1, <2>1, <3>1 DEF WinsMatchNames
      <4>2. wins'[n] = 1 \/ wins'[n] = 0
        BY <1>4, <2>1, <3>1, <4>1, SMTT(30)
      <4> QED
        BY <1>1, <2>2, <3>1, <4>2, SMTT(30)
    <3>2. CASE n # node
      <4>1. wins'[n] = wins[n]
        BY <1>4, <2>1, <3>2
      <4> QED
        BY <1>1, <2>1, <3>2, <4>1 DEF WinsMatchNames
    <3> QED
      BY <3>1, <3>2
  <2> QED
    BY <2>2, <2>3 DEF WinsMatchNames
<1>6. call[p].op # "io"
  BY <1>1
<1> QED
  BY <1>1, <1>2, <1>3, <1>5, <1>6, OpenedStep

(* A new process with console files of its own.                            *)
LEMMA InitTableStep ==
  ASSUME IInv, NEW p \in Procs \ live, InitTable(p), up',
         UNCHANGED <<mounts, names, lock, call, taken, wins>>
  PROVE  IInv'
<1> USE DEF IInv
<1>1. PICK std \in [1..StdFiles -> Free] :
        /\ \A i, j \in 1..StdFiles : std[i] = std[j] => i = j
        /\ live' = live \cup {p}
        /\ table' = [table EXCEPT ![p] = std]
        /\ files' = [f \in Files |-> IF f \in Elems(std) THEN NewFile(Console) ELSE files[f]]
  BY DEF InitTable
<1>2. StdFiles \in Nat
  BY FilesAssumption, SMTT(30)
<1>3. /\ std \in Seq(Entries) /\ Len(std) = StdFiles /\ DOMAIN std = 1..StdFiles
      /\ \A i \in 1..StdFiles : std[i] \in Free
  BY <1>1, <1>2, SMTT(30) DEF Entries, Free
<1> DEFINE N == Elems(std)
<1>4. \A f : f \in N <=> \E i \in 1..Len(std) : std[i] = f
  BY <1>3 DEF Elems
<1> HIDE DEF N
<1>5. N \in SUBSET Free
  BY <1>3, <1>4
<1>6. table[p] = <<>> /\ call[p] = Idle
  BY DEF NotLiveHoldNothing
<1>7. \A i \in 1..Len(std) :
        \/ std[i] \in N \cup {None}
        \/ \E q \in Procs : i \in 1..Len(table[q]) /\ std[i] = table[q][i]
  BY <1>4
<1>8. \A i, j \in 1..Len(std) : std[i] \in N /\ std[i] = std[j] => i = j
  BY <1>1, <1>3
<1>9. \A i \in 1..Len(table[p]) : table[p][i] # None => i \in 1..Len(std) /\ std[i] = table[p][i]
  BY <1>6, SMTT(30)
<1>10. NewFile(Console) \in [inode : Inodes, offset : Nat] /\ NewFile(Console).offset = 0
  BY SMTT(30) DEF NewFile, Inodes
<1>11. /\ files' \in [Files -> [inode : Inodes, offset : Nat]]
       /\ \A g \in Files : IF g \in N THEN files'[g].offset = 0 ELSE files'[g] = files[g]
  BY <1>1, <1>10 DEF Typed, N
<1>12. call' = [call EXCEPT ![p] = Idle] /\ call[p].op # "io"
  BY <1>6, SMTT(30) DEF Typed, Idle
<1>13. wins' \in [Nodes -> Nat] /\ WinsMatchNames'
  BY DEF Typed, WinsMatchNames
<1>14. Idle \in Calls /\ Idle.op # "io" /\ Counted(Idle)
  BY DEF Calls, Counted, Idle
<1>15. table' = [table EXCEPT ![p] = std] /\ live' = live \cup {p} /\ UNCHANGED <<mounts, lock, taken>>
  BY <1>1
<1> HIDE DEF IInv
<1> QED
  BY <1>3, <1>5, <1>7, <1>8, <1>9, <1>11, <1>12, <1>13, <1>14, <1>15, GrowStep

(* fork: the child has the entries of its parent.                          *)
LEMMA ForkStep ==
  ASSUME IInv, NEW p \in Procs, NEW c \in Procs, Fork(p, c)
  PROVE  IInv'
<1> USE DEF IInv
<1>1. /\ p \in live /\ c \notin live /\ live' = live \cup {c}
      /\ table' = [table EXCEPT ![c] = table[p]]
      /\ mounts' = mounts /\ up' = up /\ names' = names /\ files' = files
      /\ lock' = lock /\ call' = call /\ taken' = taken /\ wins' = wins
  BY DEF Fork, InUser, ioVars
<1> DEFINE t == table[p]
           N == {}
<1>2. t \in Seq(Entries) /\ N \in SUBSET Free
  BY DEF Typed
<1>3. table[c] = <<>> /\ call[c] = Idle /\ up'
  BY <1>1 DEF NotLiveHoldNothing
<1>4. \A i \in 1..Len(t) :
        \/ t[i] \in N \cup {None}
        \/ \E q \in Procs : i \in 1..Len(table[q]) /\ t[i] = table[q][i]
  OBVIOUS
<1>5. \A i, j \in 1..Len(t) : t[i] \in N /\ t[i] = t[j] => i = j
  OBVIOUS
<1>6. \A i \in 1..Len(table[c]) : table[c][i] # None => i \in 1..Len(t) /\ t[i] = table[c][i]
  BY <1>3, SMTT(30)
<1>7. /\ files' \in [Files -> [inode : Inodes, offset : Nat]]
      /\ \A g \in Files : IF g \in N THEN files'[g].offset = 0 ELSE files'[g] = files[g]
  BY <1>1 DEF Typed
<1>8. call' = [call EXCEPT ![c] = Idle] /\ call[c].op # "io"
  BY <1>1, <1>3, SMTT(30) DEF Typed, Idle
<1>9. wins' \in [Nodes -> Nat] /\ WinsMatchNames'
  BY <1>1 DEF Typed, WinsMatchNames
<1>10. Idle \in Calls /\ Idle.op # "io" /\ Counted(Idle)
  BY DEF Calls, Counted, Idle
<1>11. table' = [table EXCEPT ![c] = t] /\ UNCHANGED <<mounts, lock, taken>> /\ live' = live \cup {c}
  BY <1>1
<1> HIDE DEF IInv, t, N
<1> QED
  BY <1>2, <1>3, <1>4, <1>5, <1>6, <1>7, <1>8, <1>9, <1>10, <1>11, GrowStep

-----------------------------------------------------------------------------
(* LocksMatchCalls in the state after a step, by File and by process.      *)
LEMMA LocksMatch ==
  ASSUME lock' \in [Files -> Procs \cup {None}],
         \A g \in Files, q \in Procs : lock'[g] = q => InIo(q, "offset")' /\ FileOf(q)' = g,
         \A q \in Procs : InIo(q, "offset")' => FileOf(q)' \in Files /\ lock'[FileOf(q)'] = q
  PROVE  LocksMatchCalls'
  BY DEF LocksMatchCalls, InIo, FileOf

(* The transfer: p takes the lock and the bytes after the offset.          *)
LEMMA TransferStep ==
  ASSUME IInv, NEW p \in Procs, Transfer(p)
  PROVE  IInv'
<1>0. PICK f, b, count : f = FileOf(p) /\ b = files[f].offset /\ count = Head(call[p].vec)
  OBVIOUS
<1>1. /\ InIo(p, "next") /\ f # None /\ lock[f] = None
      /\ lock' = [lock EXCEPT ![f] = p]
      /\ mounts' = mounts /\ up' = up /\ names' = names /\ live' = live /\ table' = table
      /\ files' = files /\ wins' = wins
  BY <1>0 DEF Transfer, FileIsFree
<1>2. PICK now \in 0..Available(f, count) :
        /\ taken' = [taken EXCEPT ![f] =
                       [i \in DOMAIN @ |-> @[i] + IF i \in b..(b + now - 1) THEN 1 ELSE 0]]
        /\ call' = [call EXCEPT ![p].pc = "offset", ![p].now = now]
  BY <1>0 DEF Transfer
<1>3. p \in live /\ call[p] \in Transfers /\ call[p].moved = call[p].n /\ ~InIo(p, "offset")
  BY <1>1, AtNext
<1>4. f \in Files /\ f \in Held(table)
  BY <1>0, <1>1, GetFileHeld DEF FileOf, IInv
<1>5. b \in Nat /\ count \in Nat /\ Size \in Nat /\ lock[f] = None
  <2>1. files[f] \in [inode : Inodes, offset : Nat]
    BY <1>4 DEF IInv, Typed
  <2>2. call[p].vec \in Seq(Nat) \ {<<>>}
    BY <1>3 DEF Transfers
  <2>3. Head(call[p].vec) \in Nat
    BY <2>2, SMTT(30)
  <2>4. Size \in Nat
    BY FilesAssumption, SMTT(30)
  <2> QED
    BY <1>0, <1>1, <2>1, <2>3, <2>4
<1>6. now \in Nat
  <2>1. Available(f, count) \in Int
    BY <1>0, <1>5, SMTT(30) DEF Available, SizeOf, Least
  <2> QED
    BY <2>1, SMTT(30)
<1> DEFINE c == [call[p] EXCEPT !.pc = "offset", !.now = now]
<1>7. /\ c \in Transfers /\ c.op = "io" /\ c.pc = "offset" /\ c.now = now
      /\ c.fd = call[p].fd /\ c.moved = c.n
  BY <1>3, <1>6 DEF Transfers
<1>8. call \in [Procs -> Calls] /\ taken \in [Files -> [0..(Size - 1) -> Nat]]
      /\ lock \in [Files -> Procs \cup {None}]
  BY DEF IInv, Typed
<1>9. call'[p] = c /\ \A q \in Procs \ {p} : call'[q] = call[q]
  BY <1>2, <1>8
<1>10. call' \in [Procs -> Calls]
  <2>1. c \in Calls
    BY <1>7 DEF Calls
  <2>2. call' = [call EXCEPT ![p] = c]
    BY <1>2
  <2> HIDE DEF c
  <2> QED
    BY <1>8, <2>1, <2>2
<1>11. /\ lock'[f] = p /\ \A g \in Files \ {f} : lock'[g] = lock[g]
       /\ lock' \in [Files -> Procs \cup {None}]
  BY <1>1, <1>4, <1>8
<1> HIDE DEF c
<1>12. /\ taken' \in [Files -> [0..(Size - 1) -> Nat]]
       /\ \A i \in 0..(Size - 1) :
            taken'[f][i] = taken[f][i] + IF i \in b..(b + now - 1) THEN 1 ELSE 0
       /\ \A g \in Files \ {f} : taken'[g] = taken[g]
  <2> DEFINE row == [i \in 0..(Size - 1) |-> taken[f][i] + IF i \in b..(b + now - 1) THEN 1 ELSE 0]
  <2>1. taken' = [taken EXCEPT ![f] = row]
    BY <1>2, <1>4, <1>8
  <2>2. row \in [0..(Size - 1) -> Nat]
    <3>1. \A i \in 0..(Size - 1) : taken[f][i] \in Nat
      BY <1>4, <1>8
    <3> QED
      BY <3>1, SMTT(30)
  <2>3. \A i \in 0..(Size - 1) : row[i] = taken[f][i] + IF i \in b..(b + now - 1) THEN 1 ELSE 0
    OBVIOUS
  <2> HIDE DEF row
  <2> QED
    BY <1>4, <1>8, <2>1, <2>2, <2>3
<1>13. Typed'
  BY <1>1, <1>10, <1>11, <1>12 DEF IInv, Typed
<1>14. NotLiveHoldNothing'
  BY <1>1, <1>3, <1>9 DEF IInv, NotLiveHoldNothing
<1>15. \A g \in Files : lock[g] # None => g # f /\ lock[g] \in Procs \ {p}
  BY <1>1, <1>3, <1>8 DEF IInv, LocksMatchCalls
<1>16. \A q \in Procs : q # p => (InIo(q, "offset")' <=> InIo(q, "offset")) /\ FileOf(q)' = FileOf(q)
  BY <1>1, <1>9 DEF InIo, FileOf
<1>17. InIo(p, "offset")' /\ FileOf(p)' = f
  BY <1>0, <1>1, <1>7, <1>9 DEF InIo, FileOf
<1>18. LocksMatchCalls'
  <2>1. ASSUME NEW g \in Files, NEW q \in Procs, lock'[g] = q
        PROVE  InIo(q, "offset")' /\ FileOf(q)' = g
    <3>1. CASE g = f
      BY <1>11, <1>17, <2>1, <3>1
    <3>2. CASE g # f
      <4>1. lock[g] = q /\ q # p
        BY <1>11, <1>15, <2>1, <3>2, FilesAssumption
      <4>2. InIo(q, "offset") /\ FileOf(q) = g
        BY <4>1, FilesAssumption DEF IInv, LocksMatchCalls
      <4> QED
        BY <1>16, <4>1, <4>2
    <3> QED
      BY <3>1, <3>2
  <2>2. ASSUME NEW q \in Procs, InIo(q, "offset")'
        PROVE  FileOf(q)' \in Files /\ lock'[FileOf(q)'] = q
    <3>1. CASE q = p
      BY <1>4, <1>11, <1>17, <3>1
    <3>2. CASE q # p
      <4>1. FileOf(q) \in Files /\ lock[FileOf(q)] = q /\ FileOf(q)' = FileOf(q)
        BY <1>16, <2>2, <3>2 DEF IInv, LocksMatchCalls
      <4>2. FileOf(q) # f
        BY <1>1, <1>5, <4>1, FilesAssumption
      <4> QED
        BY <1>11, <4>1, <4>2
    <3> QED
      BY <3>1, <3>2
  <2> QED
    BY <1>11, <2>1, <2>2, LocksMatch
<1>19. FreeIsUntaken'
  BY <1>1, <1>4, <1>12 DEF IInv, FreeIsUntaken
<1>20. EachByteOnce'
  <2>1. BytesOnce(f)'
    <3>1. InTransfer(f) = 0 /\ InTransfer(f)' = now
      BY <1>5, <1>7, <1>9, <1>11, FilesAssumption DEF InTransfer
    <3>2. \A i \in 0..(Size - 1) : taken[f][i] = IF i < b + 0 THEN 1 ELSE 0
      BY <1>0, <1>4, <1>5, <3>1 DEF IInv, EachByteOnce, InTransfer
    <3>3. files'[f].offset = b
      BY <1>0, <1>1
    <3>4. \A i \in 0..(Size - 1) : taken'[f][i] = IF i < b + now THEN 1 ELSE 0
      BY <1>5, <1>6, <1>12, <3>2, SMTT(30)
    <3> QED
      BY <3>1, <3>3, <3>4 DEF BytesOnce
  <2>2. ASSUME NEW g \in Held(table), g # f PROVE BytesOnce(g)'
    <3>1. g \in Files
      BY HeldFiles DEF IInv, Typed
    <3>2. InTransfer(g)' = InTransfer(g)
      BY <1>9, <1>11, <1>15, <2>2, <3>1 DEF InTransfer
    <3>3. files'[g] = files[g] /\ taken'[g] = taken[g]
      BY <1>1, <1>12, <2>2, <3>1
    <3>4. BytesOnce(g)
      BY DEF IInv, EachByteOnce, BytesOnce, InTransfer
    <3> QED
      BY <3>2, <3>3, <3>4 DEF BytesOnce
  <2>3. \A g \in Held(table') : BytesOnce(g)'
    BY <1>1, <2>1, <2>2
  <2> QED
    BY <2>3 DEF EachByteOnce, BytesOnce, InTransfer
<1>21. CallsCount'
  BY <1>7, <1>9 DEF IInv, CallsCount, Counted
<1>22. OneNumberPerFile' /\ WinsMatchNames'
  BY <1>1 DEF IInv, OneNumberPerFile, WinsMatchNames
<1> QED
  BY <1>13, <1>14, <1>18, <1>19, <1>20, <1>21, <1>22 DEF IInv

(* The offset moves and the lock goes.                                     *)
LEMMA MoveOffsetStep ==
  ASSUME IInv, NEW p \in Procs, MoveOffset(p)
  PROVE  IInv'
<1>0. PICK f, now, c : /\ f = FileOf(p) /\ now = call[p].now
                       /\ c = Continue([call[p] EXCEPT !.moved = @ + call[p].now], call[p].now)
  OBVIOUS
<1>1. /\ InIo(p, "offset")
      /\ files' = [files EXCEPT ![f].offset = @ + now]
      /\ lock' = [lock EXCEPT ![f] = None]
      /\ call' = [call EXCEPT ![p] = c]
      /\ mounts' = mounts /\ up' = up /\ names' = names /\ live' = live /\ table' = table
      /\ taken' = taken /\ wins' = wins
  <2>1. /\ InIo(p, "offset")
        /\ files' = [files EXCEPT ![FileOf(p)].offset = @ + call[p].now]
        /\ lock' = [lock EXCEPT ![FileOf(p)] = None]
        /\ call' = [call EXCEPT ![p] =
                      Continue([call[p] EXCEPT !.moved = @ + call[p].now], call[p].now)]
        /\ mounts' = mounts /\ up' = up /\ names' = names /\ live' = live /\ table' = table
        /\ taken' = taken /\ wins' = wins
    BY DEF MoveOffset
  <2> QED
    BY <1>0, <2>1
<1>2. f \in Files /\ lock[f] = p
  BY <1>0, <1>1 DEF IInv, LocksMatchCalls
<1>3. call[p] \in Transfers /\ call[p].moved = call[p].n /\ p \in live
  <2>1. call[p].op = "io" /\ call[p] \in Calls
    BY <1>1 DEF InIo, IInv, Typed
  <2> QED
    BY <2>1, CallKinds, BusyIsLive DEF IInv, CallsCount, Counted
<1>4. now \in Nat /\ call[p].n \in Nat
  BY <1>0, <1>3 DEF Transfers
<1>5. c \in Calls /\ Counted(c) /\ ~(c.op = "io" /\ c.pc = "offset")
  <2> DEFINE d == [call[p] EXCEPT !.moved = @ + now]
  <2>1. d \in Transfers /\ d.moved = d.n + now
    <3>1. call[p].moved + now \in Nat
      BY <1>3, <1>4, SMTT(30)
    <3>2. d \in Transfers /\ d.moved = call[p].moved + now /\ d.n = call[p].n
      BY <1>3, <3>1 DEF Transfers
    <3> QED
      BY <1>3, <3>2
  <2> HIDE DEF d
  <2>2. /\ Continue(d, now) \in Calls /\ Counted(Continue(d, now))
        /\ ~(Continue(d, now).op = "io" /\ Continue(d, now).pc = "offset")
    BY <1>4, <2>1, ContinueCall
  <2>3. c = Continue(d, now)
    BY <1>0 DEF d
  <2> QED
    BY <2>2, <2>3
<1>6. /\ call \in [Procs -> Calls] /\ lock \in [Files -> Procs \cup {None}]
      /\ files \in [Files -> [inode : Inodes, offset : Nat]]
  BY DEF IInv, Typed
<1>7. call'[p] = c /\ (\A q \in Procs \ {p} : call'[q] = call[q]) /\ call' \in [Procs -> Calls]
  BY <1>1, <1>5, <1>6
<1>8. /\ lock'[f] = None /\ \A g \in Files \ {f} : lock'[g] = lock[g]
      /\ lock' \in [Files -> Procs \cup {None}]
  BY <1>1, <1>2, <1>6
<1>9. /\ files' \in [Files -> [inode : Inodes, offset : Nat]]
      /\ files'[f].offset = files[f].offset + now
      /\ \A g \in Files \ {f} : files'[g] = files[g]
  <2> DEFINE r == [files[f] EXCEPT !.offset = @ + now]
  <2>1. files' = [files EXCEPT ![f] = r]
    BY <1>1
  <2>2. r \in [inode : Inodes, offset : Nat] /\ r.offset = files[f].offset + now
    BY <1>2, <1>4, <1>6, SMTT(30)
  <2> HIDE DEF r
  <2> QED
    BY <1>2, <1>6, <2>1, <2>2
<1>10. Typed'
  BY <1>1, <1>7, <1>8, <1>9 DEF IInv, Typed
<1>11. NotLiveHoldNothing'
  BY <1>1, <1>3, <1>7 DEF IInv, NotLiveHoldNothing
<1>12. \A g \in Files \ {f} : lock[g] # p
  BY <1>0, FilesAssumption DEF IInv, LocksMatchCalls
<1>13. \A q \in Procs : q # p => (InIo(q, "offset")' <=> InIo(q, "offset")) /\ FileOf(q)' = FileOf(q)
  BY <1>1, <1>7 DEF InIo, FileOf
<1>14. LocksMatchCalls'
  <2>1. ASSUME NEW g \in Files, NEW q \in Procs, lock'[g] = q
        PROVE  InIo(q, "offset")' /\ FileOf(q)' = g
    <3>1. g # f /\ lock[g] = q /\ q # p
      BY <1>8, <1>12, <2>1, FilesAssumption
    <3>2. InIo(q, "offset") /\ FileOf(q) = g
      BY <3>1, FilesAssumption DEF IInv, LocksMatchCalls
    <3> QED
      BY <1>13, <3>1, <3>2
  <2>2. ASSUME NEW q \in Procs, InIo(q, "offset")'
        PROVE  FileOf(q)' \in Files /\ lock'[FileOf(q)'] = q
    <3>1. q # p
      BY <1>5, <1>7, <2>2 DEF InIo
    <3>2. FileOf(q) \in Files /\ lock[FileOf(q)] = q /\ FileOf(q)' = FileOf(q)
      BY <1>13, <2>2, <3>1 DEF IInv, LocksMatchCalls
    <3> QED
      BY <1>2, <1>8, <3>1, <3>2
  <2> QED
    BY <1>8, <2>1, <2>2, LocksMatch
<1>15. FreeIsUntaken' /\ OneNumberPerFile' /\ WinsMatchNames'
  BY <1>1 DEF IInv, FreeIsUntaken, OneNumberPerFile, WinsMatchNames
<1>16. EachByteOnce'
  <2>1. ASSUME NEW g \in Held(table), g = f PROVE BytesOnce(g)'
    <3>1. InTransfer(f) = now /\ InTransfer(f)' = 0
      BY <1>0, <1>2, <1>8, FilesAssumption DEF InTransfer
    <3>2. BytesOnce(f)
      BY <2>1 DEF IInv, EachByteOnce, BytesOnce, InTransfer
    <3>3. files[f].offset \in Nat
      BY <1>2, <1>6
    <3>4. files[f].offset + InTransfer(f) = files'[f].offset + InTransfer(f)'
      BY <1>4, <1>9, <3>1, <3>3, SMTT(30)
    <3> QED
      BY <1>1, <2>1, <3>2, <3>4 DEF BytesOnce
  <2>2. ASSUME NEW g \in Held(table), g # f PROVE BytesOnce(g)'
    <3>1. g \in Files
      BY HeldFiles DEF IInv, Typed
    <3>2. InTransfer(g)' = InTransfer(g)
      BY <1>6, <1>7, <1>8, <1>12, <2>2, <3>1 DEF InTransfer
    <3>3. files'[g] = files[g] /\ taken'[g] = taken[g]
      BY <1>1, <1>9, <2>2, <3>1
    <3>4. BytesOnce(g)
      BY DEF IInv, EachByteOnce, BytesOnce, InTransfer
    <3> QED
      BY <3>2, <3>3, <3>4 DEF BytesOnce
  <2>3. \A g \in Held(table') : BytesOnce(g)'
    BY <1>1, <2>1, <2>2
  <2> QED
    BY <2>3 DEF EachByteOnce, BytesOnce, InTransfer
<1>17. CallsCount'
  BY <1>5, <1>7 DEF IInv, CallsCount
<1> QED
  BY <1>10, <1>11, <1>14, <1>15, <1>16, <1>17 DEF IInv

(* Boot mounts and stuttering.                                             *)
LEMMA MountStep ==
  ASSUME IInv, mounts' \subseteq MountPaths,
         UNCHANGED <<up, names, live, table, files, lock, call, taken, wins>>
  PROVE  IInv'
<1>1. /\ up' = up /\ names' = names /\ live' = live /\ table' = table /\ files' = files
      /\ lock' = lock /\ call' = call /\ taken' = taken /\ wins' = wins
  OBVIOUS
<1>2. Typed' /\ NotLiveHoldNothing' /\ FreeIsUntaken'
  BY <1>1, SMTT(30) DEF IInv, Typed, NotLiveHoldNothing, FreeIsUntaken
<1>3. LocksMatchCalls'
  BY <1>1 DEF IInv, LocksMatchCalls, InIo, FileOf
<1>4. EachByteOnce'
  BY <1>1 DEF IInv, EachByteOnce
<1>5. CallsCount' /\ OneNumberPerFile' /\ WinsMatchNames'
  BY <1>1, SMTT(30) DEF IInv, CallsCount, OneNumberPerFile, WinsMatchNames
<1> QED
  BY <1>2, <1>3, <1>4, <1>5 DEF IInv

(* Every step preserves IInv.                                              *)
LEMMA NextIInv == IInv /\ [Next]_vars => IInv'
<1> SUFFICES ASSUME IInv, [Next]_vars PROVE IInv'
  OBVIOUS
<1>1. ASSUME NEW path \in MountPaths, Mount(path) PROVE IInv'
  <2>1. mounts' \subseteq MountPaths
    BY <1>1 DEF Mount, IInv, Typed
  <2> QED
    BY <1>1, <2>1, MountStep DEF Mount, ioVars
<1>2. CASE Boot
  <2>1. Init1 \in Procs \ live
    BY <1>2, FilesAssumption DEF Boot, IInv, NotLiveHoldNothing
  <2> QED
    BY <1>2, <2>1, InitTableStep DEF Boot, ioVars
<1>3. ASSUME NEW p \in Procs, NEW c \in Procs, Fork(p, c) PROVE IInv'
  BY <1>3, ForkStep
<1>4. ASSUME NEW p \in Procs, NEW c \in Procs, Spawn(p, c) PROVE IInv'
  <2>1. c \in Procs \ live /\ up'
    BY <1>4 DEF Spawn, InUser, IInv, NotLiveHoldNothing
  <2> QED
    BY <1>4, <2>1, InitTableStep DEF Spawn, ioVars
<1>5. ASSUME NEW p \in Procs, NEW path \in UserPaths, NEW flags \in SUBSET Flags,
             OpenFound(p, path, flags) \/ OpenMissing(p, path, flags)
      PROVE  IInv'
  BY <1>5, OpenFoundStep, OpenMissingStep
<1>6. ASSUME NEW p \in Procs, Create(p) \/ CreateFails(p) \/ Resume(p) PROVE IInv'
  BY <1>6, CreateStep, ToIdleStep
<1>7. ASSUME NEW p \in Procs, NEW fd \in 1..Cardinality(Files), Close(p, fd) PROVE IInv'
  BY <1>7, CloseStep
<1>8. ASSUME NEW p \in Procs, NEW fd \in 1..Cardinality(Files), NEW vec \in Vectors,
             Request(p, fd, vec)
      PROVE  IInv'
  <2>1. fd \in Int
    BY SMTT(30)
  <2> QED
    BY <1>8, <2>1, RequestStep
<1>9. ASSUME NEW p \in Procs, Nothing(p) \/ TransferFails(p) PROVE IInv'
  BY <1>9, NothingStep
<1>10. ASSUME NEW p \in Procs, Transfer(p) PROVE IInv'
  BY <1>10, TransferStep
<1>11. ASSUME NEW p \in Procs, MoveOffset(p) PROVE IInv'
  BY <1>11, MoveOffsetStep
<1>12. ASSUME NEW p \in Procs, Exit(p) PROVE IInv'
  BY <1>12, ExitStep
<1>13. CASE UNCHANGED vars
  <2>1. mounts' \subseteq MountPaths
    BY <1>13 DEF vars, IInv, Typed
  <2> QED
    BY <1>13, <2>1, MountStep DEF vars, ioVars
<1> QED
  BY <1>1, <1>2, <1>3, <1>4, <1>5, <1>6, <1>7, <1>8, <1>9, <1>10, <1>11, <1>12, <1>13 DEF Next

-----------------------------------------------------------------------------
(* The inductive invariant holds in every reachable state.                 *)
THEOREM FilesInductive == Spec => []IInv
<1>1. Init => IInv
  BY InitIInv
<1>2. IInv /\ [Next]_vars => IInv'
  BY NextIInv
<1> QED
  BY <1>1, <1>2, PTL DEF Spec

(* Reads and writes through a shared File give out each byte once.         *)
THEOREM SharedOffsetCorrect == Spec => []EachByteOnce
<1>1. IInv => EachByteOnce
  BY DEF IInv
<1> QED
  BY <1>1, FilesInductive, PTL

(* readv and writev return by how much they moved the offset.              *)
THEOREM ReturnCorrect == Spec => []ReturnedIsMoved
<1>1. IInv => ReturnedIsMoved
  BY DEF IInv, CallsCount, Counted, ReturnedIsMoved
<1> QED
  BY <1>1, FilesInductive, PTL

(* A descriptor keeps meaning the file it was given for.                   *)
THEOREM DescriptorsCorrect == Spec => []OneNumberPerFile
<1>1. IInv => OneNumberPerFile
  BY DEF IInv
<1> QED
  BY <1>1, FilesInductive, PTL

(* Of all exclusive creations of a name at most one succeeds.              *)
THEOREM ExclusiveCorrect == Spec => []ExclusiveCreatesOnce
<1>1. IInv => ExclusiveCreatesOnce
  <2> SUFFICES ASSUME IInv, NEW n \in Nodes
               PROVE  wins[n] <= IF n \in DiskNodes THEN 0 ELSE 1
    BY DEF ExclusiveCreatesOnce
  <2>1. n \in DiskNodes => wins[n] = 0
    BY DEF IInv, WinsMatchNames
  <2>2. wins[n] <= 1
    BY DEF IInv, WinsMatchNames
  <2> QED
    BY <2>1, <2>2, SMTT(30)
<1> QED
  BY <1>1, FilesInductive, PTL
=============================================================================
