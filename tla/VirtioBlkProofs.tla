---------------------------- MODULE VirtioBlkProofs ---------------------------
(***************************************************************************)
(* Proofs about VirtioBlk for any number of harts, sectors and contents,   *)
(* any queue size and any width of the indices.                            *)
(*                                                                         *)
(* The argument: DRIVER lets one chain be in flight, so the three indices  *)
(* are never more than one apart, and their differences say how far the    *)
(* request of the hart that has DRIVER is: Quiet, Offered, Taken, Served.  *)
(***************************************************************************)
EXTENDS VirtioBlk, TLAPS

USE ZenonT(20)

Quiet ==
  avail.idx = lastUsed /\ seen = lastUsed /\ usedIdx = lastUsed /\ stage = "rest"

Offered(h) ==
  /\ avail.idx = Succ(lastUsed) /\ seen = lastUsed /\ usedIdx = lastUsed
  /\ stage = "rest" /\ status[h] = "ff"

Taken(h) ==
  /\ avail.idx = Succ(lastUsed) /\ seen = Succ(lastUsed) /\ usedIdx = lastUsed
  /\ \/ stage \in {"fetched", "Ok", "IoErr"} /\ status[h] = "ff"
     \/ stage = "written" /\ status[h] \in {"Ok", "IoErr"}

Served(h) ==
  /\ avail.idx = Succ(lastUsed) /\ seen = Succ(lastUsed) /\ usedIdx = Succ(lastUsed)
  /\ stage = "rest" /\ status[h] \in {"Ok", "IoErr"}

(* The descriptors hold the request of h.                                  *)
Chain(h) ==
  /\ desc[0].owner = h /\ desc[0].part = "header" /\ desc[0].next = 1
  /\ desc[1].owner = h /\ desc[1].part = "data" /\ desc[1].next = 2
  /\ desc[1].write = (header[h].ty = "In")
  /\ desc[2].owner = h /\ desc[2].part = "status"

HartInv(h) ==
  /\ pc[h] \in {"desc", "ring", "idx", "notify", "spin", "collect"} <=> lock = h
  /\ pc[h] = "idle" <=> data[h] = NoData
  /\ pc[h] \in {"idle", "lock", "desc"} => status[h] = "freed"
  /\ pc[h] \in {"ring", "idx"} => status[h] = "ff"
  /\ pc[h] \in {"desc", "ring", "idx"} => Quiet
  /\ pc[h] \in {"notify", "spin"} => Offered(h) \/ Taken(h) \/ Served(h)
  /\ pc[h] = "collect" => Served(h)
  /\ pc[h] \in {"ring", "idx", "notify", "spin"} => Chain(h)

(* The inductive invariant.                                                *)
IInv ==
  /\ TypeOK
  /\ head = 0 /\ \A s \in Slots : avail.ring[s] = 0
  /\ lock = NoHart => Quiet
  /\ \A h \in Harts : HartInv(h)

-----------------------------------------------------------------------------
(* An index wraps around to another index, and selects a slot.             *)
LEMMA IndexFacts ==
  ASSUME NEW i \in Idx
  PROVE  /\ Succ(i) \in Idx /\ Succ(i) # i
         /\ (i + 1) % IdxSpan = Succ(i)
         /\ i % QUEUE_SIZE \in Slots
<1>1. IdxSpan \in Nat /\ IdxSpan > 1 /\ QUEUE_SIZE \in Nat /\ QUEUE_SIZE > 0
  BY BlkAssumption, SMTT(30)
<1>2. i \in Nat /\ i < IdxSpan
  BY <1>1, SMTT(30) DEF Idx
<1>3. i % QUEUE_SIZE \in Slots
  BY <1>1, <1>2, SMTT(30) DEF Slots
<1>4. CASE i + 1 = IdxSpan
  <2>1. (i + 1) % IdxSpan = 0
    BY <1>1, <1>2, <1>4, SMTT(30)
  <2> QED
    BY <1>1, <1>2, <1>3, <1>4, <2>1, SMTT(30) DEF Succ, Idx
<1>5. CASE i + 1 < IdxSpan
  <2>1. (i + 1) % IdxSpan = i + 1
    BY <1>1, <1>2, <1>5, SMTT(30)
  <2> QED
    BY <1>1, <1>2, <1>3, <1>5, <2>1, SMTT(30) DEF Succ, Idx
<1> QED
  BY <1>1, <1>2, <1>4, <1>5, SMTT(30)

(* NoHart is no hart and NoData no contents.                               *)
LEMMA Markers == NoHart \notin Harts /\ NoData \notin Data
BY BlkAssumption

LEMMA InitIInv == Init => IInv
<1> SUFFICES ASSUME Init PROVE IInv
  OBVIOUS
<1>1. NoHeader \in [ty : {"In", "Out"}, sector : Sectors]
  BY BlkAssumption DEF NoHeader
<1>2. 0 \in Idx
  BY BlkAssumption, SMTT(30) DEF Idx
<1>3. TypeOK
  <2>1. regs \in [status : SUBSET {"ACK", "DRIVER", "FEATURES_OK", "DRIVER_OK", "unknown"},
                 ready : BOOLEAN]
    BY DEF Init
  <2>2. desc \in [0..2 -> [owner : Harts \cup {NoHart}, part : {"none", "header", "data", "status"},
                          write : BOOLEAN, next : 0..2]]
    BY SMTT(30) DEF Init
  <2>3. avail \in [idx : Idx, ring : [Slots -> 0..2]]
    BY <1>2, SMTT(30) DEF Init
  <2>4. /\ pc \in [Harts -> {"idle", "lock", "desc", "ring", "idx", "notify", "spin", "collect"}]
        /\ header \in [Harts -> [ty : {"In", "Out"}, sector : Sectors]]
        /\ data \in [Harts -> Data \cup {NoData}]
        /\ status \in [Harts -> {"freed", "ff", "Ok", "IoErr"}]
        /\ ret \in [Harts -> {"none", "ok", "err"}]
    BY <1>1 DEF Init
  <2>5. /\ boot \in {"reset", "negotiated", "up", "panic"}
        /\ lock \in Harts \cup {NoHart}
        /\ usedIdx \in Idx /\ lastUsed \in Idx /\ seen \in Idx
        /\ head \in 0..2
        /\ stage \in {"rest", "fetched", "Ok", "IoErr", "written"}
        /\ disk \in [Sectors -> Data]
    BY <1>2, SMTT(30) DEF Init
  <2>6. notified \in BOOLEAN
    BY DEF Init
  <2> QED
    BY <2>1, <2>2, <2>3, <2>4, <2>5, <2>6 DEF TypeOK
<1>4. head = 0 /\ \A s \in Slots : avail.ring[s] = 0
  BY DEF Init
<1>5. Quiet
  BY DEF Init, Quiet
<1>6. ASSUME NEW h \in Harts PROVE HartInv(h)
  BY Markers DEF Init, HartInv
<1> QED
  BY <1>3, <1>4, <1>5, <1>6 DEF IInv

(* A hart outside the driver is not disturbed by what goes on inside.      *)
LEMMA OutsideKept ==
  ASSUME IInv, NEW g \in Harts, lock # g, lock' # g,
         pc'[g] = pc[g], data'[g] = data[g], status'[g] = status[g]
  PROVE  HartInv(g)'
<1>1. HartInv(g) /\ pc[g] \in {"idle", "lock", "desc", "ring", "idx", "notify", "spin", "collect"}
  BY DEF IInv, TypeOK
<1>2. pc[g] \in {"idle", "lock"}
  BY <1>1 DEF HartInv
<1> QED
  BY <1>1, <1>2 DEF HartInv

(* A step that leaves alone what the invariant relates keeps it.           *)
LEMMA AllKept ==
  ASSUME IInv, TypeOK',
         UNCHANGED <<lock, pc, lastUsed, header, data, status, desc, avail, seen, head, stage, usedIdx>>
  PROVE  IInv'
<1>1. Quiet' = Quiet
  BY DEF Quiet
<1>2. ASSUME NEW g \in Harts PROVE HartInv(g)'
  <2>1. HartInv(g)
    BY DEF IInv
  <2>2. /\ Offered(g)' = Offered(g) /\ Taken(g)' = Taken(g)
        /\ Served(g)' = Served(g) /\ Chain(g)' = Chain(g)
    BY DEF Offered, Taken, Served, Chain, Succ
  <2> QED
    BY <1>1, <2>1, <2>2 DEF HartInv
<1> QED
  BY <1>1, <1>2 DEF IInv

(* The steps of block::init touch nothing the invariant relates.           *)
LEMMA BootStep ==
  ASSUME IInv, Negotiate \/ ConfigureQueue
  PROVE  IInv'
<1> USE DEF driver, buffers, device
<1>1. /\ UNCHANGED <<lock, pc, ret, lastUsed, header, data, status, desc, avail, notified>>
      /\ UNCHANGED <<seen, head, stage, usedIdx, disk>>
  BY DEF Negotiate, ConfigureQueue
<1>2. /\ boot' \in {"reset", "negotiated", "up", "panic"}
      /\ regs' \in [status : SUBSET {"ACK", "DRIVER", "FEATURES_OK", "DRIVER_OK", "unknown"},
                   ready : BOOLEAN]
  <2>1. regs \in [status : SUBSET {"ACK", "DRIVER", "FEATURES_OK", "DRIVER_OK", "unknown"},
                 ready : BOOLEAN]
    BY DEF IInv, TypeOK
  <2>2. CASE Negotiate
    BY <2>1, <2>2, SMTT(30) DEF Negotiate
  <2>3. CASE ConfigureQueue
    BY <2>1, <2>3 DEF ConfigureQueue
  <2> QED
    BY <2>2, <2>3
<1>3. TypeOK'
  BY <1>1, <1>2 DEF IInv, TypeOK
<1> QED
  BY <1>1, <1>3, AllKept

LEMMA CallStep ==
  ASSUME IInv, NEW h \in Harts, NEW ty \in {"In", "Out"}, NEW s \in Sectors, NEW v \in Data,
         Call(h, ty, s, v)
  PROVE  IInv'
<1> USE DEF device
<1>1. TypeOK'
  BY DEF IInv, TypeOK, Call
<1>2. (lock = NoHart => Quiet)' /\ (head = 0 /\ \A k \in Slots : avail.ring[k] = 0)'
  BY DEF IInv, Call, Quiet
<1>3. lock # h
  BY DEF IInv, HartInv, Call
<1>4. HartInv(h)'
  <2>1. HartInv(h)
    BY DEF IInv
  <2> QED
    BY <1>3, <2>1, Markers DEF IInv, TypeOK, Call, HartInv
<1>5. ASSUME NEW g \in Harts, g # h PROVE HartInv(g)'
  <2>1. /\ pc'[g] = pc[g] /\ data'[g] = data[g] /\ header'[g] = header[g]
        /\ UNCHANGED <<lock, status, lastUsed, desc, avail, seen, stage, usedIdx>>
    BY <1>5 DEF IInv, TypeOK, Call
  <2>2. HartInv(g)
    BY DEF IInv
  <2> QED
    BY <2>1, <2>2 DEF HartInv, Quiet, Offered, Taken, Served, Chain, Succ
<1> QED
  BY <1>1, <1>2, <1>4, <1>5 DEF IInv

LEMMA LockStep ==
  ASSUME IInv, NEW h \in Harts, Lock(h)
  PROVE  IInv'
<1> USE DEF buffers, device
<1>1. TypeOK'
  BY DEF IInv, TypeOK, Lock
<1>2. lock = NoHart /\ lock' = h /\ Quiet /\ Quiet' /\ lock' # NoHart
  BY Markers DEF IInv, Lock, DriverIsFree, Quiet
<1>3. HartInv(h)'
  <2>1. HartInv(h)
    BY DEF IInv
  <2> QED
    BY <1>2, <2>1 DEF IInv, TypeOK, Lock, HartInv
<1>4. ASSUME NEW g \in Harts, g # h PROVE HartInv(g)'
  <2>1. lock # g /\ pc'[g] = pc[g] /\ data'[g] = data[g] /\ status'[g] = status[g]
    BY <1>2, <1>4, Markers DEF IInv, TypeOK, Lock
  <2> QED
    BY <1>2, <1>4, <2>1, OutsideKept
<1> QED
  BY <1>1, <1>2, <1>3, <1>4 DEF IInv, Lock

(* A hart in operate has DRIVER; the others are outside before and after.  *)
LEMMA AdvanceFacts ==
  ASSUME IInv, NEW h \in Harts,
         NEW place \in {"desc", "ring", "idx", "notify"}, Advance(h, place)
  PROVE  /\ pc[h] = place /\ pc'[h] = After[place] /\ lock = h
         /\ lock' = h /\ lock' # NoHart
         /\ HartInv(h)
         /\ UNCHANGED <<boot, regs, ret, lastUsed, header, data, seen, head, stage, usedIdx, disk>>
         /\ pc' \in [Harts -> {"idle", "lock", "desc", "ring", "idx", "notify", "spin", "collect"}]
         /\ \A g \in Harts \ {h} : status'[g] = status[g] => HartInv(g)'
<1> USE DEF device
<1>1. HartInv(h) /\ pc[h] = place
  BY DEF IInv, Advance
<1>2. lock = h /\ lock' = h /\ lock' # NoHart
  BY <1>1, Markers DEF HartInv, Advance
<1>3. /\ pc'[h] = After[place]
      /\ pc' \in [Harts -> {"idle", "lock", "desc", "ring", "idx", "notify", "spin", "collect"}]
      /\ \A g \in Harts \ {h} : pc'[g] = pc[g]
  BY SMTT(30) DEF IInv, TypeOK, Advance, After
<1>4. ASSUME NEW g \in Harts \ {h}, status'[g] = status[g] PROVE HartInv(g)'
  BY <1>2, <1>3, <1>4, OutsideKept DEF Advance
<1> QED
  BY <1>1, <1>2, <1>3, <1>4 DEF Advance

LEMMA WriteDescriptorsStep ==
  ASSUME IInv, NEW h \in Harts, WriteDescriptors(h)
  PROVE  IInv'
<1>1. Advance(h, "desc")
  BY DEF WriteDescriptors
<1>2. /\ pc[h] = "desc" /\ pc'[h] = "ring" /\ lock = h /\ lock' = h /\ lock' # NoHart
      /\ HartInv(h)
      /\ UNCHANGED <<boot, regs, ret, lastUsed, header, data, seen, head, stage, usedIdx, disk>>
      /\ pc' \in [Harts -> {"idle", "lock", "desc", "ring", "idx", "notify", "spin", "collect"}]
      /\ \A g \in Harts \ {h} : status'[g] = status[g] => HartInv(g)'
  BY <1>1, AdvanceFacts DEF After
<1>3. /\ status' = [status EXCEPT ![h] = "ff"]
      /\ UNCHANGED <<avail, notified>>
  BY DEF WriteDescriptors
<1>4. status'[h] = "ff" /\ \A g \in Harts \ {h} : status'[g] = status[g]
  BY <1>3 DEF IInv, TypeOK
<1>5. desc' \in [0..2 -> [owner : Harts \cup {NoHart}, part : {"none", "header", "data", "status"},
                         write : BOOLEAN, next : 0..2]]
  <2>1. ASSUME NEW k \in 0..2
        PROVE  [owner |-> h,
                part  |-> IF k = 0 THEN "header" ELSE IF k = 1 THEN "data" ELSE "status",
                write |-> k = 2 \/ (k = 1 /\ header[h].ty = "In"),
                next  |-> IF k < 2 THEN k + 1 ELSE 0]
               \in [owner : Harts \cup {NoHart}, part : {"none", "header", "data", "status"},
                   write : BOOLEAN, next : 0..2]
    BY SMTT(30)
  <2> QED
    BY <2>1 DEF WriteDescriptors
<1>6. Chain(h)'
  BY <1>2, SMTT(30) DEF WriteDescriptors, Chain
<1>7. TypeOK'
  BY <1>2, <1>3, <1>5 DEF IInv, TypeOK
<1>8. HartInv(h)'
  BY <1>2, <1>3, <1>4, <1>6 DEF HartInv, Quiet
<1> QED
  BY <1>2, <1>3, <1>4, <1>7, <1>8 DEF IInv

LEMMA PutInRingStep ==
  ASSUME IInv, NEW h \in Harts, PutInRing(h)
  PROVE  IInv'
<1>1. Advance(h, "ring")
  BY DEF PutInRing
<1>2. /\ pc[h] = "ring" /\ pc'[h] = "idx" /\ lock = h /\ lock' = h /\ lock' # NoHart
      /\ HartInv(h)
      /\ UNCHANGED <<boot, regs, ret, lastUsed, header, data, seen, head, stage, usedIdx, disk>>
      /\ pc' \in [Harts -> {"idle", "lock", "desc", "ring", "idx", "notify", "spin", "collect"}]
      /\ \A g \in Harts \ {h} : status'[g] = status[g] => HartInv(g)'
  BY <1>1, AdvanceFacts DEF After
<1>3. /\ UNCHANGED <<status, desc, notified>>
      /\ avail' = [avail EXCEPT !.ring[avail.idx % QUEUE_SIZE] = 0]
  BY DEF PutInRing
<1>4. /\ avail' \in [idx : Idx, ring : [Slots -> 0..2]] /\ avail'.idx = avail.idx
      /\ \A s \in Slots : avail'.ring[s] = 0
  BY <1>3 DEF IInv, TypeOK
<1>5. TypeOK'
  BY <1>2, <1>3, <1>4 DEF IInv, TypeOK
<1>6. HartInv(h)'
  BY <1>2, <1>3, <1>4 DEF HartInv, Quiet, Chain
<1> QED
  BY <1>2, <1>3, <1>4, <1>5, <1>6 DEF IInv

LEMMA MoveIndexStep ==
  ASSUME IInv, NEW h \in Harts, MoveIndex(h)
  PROVE  IInv'
<1>1. Advance(h, "idx")
  BY DEF MoveIndex
<1>2. /\ pc[h] = "idx" /\ pc'[h] = "notify" /\ lock = h /\ lock' = h /\ lock' # NoHart
      /\ HartInv(h)
      /\ UNCHANGED <<boot, regs, ret, lastUsed, header, data, seen, head, stage, usedIdx, disk>>
      /\ pc' \in [Harts -> {"idle", "lock", "desc", "ring", "idx", "notify", "spin", "collect"}]
      /\ \A g \in Harts \ {h} : status'[g] = status[g] => HartInv(g)'
  BY <1>1, AdvanceFacts DEF After
<1>3. /\ UNCHANGED <<status, desc, notified>>
      /\ avail' = [avail EXCEPT !.idx = Succ(avail.idx)]
  BY DEF MoveIndex
<1>4. avail \in [idx : Idx, ring : [Slots -> 0..2]] /\ avail.idx = lastUsed
  BY <1>2 DEF IInv, TypeOK, HartInv, Quiet
<1>5. /\ avail' \in [idx : Idx, ring : [Slots -> 0..2]]
      /\ avail'.idx = Succ(lastUsed) /\ avail'.ring = avail.ring
  BY <1>3, <1>4, IndexFacts
<1>6. TypeOK'
  BY <1>2, <1>3, <1>5 DEF IInv, TypeOK
<1>7. Offered(h)'
  BY <1>2, <1>3, <1>5 DEF HartInv, Quiet, Offered, Succ
<1>8. HartInv(h)'
  BY <1>2, <1>3, <1>7 DEF HartInv, Chain
<1> QED
  BY <1>2, <1>3, <1>5, <1>6, <1>8 DEF IInv

LEMMA NotifyStep ==
  ASSUME IInv, NEW h \in Harts, Notify(h)
  PROVE  IInv'
<1>1. Advance(h, "notify")
  BY DEF Notify
<1>2. /\ pc[h] = "notify" /\ pc'[h] = "spin" /\ lock = h /\ lock' = h /\ lock' # NoHart
      /\ HartInv(h)
      /\ UNCHANGED <<boot, regs, ret, lastUsed, header, data, seen, head, stage, usedIdx, disk>>
      /\ pc' \in [Harts -> {"idle", "lock", "desc", "ring", "idx", "notify", "spin", "collect"}]
      /\ \A g \in Harts \ {h} : status'[g] = status[g] => HartInv(g)'
  BY <1>1, AdvanceFacts DEF After
<1>3. UNCHANGED <<status, desc, avail>>
  BY DEF Notify
<1>4. notified' \in BOOLEAN
  BY DEF Notify
<1>5. TypeOK'
  BY <1>2, <1>3, <1>4 DEF IInv, TypeOK
<1>6. HartInv(h)'
  BY <1>2, <1>3 DEF HartInv, Offered, Taken, Served, Chain, Succ
<1> QED
  BY <1>2, <1>3, <1>5, <1>6 DEF IInv

(* The used index has moved, so the request is served.                     *)
LEMMA SpinStep ==
  ASSUME IInv, NEW h \in Harts, Spin(h)
  PROVE  IInv' /\ Served(h)
<1> USE DEF buffers, device
<1>1. HartInv(h) /\ pc[h] = "spin" /\ lock = h /\ usedIdx # lastUsed
  BY DEF IInv, HartInv, Spin, UsedMoved
<1>2. Served(h)
  BY <1>1 DEF HartInv, Offered, Taken
<1>3. /\ pc' = [pc EXCEPT ![h] = "collect"]
      /\ UNCHANGED <<boot, regs, lock, ret, lastUsed, header, data, status, desc, avail, notified>>
      /\ UNCHANGED <<seen, head, stage, usedIdx, disk>>
  BY DEF Spin
<1>4. TypeOK'
  BY <1>3 DEF IInv, TypeOK
<1>5. pc'[h] = "collect" /\ \A g \in Harts \ {h} : pc'[g] = pc[g]
  BY <1>3 DEF IInv, TypeOK
<1>6. HartInv(h)'
  BY <1>1, <1>2, <1>3, <1>5 DEF HartInv, Served, Succ
<1>7. ASSUME NEW g \in Harts \ {h} PROVE HartInv(g)'
  BY <1>1, <1>3, <1>5, OutsideKept
<1>8. lock' # NoHart
  BY <1>1, <1>3, Markers
<1> QED
  BY <1>2, <1>3, <1>4, <1>6, <1>7, <1>8 DEF IInv

LEMMA CollectStep ==
  ASSUME IInv, NEW h \in Harts, Collect(h)
  PROVE  IInv'
<1> USE DEF device
<1>1. HartInv(h) /\ pc[h] = "collect" /\ lock = h /\ Served(h)
  BY DEF IInv, HartInv, Collect
<1>2. NoHeader \in [ty : {"In", "Out"}, sector : Sectors]
  BY BlkAssumption DEF NoHeader
<1>3. TypeOK'
  BY <1>2 DEF IInv, TypeOK, Collect
<1>4. Quiet'
  BY <1>1 DEF Collect, Served, Quiet
<1>5. /\ pc'[h] = "idle" /\ data'[h] = NoData /\ status'[h] = "freed" /\ lock' = NoHart
      /\ UNCHANGED <<avail, head>>
      /\ \A g \in Harts \ {h} : pc'[g] = pc[g] /\ data'[g] = data[g] /\ status'[g] = status[g]
  BY SMTT(30) DEF IInv, TypeOK, Collect
<1>6. HartInv(h)'
  BY <1>5, Markers DEF HartInv
<1>7. ASSUME NEW g \in Harts \ {h} PROVE HartInv(g)'
  BY <1>1, <1>5, Markers, OutsideKept
<1> QED
  BY <1>3, <1>4, <1>5, <1>6, <1>7 DEF IInv

-----------------------------------------------------------------------------
(* The device works only on an offered request: that of the hart that has  *)
(* DRIVER, whose descriptors are the chain.                                *)
LEMMA DeviceFacts ==
  ASSUME IInv, stage # "rest" \/ avail.idx # seen
  PROVE  /\ lock \in Harts /\ HartInv(lock) /\ pc[lock] \in {"notify", "spin"}
         /\ Chain(lock)
         /\ First = desc[0] /\ Second = desc[1] /\ Third = desc[2]
         /\ data[lock] \in Data
         /\ stage = "rest" => Offered(lock)
         /\ stage # "rest" => Taken(lock)
<1>1. lock \in Harts /\ HartInv(lock)
  BY DEF IInv, TypeOK, Quiet
<1>2. pc[lock] \in {"idle", "lock", "desc", "ring", "idx", "notify", "spin", "collect"}
  BY <1>1 DEF IInv, TypeOK
<1>3. pc[lock] \in {"notify", "spin"}
  BY <1>1, <1>2 DEF HartInv, Quiet, Served
<1>4. Chain(lock) /\ (Offered(lock) \/ Taken(lock) \/ Served(lock))
  BY <1>1, <1>3 DEF HartInv
<1>5. First = desc[0] /\ Second = desc[1] /\ Third = desc[2]
  BY <1>4 DEF IInv, Chain, First, Second, Third
<1>6. data[lock] \in Data
  BY <1>1, <1>3, SMTT(30) DEF IInv, TypeOK, HartInv
<1>7. (stage = "rest" => Offered(lock)) /\ (stage # "rest" => Taken(lock))
  BY <1>4 DEF Offered, Taken, Served
<1> QED
  BY <1>1, <1>3, <1>4, <1>5, <1>6, <1>7

(* A step of the device that leaves the driver and the queue alone keeps   *)
(* the invariant if it takes the request in work to its next phase.        *)
LEMMA DeviceKeeps ==
  ASSUME IInv, TypeOK', lock \in Harts, pc[lock] \in {"notify", "spin"},
         UNCHANGED <<lock, pc, lastUsed, header, desc, avail, head>>,
         data[lock] # NoData, data'[lock] # NoData,
         \A g \in Harts \ {lock} : data'[g] = data[g] /\ status'[g] = status[g],
         Taken(lock)' \/ Served(lock)'
  PROVE  IInv'
<1>1. HartInv(lock)
  BY DEF IInv
<1>2. HartInv(lock)'
  BY <1>1 DEF HartInv, Chain
<1>3. ASSUME NEW g \in Harts \ {lock} PROVE HartInv(g)'
  BY <1>3, OutsideKept
<1> QED
  BY <1>2, <1>3, Markers DEF IInv

LEMMA FetchStep ==
  ASSUME IInv, Fetch
  PROVE  IInv'
<1> USE DEF driver, buffers
<1>1. /\ lock \in Harts /\ pc[lock] \in {"notify", "spin"} /\ data[lock] \in Data
      /\ Offered(lock)
  BY DeviceFacts DEF Fetch, MayLook
<1>2. seen \in Idx /\ seen % QUEUE_SIZE \in Slots /\ (seen + 1) % IdxSpan = Succ(seen)
      /\ Succ(seen) \in Idx
  <2>1. seen \in Idx
    BY DEF IInv, TypeOK
  <2> QED
    BY <2>1, IndexFacts
<1>3. head' = 0 /\ head = 0
  <2>1. head = 0 /\ avail.ring[seen % QUEUE_SIZE] = 0
    BY <1>2 DEF IInv
  <2> QED
    BY <2>1 DEF Fetch
<1>4. TypeOK'
  BY <1>2, <1>3, SMTT(30) DEF IInv, TypeOK, Fetch
<1>5. Taken(lock)'
  BY <1>1, <1>2 DEF Fetch, Offered, Taken, Succ
<1>6. UNCHANGED <<lock, pc, lastUsed, header, data, status, desc, avail>>
  BY DEF Fetch
<1> QED
  BY <1>1, <1>3, <1>4, <1>5, <1>6, Markers, DeviceKeeps

LEMMA RestStep ==
  ASSUME IInv, Rest
  PROVE  IInv'
<1> USE DEF driver, buffers, device
<1>1. notified' \in BOOLEAN
  BY DEF Rest
<1>2. /\ UNCHANGED <<boot, regs, lock, pc, ret, lastUsed, header, data, status, desc, avail>>
      /\ UNCHANGED <<seen, head, stage, usedIdx, disk>>
  BY DEF Rest
<1>3. TypeOK'
  BY <1>1, <1>2 DEF IInv, TypeOK
<1> QED
  BY <1>2, <1>3, AllKept

(* What a transfer, successful or not, does to the request in work.        *)
LEMMA TransferFacts ==
  ASSUME IInv, TransferOk \/ TransferErr
  PROVE  /\ lock \in Harts /\ pc[lock] \in {"notify", "spin"} /\ stage = "fetched"
         /\ status[lock] = "ff" /\ data[lock] \in Data
         /\ header[First.owner] = header[lock] /\ Second.owner = lock
         /\ header[lock] \in [ty : {"In", "Out"}, sector : Sectors]
         /\ data' \in [Harts -> Data \cup {NoData}] /\ data'[lock] \in Data
         /\ \A g \in Harts \ {lock} : data'[g] = data[g]
         /\ disk' \in [Sectors -> Data]
         /\ stage' \in {"Ok", "IoErr"}
         /\ UNCHANGED <<boot, regs, lock, pc, ret, lastUsed, header, status, desc, avail, notified>>
         /\ UNCHANGED <<usedIdx, seen, head>>
<1> USE DEF driver
<1>1. stage = "fetched"
  BY DEF TransferOk, TransferErr
<1>2. /\ lock \in Harts /\ pc[lock] \in {"notify", "spin"} /\ data[lock] \in Data
      /\ First.owner = lock /\ Second.owner = lock /\ Taken(lock)
  BY <1>1, DeviceFacts DEF Chain
<1>3. status[lock] = "ff"
  BY <1>1, <1>2 DEF Taken
<1>4. /\ header[lock] \in [ty : {"In", "Out"}, sector : Sectors]
      /\ data \in [Harts -> Data \cup {NoData}] /\ disk \in [Sectors -> Data]
  BY <1>2 DEF IInv, TypeOK
<1>5. /\ data' \in [Harts -> Data \cup {NoData}] /\ data'[lock] \in Data
      /\ \A g \in Harts \ {lock} : data'[g] = data[g]
      /\ disk' \in [Sectors -> Data]
      /\ stage' \in {"Ok", "IoErr"}
  <2>1. CASE TransferOk
    BY <1>2, <1>4, <2>1 DEF TransferOk
  <2>2. CASE TransferErr
    BY <1>2, <1>4, <2>2 DEF TransferErr
  <2> QED
    BY <2>1, <2>2
<1>6. /\ UNCHANGED <<boot, regs, lock, pc, ret, lastUsed, header, status, desc, avail, notified>>
      /\ UNCHANGED <<usedIdx, seen, head>>
  BY DEF TransferOk, TransferErr
<1> QED
  BY <1>1, <1>2, <1>3, <1>4, <1>5, <1>6

LEMMA TransferStep ==
  ASSUME IInv, TransferOk \/ TransferErr
  PROVE  IInv'
<1>1. TypeOK'
  <2>1. TypeOK
    BY DEF IInv
  <2> QED
    BY <2>1, TransferFacts, SMTT(30) DEF TypeOK
<1>2. Taken(lock)
  <2>1. stage # "rest"
    BY DEF TransferOk, TransferErr
  <2> QED
    BY <2>1, DeviceFacts
<1>3. Taken(lock)'
  BY <1>2, TransferFacts DEF Taken, Succ
<1>4. data[lock] # NoData /\ data'[lock] # NoData
  BY TransferFacts, Markers
<1> QED
  BY <1>1, <1>3, <1>4, TransferFacts, DeviceKeeps

LEMMA WriteStatusStep ==
  ASSUME IInv, WriteStatus
  PROVE  /\ IInv'
         /\ lock \in Harts /\ status[lock] = "ff" /\ status'[lock] = stage
         /\ \A g \in Harts \ {lock} : status'[g] = status[g]
<1> USE DEF driver
<1>1. stage \in {"Ok", "IoErr"}
  BY DEF WriteStatus
<1>2. /\ lock \in Harts /\ pc[lock] \in {"notify", "spin"} /\ data[lock] \in Data
      /\ Third.owner = lock /\ Taken(lock)
  BY <1>1, DeviceFacts DEF Chain
<1>3. /\ status[lock] = "ff" /\ status'[lock] = stage
      /\ \A g \in Harts \ {lock} : status'[g] = status[g]
  BY <1>1, <1>2, SMTT(30) DEF IInv, TypeOK, WriteStatus, Taken
<1>4. TypeOK'
  BY <1>1, <1>2 DEF IInv, TypeOK, WriteStatus
<1>5. Taken(lock)'
  BY <1>1, <1>2, <1>3 DEF WriteStatus, Taken, Succ
<1>6. IInv'
  BY <1>2, <1>3, <1>4, <1>5, Markers, DeviceKeeps DEF WriteStatus
<1> QED
  BY <1>2, <1>3, <1>6

LEMMA PutUsedStep ==
  ASSUME IInv, PutUsed
  PROVE  IInv'
<1> USE DEF driver, buffers
<1>1. /\ lock \in Harts /\ pc[lock] \in {"notify", "spin"} /\ data[lock] \in Data
      /\ Taken(lock)
  BY DeviceFacts DEF PutUsed
<1>2. usedIdx \in Idx /\ (usedIdx + 1) % IdxSpan = Succ(usedIdx) /\ Succ(usedIdx) \in Idx
  <2>1. usedIdx \in Idx
    BY DEF IInv, TypeOK
  <2> QED
    BY <2>1, IndexFacts
<1>3. TypeOK'
  BY <1>2 DEF IInv, TypeOK, PutUsed
<1>4. Served(lock)'
  BY <1>1, <1>2 DEF PutUsed, Taken, Served, Succ
<1> QED
  BY <1>1, <1>3, <1>4, Markers, DeviceKeeps DEF PutUsed

-----------------------------------------------------------------------------
LEMMA NextIInv == IInv /\ [Next]_vars => IInv'
<1> SUFFICES ASSUME IInv, [Next]_vars PROVE IInv'
  OBVIOUS
<1>1. CASE Negotiate \/ ConfigureQueue
  BY <1>1, BootStep
<1>2. ASSUME NEW h \in Harts, NEW ty \in {"In", "Out"}, NEW s \in Sectors, NEW v \in Data,
             Call(h, ty, s, v)
      PROVE  IInv'
  BY <1>2, CallStep
<1>3. ASSUME NEW h \in Harts, Lock(h) PROVE IInv'
  BY <1>3, LockStep
<1>4. ASSUME NEW h \in Harts, Operate(h) PROVE IInv'
  BY <1>4, WriteDescriptorsStep, PutInRingStep, MoveIndexStep, NotifyStep, SpinStep, CollectStep
     DEF Operate
<1>5. CASE Fetch \/ Rest
  BY <1>5, FetchStep, RestStep
<1>6. CASE Serve
  BY <1>6, TransferStep, WriteStatusStep, PutUsedStep DEF Serve
<1>7. CASE UNCHANGED vars
  <2>1. /\ UNCHANGED <<boot, regs, lock, pc, ret, lastUsed, header, data, status, desc, avail>>
        /\ UNCHANGED <<notified, seen, head, stage, usedIdx, disk>>
    BY <1>7 DEF vars, driver, buffers, device
  <2>2. TypeOK'
    BY <2>1 DEF IInv, TypeOK
  <2> QED
    BY <2>1, <2>2, AllKept
<1> QED
  BY <1>1, <1>2, <1>3, <1>4, <1>5, <1>6, <1>7 DEF Next

(* IInv holds in every reachable state.                                    *)
THEOREM Inductive == Spec => []IInv
BY InitIInv, NextIInv, PTL DEF Spec

(* Type correctness: no index leaves its range, however long the driver    *)
(* runs.                                                                   *)
THEOREM BlkTypeCorrect == Spec => []TypeOK
<1>1. IInv => TypeOK
  BY DEF IInv
<1> QED
  BY <1>1, Inductive, PTL

(* read and write of block.rs do not free or give back what the device     *)
(* still works on, for any number of harts.                                *)
THEOREM BuffersStayLive == Spec => []DeviceUsesLiveBuffers
<1>1. IInv => DeviceUsesLiveBuffers
  <2> SUFFICES ASSUME IInv, stage # "rest" PROVE DeviceUsesLiveBuffers
    BY DEF DeviceUsesLiveBuffers
  <2> QED
    BY DeviceFacts, Markers DEF DeviceUsesLiveBuffers, Chain, Taken
<1> QED
  BY <1>1, Inductive, PTL

-----------------------------------------------------------------------------
(* VirtioBlk implements SectorDisk.  The moment of a transfer is the step  *)
(* in which the device performs it: TransferOk is Succeed, TransferErr is  *)
(* Fail.  Call is Ask, Collect is Return, and the other steps change       *)
(* nothing that SectorDisk shows.                                          *)

(* A step that changes neither a hart's request nor its outcome changes    *)
(* nothing of it in SectorDisk.                                            *)
LEMMA SameRequest ==
  ASSUME NEW g \in Harts, pc'[g] = "idle" <=> pc[g] = "idle",
         header'[g] = header[g], data'[g] = data[g], Outcome(g)' = Outcome(g)
  PROVE  Requests'[g] = Requests[g]
BY DEF Requests

(* A request that somebody has made is not Idle.                           *)
LEMMA RequestShape ==
  ASSUME IInv, NEW h \in Harts, pc[h] # "idle"
  PROVE  /\ Requests[h] = [kind |-> header[h].ty, sector |-> header[h].sector, val |-> data[h],
                           state |-> Outcome(h)]
         /\ Requests[h] # Idle
<1>1. /\ header[h] \in [ty : {"In", "Out"}, sector : Sectors] /\ data[h] \in Data
  BY SMTT(30) DEF IInv, TypeOK, HartInv
<1>2. Outcome(h) \in {"asked", "ok", "err"}
  BY DEF Outcome
<1>3. Requests[h] = [kind |-> header[h].ty, sector |-> header[h].sector, val |-> data[h],
                     state |-> Outcome(h)]
  BY DEF Requests
<1>4. Requests[h] \in [kind : {"In", "Out"}, sector : Sectors, val : Data,
                      state : {"asked", "ok", "err"}]
  BY <1>1, <1>2, <1>3, SMTT(30)
<1> QED
  BY <1>3, <1>4, BlkAssumption

(* Nothing has become of a request before the device has worked on it.     *)
LEMMA OutcomeOutside ==
  ASSUME IInv, NEW h \in Harts, pc[h] \in {"idle", "lock", "desc", "ring", "idx"}
  PROVE  Outcome(h) = "asked"
<1>1. HartInv(h)
  BY DEF IInv
<1>2. status[h] \in {"freed", "ff"} /\ (lock = h => stage = "rest")
  BY <1>1 DEF HartInv, Quiet
<1> QED
  BY <1>2 DEF Outcome

LEMMA CallRefines ==
  ASSUME IInv, IInv', NEW h \in Harts, NEW ty \in {"In", "Out"}, NEW s \in Sectors, NEW v \in Data,
         Call(h, ty, s, v)
  PROVE  Abstract!Ask(h)
<1> USE DEF device
<1>1. pc[h] = "idle" /\ pc'[h] = "lock" /\ data'[h] = v /\ header'[h] = [ty |-> ty, sector |-> s]
  BY SMTT(30) DEF IInv, TypeOK, Call
<1>2. Outcome(h)' = "asked"
  <2>1. Outcome(h) = "asked" /\ UNCHANGED <<status, lock, stage>>
    BY <1>1, OutcomeOutside DEF Call
  <2> QED
    BY <2>1 DEF Outcome
<1>3. Requests'[h] = [kind |-> ty, sector |-> s, val |-> v, state |-> "asked"] /\ Requests[h] = Idle
  BY <1>1, <1>2, SMTT(30) DEF Requests
<1>4. ASSUME NEW g \in Harts \ {h} PROVE Requests'[g] = Requests[g]
  <2>1. pc'[g] = pc[g] /\ header'[g] = header[g] /\ data'[g] = data[g]
    BY SMTT(30) DEF IInv, TypeOK, Call
  <2>2. Outcome(g)' = Outcome(g)
    BY DEF Call, Outcome
  <2> QED
    BY <2>1, <2>2, SameRequest
<1>5. Requests' = [Requests EXCEPT ![h] = [kind |-> ty, sector |-> s, val |-> v, state |-> "asked"]]
  BY <1>3, <1>4 DEF Requests
<1> QED
  BY <1>3, <1>5 DEF Call, Abstract!Ask

(* What a transfer does to the requests.                                   *)
LEMMA TransferRequests ==
  ASSUME IInv, TransferOk \/ TransferErr,
         NEW o \in {"ok", "err"}, stage' = (IF o = "ok" THEN "Ok" ELSE "IoErr")
  PROVE  /\ Requests[lock] = [kind |-> header[lock].ty, sector |-> header[lock].sector,
                              val |-> data[lock], state |-> "asked"]
         /\ Requests[lock] # Idle
         /\ Requests' = [Requests EXCEPT ![lock] = [kind |-> header[lock].ty,
                            sector |-> header[lock].sector, val |-> data'[lock], state |-> o]]
<1>1. pc[lock] # "idle" /\ pc'[lock] # "idle" /\ Outcome(lock) = "asked" /\ Outcome(lock)' = o
  BY TransferFacts DEF Outcome
<1>2. /\ Requests[lock] = [kind |-> header[lock].ty, sector |-> header[lock].sector,
                           val |-> data[lock], state |-> "asked"]
      /\ Requests[lock] # Idle
  BY <1>1, TransferFacts, RequestShape
<1>3. Requests'[lock] = [kind |-> header[lock].ty, sector |-> header[lock].sector,
                         val |-> data'[lock], state |-> o]
  BY <1>1, TransferFacts DEF Requests
<1>4. ASSUME NEW g \in Harts \ {lock} PROVE Requests'[g] = Requests[g]
  <2>1. /\ pc'[g] = pc[g] /\ header'[g] = header[g] /\ data'[g] = data[g]
        /\ status'[g] = status[g] /\ lock # g /\ lock' # g
    BY TransferFacts
  <2>2. Outcome(g)' = Outcome(g)
    BY <2>1 DEF Outcome
  <2> QED
    BY <2>1, <2>2, SameRequest
<1> QED
  BY <1>2, <1>3, <1>4, TransferFacts DEF Requests

LEMMA TransferOkRefines ==
  ASSUME IInv, TransferOk
  PROVE  Abstract!Succeed(lock)
<1> DEFINE rq == header[lock]
<1>1. stage' = "Ok"
  BY DEF TransferOk
<1>2. /\ Requests[lock] = [kind |-> rq.ty, sector |-> rq.sector, val |-> data[lock],
                           state |-> "asked"]
      /\ Requests[lock] # Idle
      /\ Requests' = [Requests EXCEPT ![lock] = [kind |-> rq.ty, sector |-> rq.sector,
                         val |-> data'[lock], state |-> "ok"]]
  BY <1>1, TransferRequests
<1>3. UNCHANGED ret /\ lock \in Harts /\ data \in [Harts -> Data \cup {NoData}]
  BY TransferFacts DEF IInv, TypeOK
<1>4. /\ Requests[lock] # Idle /\ Requests[lock].state = "asked"
      /\ Requests[lock].kind = rq.ty /\ Requests[lock].sector = rq.sector
      /\ Requests[lock].val = data[lock]
  BY <1>2, SMTT(30)
<1>5. CASE rq.ty = "In"
  <2>1. data'[lock] = disk[rq.sector] /\ UNCHANGED disk
    BY <1>3, <1>5, TransferFacts DEF TransferOk
  <2>2. Requests' = [Requests EXCEPT ![lock].state = "ok", ![lock].val = disk[rq.sector]]
    <3>1. [Requests[lock] EXCEPT !.state = "ok", !.val = disk[rq.sector]]
            = [kind |-> rq.ty, sector |-> rq.sector, val |-> disk[rq.sector], state |-> "ok"]
      <4>1. PICK r, k, s, v, w : /\ r = Requests[lock] /\ k = rq.ty /\ s = rq.sector
                                 /\ v = data[lock] /\ w = disk[rq.sector]
        OBVIOUS
      <4>2. r = [kind |-> k, sector |-> s, val |-> v, state |-> "asked"]
        BY <1>2, <4>1
      <4>3. PICK q : q = [r EXCEPT !.state = "ok"]
        OBVIOUS
      <4>4. q = [kind |-> k, sector |-> s, val |-> v, state |-> "ok"]
        BY <4>2, <4>3, SMTT(30)
      <4>5. [q EXCEPT !.val = w] = [kind |-> k, sector |-> s, val |-> w, state |-> "ok"]
        BY <4>4, SMTT(30)
      <4> QED
        BY <4>1, <4>3, <4>5
    <3>2. Requests' = [Requests EXCEPT ![lock] =
                         [Requests[lock] EXCEPT !.state = "ok", !.val = disk[rq.sector]]]
      BY <1>2, <2>1, <3>1
    <3>3. DOMAIN Requests = Harts
      BY DEF Requests
    <3> QED
      BY <1>3, <3>2, <3>3
  <2> QED
    BY <1>3, <1>5, <1>4, <2>1, <2>2 DEF Abstract!Succeed
<1>6. CASE rq.ty # "In"
  <2>1. disk' = [disk EXCEPT ![rq.sector] = data[lock]] /\ UNCHANGED data
    BY <1>6, TransferFacts DEF TransferOk
  <2>2. Requests' = [Requests EXCEPT ![lock].state = "ok"]
    BY <1>2, <1>3, <2>1 DEF Requests
  <2> QED
    BY <1>3, <1>6, <1>4, <2>1, <2>2 DEF Abstract!Succeed
<1> QED
  BY <1>5, <1>6

LEMMA TransferErrRefines ==
  ASSUME IInv, TransferErr
  PROVE  Abstract!Fail(lock)
<1> DEFINE rq == header[lock]
<1>1. stage' = "IoErr"
  BY DEF TransferErr
<1>2. /\ Requests[lock] = [kind |-> rq.ty, sector |-> rq.sector, val |-> data[lock],
                           state |-> "asked"]
      /\ Requests[lock] # Idle
      /\ Requests' = [Requests EXCEPT ![lock] = [kind |-> rq.ty, sector |-> rq.sector,
                         val |-> data'[lock], state |-> "err"]]
  BY <1>1, TransferRequests
<1>3. UNCHANGED ret /\ lock \in Harts /\ data'[lock] \in Data
  BY TransferFacts
<1>4. /\ Requests[lock] # Idle /\ Requests[lock].state = "asked"
      /\ Requests[lock].kind = rq.ty /\ Requests[lock].sector = rq.sector
      /\ Requests[lock].val = data[lock]
  BY <1>2, SMTT(30)
<1>5. CASE rq.ty = "In"
  <2>1. UNCHANGED disk
    BY <1>5, TransferFacts DEF TransferErr
  <2>2. Requests' = [Requests EXCEPT ![lock].state = "err", ![lock].val = data'[lock]]
    BY <1>2, <1>3 DEF Requests
  <2> QED
    BY <1>3, <1>5, <1>4, <2>1, <2>2 DEF Abstract!Fail
<1>6. CASE rq.ty # "In"
  <2>1. disk' \in {disk, [disk EXCEPT ![rq.sector] = data[lock]]} /\ UNCHANGED data
    BY <1>6, TransferFacts DEF TransferErr
  <2>2. Requests' = [Requests EXCEPT ![lock].state = "err"]
    BY <1>2, <1>3, <2>1 DEF Requests
  <2> QED
    BY <1>3, <1>6, <1>4, <2>1, <2>2 DEF Abstract!Fail
<1> QED
  BY <1>5, <1>6

LEMMA CollectRefines ==
  ASSUME IInv, NEW h \in Harts, Collect(h)
  PROVE  Abstract!Return(h)
<1> USE DEF device
<1>1. pc[h] = "collect" /\ lock = h /\ stage = "rest" /\ status[h] \in {"Ok", "IoErr"}
  BY DEF IInv, HartInv, Collect, Served
<1>2. Outcome(h) = IF status[h] = "Ok" THEN "ok" ELSE "err"
  BY <1>1 DEF Outcome
<1>3. Requests[h] # Idle /\ Requests[h].state = Outcome(h)
  <2>1. pc[h] # "idle"
    BY <1>1
  <2>2. /\ Requests[h] = [kind |-> header[h].ty, sector |-> header[h].sector, val |-> data[h],
                          state |-> Outcome(h)]
        /\ Requests[h] # Idle
    BY <2>1, RequestShape
  <2> QED
    BY <2>2, SMTT(30)
<1>4. Requests'[h] = Idle
  BY DEF IInv, TypeOK, Collect, Requests
<1>5. ASSUME NEW g \in Harts \ {h} PROVE Requests'[g] = Requests[g]
  <2>1. /\ pc'[g] = pc[g] /\ header'[g] = header[g] /\ data'[g] = data[g]
        /\ status'[g] = status[g] /\ lock # g /\ lock' # g
    BY <1>1, Markers, SMTT(30) DEF IInv, TypeOK, Collect
  <2>2. Outcome(g)' = Outcome(g)
    BY <2>1 DEF Outcome
  <2> QED
    BY <2>1, <2>2, SameRequest
<1>6. Requests' = [Requests EXCEPT ![h] = Idle]
  BY <1>4, <1>5 DEF Requests
<1>7. ret' = [ret EXCEPT ![h] = Requests[h].state] /\ UNCHANGED disk
  BY <1>2, <1>3 DEF Collect
<1>8. Requests[h].state # "asked"
  BY <1>2, <1>3
<1> QED
  BY <1>3, <1>6, <1>7, <1>8 DEF Abstract!Return

(* The other steps are invisible in SectorDisk.                            *)
LEMMA Invisible ==
  ASSUME UNCHANGED <<header, data, ret, disk>>,
         \A g \in Harts : (pc'[g] = "idle" <=> pc[g] = "idle") /\ Outcome(g)' = Outcome(g)
  PROVE  UNCHANGED Abstract!diskVars
<1>1. \A g \in Harts : Requests'[g] = Requests[g]
  BY SameRequest
<1>2. Requests' = Requests
  BY <1>1 DEF Requests
<1> QED
  BY <1>2 DEF Abstract!diskVars

LEMMA DriverInvisible ==
  ASSUME IInv, IInv', NEW h \in Harts,
         \/ Lock(h) \/ WriteDescriptors(h) \/ PutInRing(h) \/ MoveIndex(h) \/ Notify(h) \/ Spin(h)
  PROVE  UNCHANGED Abstract!diskVars
<1> USE DEF device, buffers, Advance
<1>1. UNCHANGED <<header, data, ret, disk, stage>>
  BY DEF Lock, WriteDescriptors, PutInRing, MoveIndex, Notify, Spin
<1>2. \A g \in Harts : pc'[g] = "idle" <=> pc[g] = "idle"
  BY SMTT(30) DEF IInv, TypeOK, Lock, WriteDescriptors, PutInRing, MoveIndex, Notify, Spin, After
<1>3. ASSUME NEW g \in Harts PROVE Outcome(g)' = Outcome(g)
  <2>1. CASE Lock(h)
    <3>1. lock = NoHart /\ lock' = h /\ UNCHANGED status
      BY <2>1 DEF Lock, DriverIsFree
    <3>2. stage = "rest"
      BY <3>1 DEF IInv, Quiet
    <3> QED
      BY <1>1, <3>1, <3>2 DEF Outcome
  <2>2. CASE WriteDescriptors(h)
    <3>1. /\ pc[h] = "desc" /\ status'[h] = "ff" /\ UNCHANGED lock
          /\ \A f \in Harts \ {h} : status'[f] = status[f]
      BY <2>2, SMTT(30) DEF IInv, TypeOK, WriteDescriptors
    <3>2. status[h] = "freed"
      BY <3>1 DEF IInv, HartInv
    <3> QED
      BY <1>1, <3>1, <3>2 DEF Outcome
  <2>3. CASE PutInRing(h) \/ MoveIndex(h) \/ Notify(h) \/ Spin(h)
    <3>1. UNCHANGED <<status, lock>>
      BY <2>3 DEF PutInRing, MoveIndex, Notify, Spin
    <3> QED
      BY <1>1, <3>1 DEF Outcome
  <2> QED
    BY <2>1, <2>2, <2>3
<1> QED
  BY <1>1, <1>2, <1>3, Invisible

LEMMA DeviceInvisible ==
  ASSUME IInv, Negotiate \/ ConfigureQueue \/ Fetch \/ Rest \/ WriteStatus \/ PutUsed
  PROVE  UNCHANGED Abstract!diskVars
<1> USE DEF driver, device, buffers
<1>1. UNCHANGED <<header, data, ret, disk, lock, pc>>
  BY DEF Negotiate, ConfigureQueue, Fetch, Rest, WriteStatus, PutUsed
<1>2. ASSUME NEW g \in Harts PROVE Outcome(g)' = Outcome(g)
  <2>1. CASE Negotiate \/ ConfigureQueue \/ Fetch \/ Rest \/ PutUsed
    <3>1. \/ UNCHANGED status /\ stage \notin {"Ok", "IoErr"} /\ stage' \notin {"Ok", "IoErr"}
          \/ UNCHANGED <<status, stage>>
      BY <2>1 DEF Negotiate, ConfigureQueue, Fetch, MayLook, Rest, PutUsed
    <3> QED
      BY <1>1, <3>1 DEF Outcome
  <2>2. CASE WriteStatus
    <3>1. stage \in {"Ok", "IoErr"} /\ stage' = "written"
      BY <2>2 DEF WriteStatus
    <3>2. /\ lock \in Harts /\ status[lock] = "ff" /\ status'[lock] = stage
          /\ \A f \in Harts \ {lock} : status'[f] = status[f]
      BY <2>2, WriteStatusStep
    <3>3. CASE g = lock
      BY <1>1, <3>1, <3>2, <3>3 DEF Outcome
    <3>4. CASE g # lock
      BY <1>1, <3>1, <3>2, <3>4 DEF Outcome
    <3> QED
      BY <3>3, <3>4
  <2> QED
    BY <2>1, <2>2
<1> QED
  BY <1>1, <1>2, Invisible

(* read_sector and write_sector transfer a sector at one moment between    *)
(* call and return, and return what became of it: what Vsfs and VsfsFile   *)
(* assume of the disk.                                                     *)
THEOREM SectorDiskImplemented == Spec => ImplementsSectorDisk
<1>1. Init => Abstract!DiskInit
  BY DEF Init, Abstract!DiskInit, Requests
<1>2. IInv /\ IInv' /\ [Next]_vars => [Abstract!DiskNext]_Abstract!diskVars
  <2> SUFFICES ASSUME IInv, IInv', [Next]_vars
               PROVE  Abstract!DiskNext \/ UNCHANGED Abstract!diskVars
    OBVIOUS
  <2>1. ASSUME NEW h \in Harts, NEW ty \in {"In", "Out"}, NEW s \in Sectors, NEW v \in Data,
               Call(h, ty, s, v)
        PROVE  Abstract!DiskNext
    BY <2>1, CallRefines DEF Abstract!DiskNext
  <2>2. ASSUME NEW h \in Harts, Lock(h) \/ Operate(h)
        PROVE  Abstract!DiskNext \/ UNCHANGED Abstract!diskVars
    BY <2>2, DriverInvisible, CollectRefines DEF Operate, Abstract!DiskNext
  <2>3. CASE TransferOk
    BY <2>3, TransferOkRefines, TransferFacts DEF Abstract!DiskNext
  <2>4. CASE TransferErr
    BY <2>4, TransferErrRefines, TransferFacts DEF Abstract!DiskNext
  <2>5. CASE Negotiate \/ ConfigureQueue \/ Fetch \/ Rest \/ WriteStatus \/ PutUsed
    BY <2>5, DeviceInvisible
  <2>6. CASE UNCHANGED vars
    BY <2>6, Invisible DEF vars, driver, buffers, device, Outcome
  <2> QED
    BY <2>1, <2>2, <2>3, <2>4, <2>5, <2>6 DEF Next, Serve
<1> QED
  BY <1>1, <1>2, Inductive, PTL DEF Spec, ImplementsSectorDisk, Abstract!DiskSpec
=============================================================================
