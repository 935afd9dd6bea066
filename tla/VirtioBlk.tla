------------------------------ MODULE VirtioBlk -------------------------------
(***************************************************************************)
(* The VirtIO block driver (driver/virtio/block.rs) and its device, which  *)
(* share the descriptors, the two rings and the buffers of the request.    *)
(*                                                                         *)
(* A step of the driver ends at each of its stores that the device can     *)
(* see; the fences keep them in this order.  The device is external: it    *)
(* may look at the available ring at any time, and once it has been        *)
(* notified it does.                                                       *)
(*                                                                         *)
(* Assumed: the queue memory, which init allocates before anything else    *)
(* uses the heap and does not clear, reads as zero; and the write to       *)
(* QueueNotify does not overtake the store of the index before it.         *)
(***************************************************************************)
EXTENDS Integers

CONSTANTS
  Harts,
  Sectors, Data,   \* the disk
  QUEUE_SIZE,
  IdxSpan,         \* values of an index: 2^16 in the code
  Idle, NoHart, NoData

ASSUME BlkAssumption ==
  /\ QUEUE_SIZE \in Nat \ {0}
  /\ IdxSpan \in Nat \ {0, 1}
  /\ IdxSpan % QUEUE_SIZE = 0
  /\ NoHart \notin Harts
  /\ Sectors # {} /\ NoData \notin Data
  /\ Idle \notin [kind : {"In", "Out"}, sector : Sectors, val : Data, state : {"asked", "ok", "err"}]

Idx == 0..(IdxSpan - 1)
Slots == 0..(QUEUE_SIZE - 1)

VARIABLES
  boot,                     \* how far block::init has come
  regs,                     \* the device's registers: Status and QueueReady
  lock,                     \* holder of DRIVER
  pc,                       \* each hart's place in read or write
  header, data, status,     \* its request header, the lent buffer, the status box
  ret,                      \* what its last request returned
  desc, avail, usedIdx,     \* the virtqueue; nobody reads the used ring's entries
  lastUsed,                 \* last_used_idx
  notified,                 \* a write to QueueNotify that the device has not handled
  seen, head, stage,        \* the device: next entry, chain in work, how far it is
  disk

buffers == <<header, data, status>>
driver == <<boot, regs, lock, pc, ret, lastUsed>>
device == <<seen, head, stage, usedIdx, disk>>
vars == <<driver, buffers, desc, avail, notified, device>>

NoHeader == [ty |-> "In", sector |-> CHOOSE s \in Sectors : TRUE]

Init ==
  /\ boot = "reset"
  /\ regs = [status |-> {}, ready |-> FALSE]
  /\ lock = NoHart
  /\ pc = [h \in Harts |-> "idle"]
  /\ header = [h \in Harts |-> NoHeader]
  /\ data = [h \in Harts |-> NoData]
  /\ status = [h \in Harts |-> "freed"]
  /\ ret = [h \in Harts |-> "none"]
  /\ desc = [k \in 0..2 |-> [owner |-> NoHart, part |-> "none", write |-> FALSE, next |-> 0]]
  /\ avail = [idx |-> 0, ring |-> [s \in Slots |-> 0]]
  /\ usedIdx = 0 /\ lastUsed = 0
  /\ notified = FALSE
  /\ seen = 0 /\ head = 0 /\ stage = "rest"
  /\ disk \in [Sectors -> Data]

-----------------------------------------------------------------------------
(* mmio::init_device.  The device may drop FEATURES_OK or show an unknown  *)
(* status bit; kmain panics on the error.                                  *)
Negotiate ==
  /\ boot = "reset"
  /\ \/ /\ regs' = [regs EXCEPT !.status = {"ACK", "DRIVER", "FEATURES_OK", "DRIVER_OK"}]
        /\ boot' = "negotiated"
     \/ /\ \E shown \in {{"ACK", "DRIVER"}, {"ACK", "DRIVER", "FEATURES_OK", "unknown"}} :
             regs' = [regs EXCEPT !.status = shown]
        /\ boot' = "panic"
  /\ UNCHANGED <<lock, pc, ret, lastUsed, buffers, desc, avail, notified, device>>

(* The rest of block::init.  A queue that is in use or has no entries is   *)
(* an error; a maximum below QUEUE_SIZE is not.  QueueReady is written     *)
(* last, after the addresses of the three areas.                           *)
ConfigureQueue ==
  /\ boot = "negotiated"
  /\ \/ regs' = [regs EXCEPT !.ready = TRUE] /\ boot' = "up"
     \/ UNCHANGED regs /\ boot' = "panic"
  /\ UNCHANGED <<lock, pc, ret, lastUsed, buffers, desc, avail, notified, device>>

(* read_sector or write_sector is called, with a buffer, and waits for     *)
(* DRIVER.                                                                 *)
Call(h, ty, s, v) ==
  /\ boot = "up"
  /\ pc[h] = "idle"
  /\ pc' = [pc EXCEPT ![h] = "lock"]
  /\ header' = [header EXCEPT ![h] = [ty |-> ty, sector |-> s]]
  /\ data' = [data EXCEPT ![h] = v]
  /\ ret' = [ret EXCEPT ![h] = "none"]
  /\ UNCHANGED <<boot, regs, lock, lastUsed, status, desc, avail, notified, device>>

(* Mutant: DRIVER is not waited for.                                       *)
DriverIsFree_Always == TRUE

DriverIsFree == lock = NoHart

Lock(h) ==
  /\ pc[h] = "lock"
  /\ DriverIsFree
  /\ lock' = h
  /\ pc' = [pc EXCEPT ![h] = "desc"]
  /\ UNCHANGED <<boot, regs, ret, lastUsed, buffers, desc, avail, notified, device>>

(* The order of the stores that the device can see.  Mutants: the device   *)
(* is notified before the index moves; the index moves before the          *)
(* descriptors are written.                                                *)
After_NotifyFirst == [desc |-> "ring", ring |-> "notify", notify |-> "idx", idx |-> "spin"]

After == [desc |-> "ring", ring |-> "idx", idx |-> "notify", notify |-> "spin"]

Advance(h, place) ==
  /\ pc[h] = place
  /\ pc' = [pc EXCEPT ![h] = After[place]]
  /\ UNCHANGED <<boot, regs, lock, ret, lastUsed, header, data, device>>

(* read and write: the status box starts at 0xff, and header, buffer and   *)
(* status go into descriptors 0, 1 and 2.  The device may write the status *)
(* and the buffer of a read.                                               *)
WriteDescriptors(h) ==
  /\ Advance(h, "desc")
  /\ status' = [status EXCEPT ![h] = "ff"]
  /\ desc' = [k \in 0..2 |->
       [owner |-> h,
        part  |-> IF k = 0 THEN "header" ELSE IF k = 1 THEN "data" ELSE "status",
        write |-> k = 2 \/ (k = 1 /\ header[h].ty = "In"),
        next  |-> IF k < 2 THEN k + 1 ELSE 0]]
  /\ UNCHANGED <<avail, notified>>

(* operate: the chain at descriptor 0 goes into the slot of the index,     *)
PutInRing(h) ==
  /\ Advance(h, "ring")
  /\ avail' = [avail EXCEPT !.ring[avail.idx % QUEUE_SIZE] = 0]
  /\ UNCHANGED <<status, desc, notified>>

(* the index moves, wrapping around (mutant: it does not),                 *)
Succ_Unbounded(i) == i + 1

Succ(i) == (i + 1) % IdxSpan

MoveIndex(h) ==
  /\ Advance(h, "idx")
  /\ avail' = [avail EXCEPT !.idx = Succ(avail.idx)]
  /\ UNCHANGED <<status, desc, notified>>

(* and the device is notified.                                             *)
Notify(h) ==
  /\ Advance(h, "notify")
  /\ notified' = TRUE
  /\ UNCHANGED <<status, desc, avail>>

(* The loop ends when the used index is not the one seen last.  Mutant:    *)
(* it ends at once.                                                        *)
UsedMoved_Always == TRUE

UsedMoved == usedIdx # lastUsed

Spin(h) ==
  /\ pc[h] = "spin"
  /\ UsedMoved
  /\ pc' = [pc EXCEPT ![h] = "collect"]
  /\ UNCHANGED <<boot, regs, lock, ret, lastUsed, buffers, desc, avail, notified, device>>

(* The used index is read again, the status decides the result, the boxes  *)
(* and DRIVER are dropped, and the buffer goes back to the caller.         *)
Collect(h) ==
  /\ pc[h] = "collect"
  /\ lastUsed' = usedIdx
  /\ ret' = [ret EXCEPT ![h] = IF status[h] = "Ok" THEN "ok" ELSE "err"]
  /\ header' = [header EXCEPT ![h] = NoHeader]
  /\ data' = [data EXCEPT ![h] = NoData]
  /\ status' = [status EXCEPT ![h] = "freed"]
  /\ lock' = NoHart
  /\ pc' = [pc EXCEPT ![h] = "idle"]
  /\ UNCHANGED <<boot, regs, desc, avail, notified, device>>

-----------------------------------------------------------------------------
(* The device.  Once it is live it may look at the available ring at any   *)
(* time.  It takes the next entry,                                         *)
MayLook == "DRIVER_OK" \in regs.status /\ regs.ready /\ stage = "rest"

Fetch ==
  /\ MayLook
  /\ avail.idx # seen
  /\ head' = avail.ring[seen % QUEUE_SIZE]
  /\ seen' = (seen + 1) % IdxSpan
  /\ stage' = "fetched"
  /\ UNCHANGED <<driver, buffers, desc, avail, notified, usedIdx, disk>>

(* or finds none and waits for the next notification.                      *)
Rest ==
  /\ MayLook /\ notified
  /\ avail.idx = seen
  /\ notified' = FALSE
  /\ UNCHANGED <<driver, buffers, desc, avail, device>>

(* The three descriptors of the chain in work.                             *)
First == desc[head]
Second == desc[First.next]
Third == desc[Second.next]

(* It transfers the sector and succeeds,                                   *)
TransferOk ==
  LET rq  == header[First.owner]
      buf == Second.owner
  IN  /\ stage = "fetched"
      /\ stage' = "Ok"
      /\ IF rq.ty = "In"
         THEN Second.write /\ data' = [data EXCEPT ![buf] = disk[rq.sector]] /\ UNCHANGED disk
         ELSE disk' = [disk EXCEPT ![rq.sector] = data[buf]] /\ UNCHANGED data
      /\ UNCHANGED <<driver, header, status, desc, avail, notified, usedIdx, seen, head>>

(* or fails: a write may have landed, the buffer of a read may hold        *)
(* anything.                                                               *)
TransferErr ==
  LET rq  == header[First.owner]
      buf == Second.owner
  IN  /\ stage = "fetched"
      /\ stage' = "IoErr"
      /\ IF rq.ty = "In"
         THEN (\E junk \in Data : data' = [data EXCEPT ![buf] = junk]) /\ UNCHANGED disk
         ELSE disk' \in {disk, [disk EXCEPT ![rq.sector] = data[buf]]} /\ UNCHANGED data
      /\ UNCHANGED <<driver, header, status, desc, avail, notified, usedIdx, seen, head>>

(* It writes the status byte, and then the used index.                     *)
WriteStatus ==
  /\ stage \in {"Ok", "IoErr"}
  /\ status' = [status EXCEPT ![Third.owner] = stage]
  /\ stage' = "written"
  /\ UNCHANGED <<driver, header, data, desc, avail, notified, usedIdx, seen, head, disk>>

PutUsed ==
  /\ stage = "written"
  /\ usedIdx' = (usedIdx + 1) % IdxSpan
  /\ stage' = "rest"
  /\ UNCHANGED <<driver, buffers, desc, avail, notified, seen, head, disk>>

-----------------------------------------------------------------------------
Operate(h) ==
  WriteDescriptors(h) \/ PutInRing(h) \/ MoveIndex(h) \/ Notify(h) \/ Spin(h) \/ Collect(h)

Serve == TransferOk \/ TransferErr \/ WriteStatus \/ PutUsed

Next ==
  \/ Negotiate \/ ConfigureQueue
  \/ \E h \in Harts :
       \/ \E ty \in {"In", "Out"}, s \in Sectors, v \in Data : Call(h, ty, s, v)
       \/ Lock(h) \/ Operate(h)
  \/ Fetch \/ Rest \/ Serve

Spec == Init /\ [][Next]_vars

(* A hart in the driver runs on: the kernel disables interrupts in a trap. *)
(* The device finishes what it has fetched and looks at the ring after a   *)
(* notification; nothing makes it look without one.                        *)
Fairness ==
  /\ \A h \in Harts : WF_vars(Operate(h))
  /\ WF_vars(Serve)
  /\ WF_vars(notified /\ (Fetch \/ Rest))

FairSpec == Spec /\ Fairness

-----------------------------------------------------------------------------
(* The type invariant.                                                     *)
TypeOK ==
  /\ boot \in {"reset", "negotiated", "up", "panic"}
  /\ regs \in [status : SUBSET {"ACK", "DRIVER", "FEATURES_OK", "DRIVER_OK", "unknown"},
               ready : BOOLEAN]
  /\ lock \in Harts \cup {NoHart}
  /\ pc \in [Harts -> {"idle", "lock", "desc", "ring", "idx", "notify", "spin", "collect"}]
  /\ header \in [Harts -> [ty : {"In", "Out"}, sector : Sectors]]
  /\ data \in [Harts -> Data \cup {NoData}]
  /\ status \in [Harts -> {"freed", "ff", "Ok", "IoErr"}]
  /\ ret \in [Harts -> {"none", "ok", "err"}]
  /\ desc \in [0..2 -> [owner : Harts \cup {NoHart}, part : {"none", "header", "data", "status"},
                        write : BOOLEAN, next : 0..2]]
  /\ avail \in [idx : Idx, ring : [Slots -> 0..2]]
  /\ usedIdx \in Idx /\ lastUsed \in Idx /\ seen \in Idx
  /\ notified \in BOOLEAN
  /\ head \in 0..2
  /\ stage \in {"rest", "fetched", "Ok", "IoErr", "written"}
  /\ disk \in [Sectors -> Data]

(* read and write free the boxes and give the buffer back when they        *)
(* return.  While the device works on a chain, its descriptors point to    *)
(* the boxes and the buffer of the hart that has DRIVER, and that hart is  *)
(* still in the loop of operate, or about to enter it.                     *)
DeviceUsesLiveBuffers ==
  stage # "rest" =>
    /\ lock # NoHart
    /\ pc[lock] \in {"notify", "spin"}
    /\ \A d \in {First, Second, Third} : d.owner = lock
    /\ First.part = "header" /\ Second.part = "data" /\ Third.part = "status"
    /\ data[lock] # NoData /\ status[lock] # "freed"

(* What has become of the request of h.                                    *)
Outcome(h) ==
  IF status[h] = "Ok" \/ (lock = h /\ stage = "Ok") THEN "ok"
  ELSE IF status[h] = "IoErr" \/ (lock = h /\ stage = "IoErr") THEN "err"
  ELSE "asked"

Requests ==
  [h \in Harts |-> IF pc[h] = "idle" THEN Idle
                   ELSE [kind |-> header[h].ty, sector |-> header[h].sector, val |-> data[h],
                         state |-> Outcome(h)]]

Abstract == INSTANCE SectorDisk WITH req <- Requests

(* read_sector and write_sector, over shared rings, indices that wrap and  *)
(* a device on its own clock, implement SectorDisk: each transfer takes    *)
(* effect once, with the caller's sector and buffer, and what is returned  *)
(* is what became of it.                                                   *)
ImplementsSectorDisk == Abstract!DiskSpec

(* A hart that has DRIVER gives it back: no notification is lost, and the  *)
(* loop of operate, which has no time limit, ends.                         *)
RequestsFinish == \A h \in Harts : lock = h ~> lock # h
===============================================================================
