------------------------------ MODULE SectorDisk ------------------------------
(***************************************************************************)
(* What BlockDevice (vfs/src/lib.rs) promises a file system: read_sector   *)
(* and write_sector transfer one sector each, at one moment between call   *)
(* and return.  Ok means that the sector was transferred; after DeviceIO a *)
(* write may or may not have reached the disk and the buffer of a read may *)
(* hold anything.  Vsfs and VsfsFile are written over this disk.           *)
(***************************************************************************)
CONSTANTS Harts, Sectors, Data, Idle

VARIABLES
  disk,   \* the sectors
  req,    \* each hart's request: asked, ok or err
  ret     \* what its last request returned, until the next one

diskVars == <<disk, req, ret>>

DiskInit ==
  /\ disk \in [Sectors -> Data]
  /\ req = [h \in Harts |-> Idle]
  /\ ret = [h \in Harts |-> "none"]

Ask(h) ==
  /\ req[h] = Idle
  /\ \E kind \in {"In", "Out"}, s \in Sectors, v \in Data :
       req' = [req EXCEPT ![h] = [kind |-> kind, sector |-> s, val |-> v, state |-> "asked"]]
  /\ ret' = [ret EXCEPT ![h] = "none"]
  /\ UNCHANGED disk

Succeed(h) ==
  LET s == req[h].sector
  IN  /\ req[h] # Idle /\ req[h].state = "asked"
      /\ IF req[h].kind = "In"
         THEN /\ req' = [req EXCEPT ![h].state = "ok", ![h].val = disk[s]]
              /\ UNCHANGED disk
         ELSE /\ req' = [req EXCEPT ![h].state = "ok"]
              /\ disk' = [disk EXCEPT ![s] = req[h].val]
      /\ UNCHANGED ret

Fail(h) ==
  /\ req[h] # Idle /\ req[h].state = "asked"
  /\ IF req[h].kind = "In"
     THEN /\ \E v \in Data : req' = [req EXCEPT ![h].state = "err", ![h].val = v]
          /\ UNCHANGED disk
     ELSE /\ req' = [req EXCEPT ![h].state = "err"]
          /\ disk' \in {disk, [disk EXCEPT ![req[h].sector] = req[h].val]}
  /\ UNCHANGED ret

Return(h) ==
  /\ req[h] # Idle /\ req[h].state # "asked"
  /\ req' = [req EXCEPT ![h] = Idle]
  /\ ret' = [ret EXCEPT ![h] = req[h].state]
  /\ UNCHANGED disk

DiskNext == \E h \in Harts : Ask(h) \/ Succeed(h) \/ Fail(h) \/ Return(h)

DiskSpec == DiskInit /\ [][DiskNext]_diskVars
===============================================================================
