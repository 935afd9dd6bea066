--------------------------------- MODULE Locks ---------------------------------
(***************************************************************************)
(* The two locks of the kernel: SpinLock (ksync/src/spin_lock.rs) and      *)
(* RwLock (ksync/src/rw_lock.rs), one of each, used by harts the way the   *)
(* kernel nests them: a SpinLock may be taken inside an RwLock (the page   *)
(* metadata table allocates under its write lock), never the reverse.      *)
(* Every atomic operation is one step.  A failed compare_exchange that is  *)
(* tried again at once changes nothing and is a stuttering step.           *)
(***************************************************************************)
EXTENDS Integers, FiniteSets

CONSTANTS
  Harts,
  WRITE_LOCK_HELD   \* usize::MAX

ASSUME HartsAssumption ==
  /\ IsFiniteSet(Harts)
  /\ WRITE_LOCK_HELD \in Nat
  /\ Cardinality(Harts) < WRITE_LOCK_HELD - 1

NO_LOCK_HELD == 0

VARIABLES
  flag,      \* SpinLock.flag
  readers,   \* RwLock.readers
  spin,      \* where each hart is in its use of the SpinLock
  rw,        \* and of the RwLock
  seen       \* read_lock: the value loaded before the compare_exchange

vars == <<flag, readers, spin, rw, seen>>

Init ==
  /\ flag = FALSE
  /\ readers = NO_LOCK_HELD
  /\ spin = [h \in Harts |-> "no"]
  /\ rw = [h \in Harts |-> "no"]
  /\ seen = [h \in Harts |-> 0]

-----------------------------------------------------------------------------
(* SpinLock::lock: called, then compare_exchange_weak until it succeeds.   *)
Lock(h) ==
  /\ spin[h] = "no"
  /\ rw[h] \in {"no", "reading", "writing"}
  /\ spin' = [spin EXCEPT ![h] = "trying"]
  /\ UNCHANGED <<flag, readers, rw, seen>>

FlagIsClear == flag = FALSE

LockExchange(h) ==
  /\ spin[h] = "trying"
  /\ FlagIsClear
  /\ flag' = TRUE
  /\ spin' = [spin EXCEPT ![h] = "held"]
  /\ UNCHANGED <<readers, rw, seen>>

DropLock(h) ==
  /\ spin[h] = "held"
  /\ flag' = FALSE
  /\ spin' = [spin EXCEPT ![h] = "no"]
  /\ UNCHANGED <<readers, rw, seen>>

-----------------------------------------------------------------------------
(* RwLock::read_lock: load, and if there is no writer try to count one     *)
(* reader more than was seen.                                              *)
ReadLock(h) ==
  /\ rw[h] = "no" /\ spin[h] = "no"
  /\ rw' = [rw EXCEPT ![h] = "load"]
  /\ UNCHANGED <<flag, readers, spin, seen>>

NoWriter == readers # WRITE_LOCK_HELD

ReadLoad(h) ==
  /\ rw[h] = "load"
  /\ NoWriter
  /\ seen' = [seen EXCEPT ![h] = readers]
  /\ rw' = [rw EXCEPT ![h] = "exchange"]
  /\ UNCHANGED <<flag, readers, spin>>

(* Mutant: a plain store instead of the exchange.                          *)
Unchanged_Not(h) == TRUE

Unchanged(h) == readers = seen[h]

ReadExchange(h) ==
  /\ rw[h] = "exchange"
  /\ Unchanged(h)
  /\ readers' = seen[h] + 1
  /\ rw' = [rw EXCEPT ![h] = "reading"]
  /\ UNCHANGED <<flag, spin, seen>>

(* compare_exchange_weak may also fail when the value is the one seen.     *)
(* Mutant: the exchange is tried again without loading the counter again.  *)
AfterFailure_NoLoad == "exchange"

AfterFailure == "load"

ReadExchangeFails(h) ==
  /\ rw[h] = "exchange"
  /\ rw' = [rw EXCEPT ![h] = AfterFailure]
  /\ UNCHANGED <<flag, readers, spin, seen>>

DropRead(h) ==
  /\ rw[h] = "reading" /\ spin[h] = "no"
  /\ readers' = readers - 1
  /\ rw' = [rw EXCEPT ![h] = "no"]
  /\ UNCHANGED <<flag, spin, seen>>

(* RwLock::write_lock.  Mutant: the mark of a writer is one too low.       *)
WriteLock(h) ==
  /\ rw[h] = "no" /\ spin[h] = "no"
  /\ rw' = [rw EXCEPT ![h] = "trying"]
  /\ UNCHANGED <<flag, readers, spin, seen>>

WriterMark_OffByOne == WRITE_LOCK_HELD - 1

WriterMark == WRITE_LOCK_HELD

WriteExchange(h) ==
  /\ rw[h] = "trying"
  /\ readers = NO_LOCK_HELD
  /\ readers' = WriterMark
  /\ rw' = [rw EXCEPT ![h] = "writing"]
  /\ UNCHANGED <<flag, spin, seen>>

DropWrite(h) ==
  /\ rw[h] = "writing" /\ spin[h] = "no"
  /\ readers' = NO_LOCK_HELD
  /\ rw' = [rw EXCEPT ![h] = "no"]
  /\ UNCHANGED <<flag, spin, seen>>

Acquire(h) == LockExchange(h) \/ ReadExchange(h) \/ WriteExchange(h)

Release(h) == DropLock(h) \/ DropRead(h) \/ DropWrite(h)

HartStep(h) ==
  \/ Lock(h) \/ ReadLock(h) \/ WriteLock(h)
  \/ ReadLoad(h) \/ ReadExchangeFails(h)
  \/ Acquire(h) \/ Release(h)

Next == \E h \in Harts : HartStep(h)

Spec == Init /\ [][Next]_vars

(* A hart keeps executing: it loads, it releases what it holds, and its    *)
(* exchange succeeds if it could time and again (RISC-V guarantees this    *)
(* for the short LR/SC loops that compare_exchange compiles to; but not    *)
(* that it could: nobody is promised a turn).                              *)
Fairness ==
  \A h \in Harts :
    /\ WF_vars(ReadLoad(h))
    /\ WF_vars(ReadExchangeFails(h))
    /\ WF_vars(Release(h))
    /\ WF_vars(LockExchange(h))
    /\ SF_vars(ReadExchange(h))
    /\ WF_vars(WriteExchange(h))

LiveSpec == Spec /\ Fairness

-----------------------------------------------------------------------------
Readers == {h \in Harts : rw[h] = "reading"}
Writers == {h \in Harts : rw[h] = "writing"}

(* The type invariant.                                                     *)
TypeOK ==
  /\ flag \in BOOLEAN
  /\ readers \in 0..WRITE_LOCK_HELD
  /\ spin \in [Harts -> {"no", "trying", "held"}]
  /\ rw \in [Harts -> {"no", "load", "exchange", "reading", "trying", "writing"}]
  /\ seen \in [Harts -> 0..(WRITE_LOCK_HELD - 1)]

(* The flag is set exactly while a hart has the guard of the SpinLock, and *)
(* no two have it: deref_mut is exclusive.                                 *)
SpinLockExcludes ==
  /\ flag = (\E h \in Harts : spin[h] = "held")
  /\ \A g, h \in Harts : (spin[g] = "held" /\ spin[h] = "held") => g = h

(* The counter of the RwLock is WRITE_LOCK_HELD while one hart writes and  *)
(* nobody reads, and otherwise the number of harts that read; so a writer  *)
(* has the data to itself.                                                 *)
RwLockExcludes ==
  /\ \A g, h \in Harts : rw[g] = "writing" => rw[h] # "reading" /\ (rw[h] = "writing" => g = h)
  /\ readers = IF Writers # {} THEN WRITE_LOCK_HELD ELSE Cardinality(Readers)

(* Both locks exclude: data behind a guard that can change it has one      *)
(* user.                                                                   *)
Exclusion == SpinLockExcludes /\ RwLockExcludes

(* assert!(readers < WRITE_LOCK_HELD - 1) of read_lock: what a reader is   *)
(* about to load is never so close to the value that marks a writer.       *)
ReadersNeverOverflow == readers # WRITE_LOCK_HELD => readers < WRITE_LOCK_HELD - 1

(* Locks are not lost: while harts keep wanting a lock, it keeps being     *)
(* taken.  (A single hart may wait forever: writers can starve, as the     *)
(* comment of RwLock says.)                                                *)
Wants(state, waiting) == \E h \in Harts : state[h] \in waiting
LocksKeepBeingTaken ==
  /\ Wants(spin, {"trying"}) ~> Wants(spin, {"held"})
  /\ Wants(rw, {"load", "exchange", "trying"}) ~> Wants(rw, {"reading", "writing"})
===============================================================================
