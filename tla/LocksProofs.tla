------------------------------ MODULE LocksProofs ------------------------------
(***************************************************************************)
(* Both locks exclude as they should, for any finite set of harts that is  *)
(* smaller than the counter can count.  The three invariants together are  *)
(* inductive.                                                              *)
(***************************************************************************)
EXTENDS Locks, FiniteSetTheorems, TLAPS

USE ZenonT(20)

IInv == TypeOK /\ SpinLockExcludes /\ RwLockExcludes

(* The number of harts that read, before and after a hart starts or stops, *)
(* and its bound.                                                          *)
LEMMA ReadersCount ==
  /\ IsFiniteSet(Readers)
  /\ Cardinality(Readers) \in Nat
  /\ Cardinality(Readers) < WRITE_LOCK_HELD - 1
<1>1. IsFiniteSet(Readers) /\ Cardinality(Readers) <= Cardinality(Harts)
  BY FS_Subset, HartsAssumption DEF Readers
<1>2. Cardinality(Readers) \in Nat /\ Cardinality(Harts) \in Nat
  BY <1>1, FS_CardinalityType, HartsAssumption
<1> QED BY <1>1, <1>2, HartsAssumption, SMTT(30)

(* Init establishes the invariant.                                         *)
LEMMA InitIInv == Init => IInv
<1> SUFFICES ASSUME Init PROVE IInv
  OBVIOUS
<1>1. TypeOK
  <2>1. WRITE_LOCK_HELD \in Nat /\ 0 < WRITE_LOCK_HELD - 1
    BY ReadersCount, HartsAssumption, SMTT(30)
  <2>2. 0 \in 0..WRITE_LOCK_HELD /\ 0 \in 0..(WRITE_LOCK_HELD - 1)
    BY <2>1, SMTT(30)
  <2> QED BY <2>2 DEF Init, TypeOK, NO_LOCK_HELD
<1>2. SpinLockExcludes
  BY DEF Init, SpinLockExcludes
<1>3. Readers = {} /\ Writers = {}
  BY DEF Init, Readers, Writers
<1>4. RwLockExcludes
  BY <1>3, FS_EmptySet DEF Init, RwLockExcludes, NO_LOCK_HELD
<1> QED BY <1>1, <1>2, <1>4 DEF IInv

(* Steps of the SpinLock.                                                  *)
LEMMA SpinStep ==
  ASSUME IInv, NEW h \in Harts, Lock(h) \/ LockExchange(h) \/ DropLock(h)
  PROVE  IInv'
<1> USE DEF IInv
<1>1. TypeOK'
  BY DEF TypeOK, Lock, LockExchange, DropLock
<1>2. SpinLockExcludes'
  <2>1. CASE Lock(h)
    BY <2>1 DEF TypeOK, SpinLockExcludes, Lock
  <2>2. CASE LockExchange(h)
    BY <2>2 DEF TypeOK, SpinLockExcludes, LockExchange, FlagIsClear
  <2>3. CASE DropLock(h)
    BY <2>3 DEF TypeOK, SpinLockExcludes, DropLock
  <2> QED BY <2>1, <2>2, <2>3
<1>3. Readers' = Readers /\ Writers' = Writers /\ rw' = rw /\ readers' = readers
  BY DEF Lock, LockExchange, DropLock, Readers, Writers
<1>4. RwLockExcludes'
  BY <1>3 DEF RwLockExcludes
<1> QED BY <1>1, <1>2, <1>4

(* Steps of the RwLock that only move a hart that has no guard.            *)
LEMMA WaitStep ==
  ASSUME IInv, NEW h \in Harts,
         ReadLock(h) \/ ReadLoad(h) \/ ReadExchangeFails(h) \/ WriteLock(h)
  PROVE  IInv'
<1> USE DEF IInv
<1>1. TypeOK'
  BY HartsAssumption, SMTT(30)
  DEF TypeOK, ReadLock, ReadLoad, ReadExchangeFails, WriteLock, NoWriter, AfterFailure
<1>2. SpinLockExcludes'
  BY DEF SpinLockExcludes, ReadLock, ReadLoad, ReadExchangeFails, WriteLock
<1>3. Readers' = Readers /\ Writers' = Writers /\ readers' = readers
  BY DEF TypeOK, Readers, Writers, ReadLock, ReadLoad, ReadExchangeFails, WriteLock, AfterFailure
<1>4. RwLockExcludes'
  BY <1>3 DEF RwLockExcludes, Readers, Writers
<1> QED BY <1>1, <1>2, <1>4

(* A reader comes in: what it saw is still there, so there is no writer.   *)
LEMMA ReadExchangeStep ==
  ASSUME IInv, NEW h \in Harts, ReadExchange(h)
  PROVE  IInv'
<1> USE DEF IInv
<1>1. readers = seen[h] /\ readers < WRITE_LOCK_HELD /\ readers \in Nat
  BY HartsAssumption, SMTT(30) DEF ReadExchange, Unchanged, TypeOK
<1>2. Writers = {} /\ readers = Cardinality(Readers)
  BY <1>1, SMTT(30) DEF RwLockExcludes
<1>3. Readers' = Readers \cup {h} /\ h \notin Readers /\ Writers' = {}
  BY <1>2 DEF ReadExchange, TypeOK, Readers, Writers
<1>4. Cardinality(Readers') = Cardinality(Readers) + 1
  BY <1>3, ReadersCount, FS_AddElement
<1>5. readers' = readers + 1 /\ readers' < WRITE_LOCK_HELD
  BY <1>1, <1>2, ReadersCount, HartsAssumption, SMTT(30) DEF ReadExchange
<1>6. TypeOK'
  BY <1>1, <1>5, HartsAssumption, SMTT(30) DEF TypeOK, ReadExchange
<1>7. SpinLockExcludes'
  BY DEF SpinLockExcludes, ReadExchange
<1>8. RwLockExcludes'
  BY <1>2, <1>3, <1>4, <1>5 DEF RwLockExcludes, Writers
<1> QED BY <1>6, <1>7, <1>8

(* A reader leaves: it is counted, so the counter is not 0, and there is   *)
(* no writer.                                                              *)
LEMMA DropReadStep ==
  ASSUME IInv, NEW h \in Harts, DropRead(h)
  PROVE  IInv'
<1> USE DEF IInv
<1>1. h \in Readers /\ Writers = {}
  BY DEF DropRead, Readers, Writers, RwLockExcludes
<1>2. readers = Cardinality(Readers)
  BY <1>1 DEF RwLockExcludes
<1>3. Readers' = Readers \ {h} /\ Writers' = {}
  BY <1>1 DEF DropRead, TypeOK, Readers, Writers
<1>4. Cardinality(Readers') = Cardinality(Readers) - 1
  BY <1>1, <1>3, ReadersCount, FS_RemoveElement
<1>5. Cardinality(Readers) # 0
  BY <1>1, ReadersCount, FS_EmptySet
<1>6. TypeOK'
  BY <1>2, <1>5, ReadersCount, HartsAssumption, SMTT(30) DEF TypeOK, DropRead
<1>7. SpinLockExcludes'
  BY DEF SpinLockExcludes, DropRead
<1>8. RwLockExcludes'
  BY <1>2, <1>3, <1>4 DEF RwLockExcludes, Writers, DropRead
<1> QED BY <1>6, <1>7, <1>8

(* A writer comes in: the counter is 0, so there is nobody.                *)
LEMMA WriteExchangeStep ==
  ASSUME IInv, NEW h \in Harts, WriteExchange(h)
  PROVE  IInv'
<1> USE DEF IInv
<1>1. readers = 0 /\ readers' = WRITE_LOCK_HELD
  BY DEF WriteExchange, NO_LOCK_HELD, WriterMark
<1>2. WRITE_LOCK_HELD # 0
  BY ReadersCount, HartsAssumption, SMTT(30)
<1>3. Writers = {} /\ Readers = {}
  BY <1>1, <1>2, ReadersCount, FS_EmptySet DEF RwLockExcludes
<1>4. Writers' = {h} /\ Readers' = {}
  BY <1>3 DEF WriteExchange, TypeOK, Readers, Writers
<1>5. TypeOK'
  BY <1>1, HartsAssumption, SMTT(30) DEF TypeOK, WriteExchange
<1>6. SpinLockExcludes'
  BY DEF SpinLockExcludes, WriteExchange
<1>7. RwLockExcludes'
  BY <1>1, <1>4, SMTT(30) DEF RwLockExcludes, Readers, Writers
<1> QED BY <1>5, <1>6, <1>7

(* The writer leaves, and nobody else is there.                            *)
LEMMA DropWriteStep ==
  ASSUME IInv, NEW h \in Harts, DropWrite(h)
  PROVE  IInv'
<1> USE DEF IInv
<1>1. readers' = 0
  BY DEF DropWrite, NO_LOCK_HELD
<1>2. Writers' = {} /\ Readers' = {}
  BY DEF DropWrite, TypeOK, Readers, Writers, RwLockExcludes
<1>3. TypeOK'
  BY <1>1, HartsAssumption, SMTT(30) DEF TypeOK, DropWrite
<1>4. SpinLockExcludes'
  BY DEF SpinLockExcludes, DropWrite
<1>5. RwLockExcludes'
  BY <1>1, <1>2, FS_EmptySet DEF RwLockExcludes, Writers
<1> QED BY <1>3, <1>4, <1>5

(* Every step keeps the invariant.                                         *)
LEMMA NextIInv == IInv /\ [Next]_vars => IInv'
<1> SUFFICES ASSUME IInv, [Next]_vars PROVE IInv'
  OBVIOUS
<1>1. CASE Next
  <2>1. PICK h \in Harts : HartStep(h)
    BY <1>1 DEF Next
  <2> QED
    BY <2>1, SpinStep, WaitStep, ReadExchangeStep, DropReadStep, WriteExchangeStep, DropWriteStep
    DEF HartStep, Acquire, Release
<1>2. CASE UNCHANGED vars
  BY <1>2 DEF vars, IInv, TypeOK, SpinLockExcludes, RwLockExcludes, Readers, Writers
<1> QED BY <1>1, <1>2

(* The locks exclude: at most one hart has the guard of the SpinLock, and  *)
(* a writer has the RwLock to itself.                                      *)
THEOREM LocksExclude == Spec => []Exclusion
<1>1. Init => IInv
  BY InitIInv
<1>2. IInv /\ [Next]_vars => IInv'
  BY NextIInv
<1>3. IInv => Exclusion
  BY DEF IInv, Exclusion
<1> QED BY <1>1, <1>2, <1>3, PTL DEF Spec

(* The variables keep their types; the counter stays within a usize.       *)
THEOREM LocksTypeCorrect == Spec => []TypeOK
<1>1. Init => IInv
  BY InitIInv
<1>2. IInv /\ [Next]_vars => IInv'
  BY NextIInv
<1>3. IInv => TypeOK
  BY DEF IInv
<1> QED BY <1>1, <1>2, <1>3, PTL DEF Spec

(* The assertion of read_lock never fails.                                 *)
THEOREM AssertionHolds == Spec => []ReadersNeverOverflow
<1>1. Init => IInv
  BY InitIInv
<1>2. IInv /\ [Next]_vars => IInv'
  BY NextIInv
<1>3. IInv => ReadersNeverOverflow
  BY ReadersCount DEF IInv, RwLockExcludes, ReadersNeverOverflow
<1> QED BY <1>1, <1>2, <1>3, PTL DEF Spec
===============================================================================
