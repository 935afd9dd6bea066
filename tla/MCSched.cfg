CONSTANTS
  sh = sh
  a = a
  b = b
  Users <- MCUsers
  Shell = sh
  Idle = Idle
  Reaper = Reaper
  None = None
  BUF_SIZE = 2
  MaxBurst = 1
  MaxSleep = 0
  Quantum = 1
SPECIFICATION FairSpec
INVARIANTS
  TypeOK
  RunQueueExact
  BlockedIsRegistered
  WaitersHaveLiveChildren
  WaitNeverPanics
  CleanupIsSafe
  DeadAreAccountedFor
PROPERTIES
  DeathIsFinal
  ReadyRuns
  CleanupHappens
  ExitEndsWait
