SPECIFICATION Spec
CONSTANTS
  sh = sh
  ua = ua
  ub = ub
  CORE_COUNT = 2
  Users <- MCUsers
  Shell = sh
  None = None
  MaxTyped = 1
  MaxTicks = 1
SYMMETRY Symmetry
INVARIANTS
  ExitFindsWaiter
  ReadyIsPlaced
  BlockedIsPlaced
CHECK_DEADLOCK FALSE
