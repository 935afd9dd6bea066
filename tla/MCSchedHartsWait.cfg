SPECIFICATION Spec
CONSTANTS
  sh = sh
  ua = ua
  ub = ub
  CORE_COUNT = 2
  Users <- MCUsers
  Shell = sh
  None = None
  MaxTyped = 0
  MaxTicks = 0
INVARIANTS
  WaitNeverPanics
CHECK_DEADLOCK FALSE
