SPECIFICATION Spec
CONSTANTS
  none = none
  NoNode <- none
  StartAddr = 64
  EndAddr = 392
  HEADER = 24
  USIZE = 8
  HALIGN = 8
  Layouts <- MCLayouts
INVARIANTS
  HeapIsTiled
  BlocksAreSound
CHECK_DEADLOCK FALSE
