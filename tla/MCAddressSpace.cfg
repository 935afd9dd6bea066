SPECIFICATION Spec
CONSTANTS
  s1 = s1
  s2 = s2
  new = new
  zero = zero
  loaded = loaded
  stale = stale
  none = none
  Spaces <- TwoSpaces
  NFrames = 12
  NPages = 3
  Image <- SharedPageImage
  StackPages <- MCStackPages
  TableOrder <- MCTableOrder
  Walk <- MCWalk
  KERNEL_STACK_PAGES = 1
  Stores <- MCStores
  BrkRequests = {1, 5}
  MaxTasks = 3
  Zero <- zero
  Loaded <- loaded
  Stale <- stale
  NoPte <- none
  NoRegion <- none
  NoStack <- none
  NoCow <- none
  NoValue <- none
SYMMETRY Symmetry
INVARIANTS
  RefcountsExact
  

  
CHECK_DEADLOCK FALSE
