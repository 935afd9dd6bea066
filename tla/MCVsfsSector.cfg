SPECIFICATION Spec
CONSTANTS
  nx = nx
  ny = ny
  h1 = h1
  h2 = h2
  foo = foo
  bar = bar
  Procs <- TwoHarts
  Names <- MCNames
  Dot = Dot
  DotDot = DotDot
  NoName = NoName
  Mount = Mount
  Absent = Absent
  NINODES = 6
  NBLOCKS = 10
  DATA_BLOCK_START = 2
  INDIRECT_BLOCK_ENTRIES = 2
  Images <- MCImages
  DIRECT_BLOCKS = 2
  PerBlock = 3
  PerSector = 8
  MaxFaults = 0
SYMMETRY Symmetry
INVARIANTS
  IndependentInodes
