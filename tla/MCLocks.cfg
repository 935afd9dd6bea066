SPECIFICATION LiveSpec
CONSTANTS
  h1 = h1
  h2 = h2
  h3 = h3
  Harts <- MCHarts
  WRITE_LOCK_HELD = 5
INVARIANTS
  ReadersNeverOverflow
  Exclusion

  
