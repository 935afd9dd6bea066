SPECIFICATION Spec
CONSTANTS
  idle = idle
  written = written
  Idle = idle
  SECTOR_SIZE = 2
  SECTORS_PER_BLOCK = 2
  DIRECT_BLOCKS = 1
  INDIRECT_BLOCK_ENTRIES = 4
  NSectors = 12
  Size = 14
  Byte <- MCByte
  Images <- MCImages
  MaxReq = 6
  MaxWrites = 1
  MaxSeek = 1
INVARIANTS
  ShortOnlyAtBlock

  
