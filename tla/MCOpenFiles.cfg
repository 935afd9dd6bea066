SPECIFICATION Spec
CONSTANTS
  p1 = p1
  p2 = p2
  Procs <- MCProcs
  Init1 = p1
  f1 = f1
  f2 = f2
  Files <- MCFiles
  MountPaths <- MCMountPaths
  Paths <- MCPaths
  UserPaths <- MCUserPaths
  OnDisk <- MCOnDisk
  Size = 2
  StdFiles = 1
  Vectors <- MCVectors
  MAX_FILE_PATH_LENGTH = 4
  None = None
  Console = Console
SYMMETRY Symmetry
INVARIANTS
  
  EachByteOnce
  ReturnedIsMoved
  OneNumberPerFile
  ExclusiveCreatesOnce
CHECK_DEADLOCK FALSE
