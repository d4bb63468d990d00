SPECIFICATION Spec
CONSTANTS
  Procs = {p1, p2}
  Inodes = {i1, i2}
  NBLOCKS = 11
  NDIRECT = 1
  NINDIRECT = 2
  BPB = 100
  MAXOPBLOCKS = 10
  p1 = p1
  p2 = p2
  i1 = i1
  i2 = i2
  Starts <- MCStarts
  None = None
INVARIANTS BlockInv 
PROPERTIES ImplementsFiles
CHECK_DEADLOCK FALSE
