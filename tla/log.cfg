SPECIFICATION FairSpec
CONSTANTS
  Procs = {p1, p2, p3}
  Blocks = {a, b, c, d}
  Vals = {0, 1}
  Fresh = 0
  MAXOPBLOCKS = 2
  LOGSIZE = 4
  LogBlocks = 5
  Loads <- MCLoads
  Absent = Absent
  p1 = p1
  p2 = p2
  p3 = p3
  a = a
  b = b
  c = c
  d = d

  
PROPERTIES
  ImplementsAtomicDisk
  SleepersWoken
