SPECIFICATION Spec
CONSTANTS
  Procs = {p1, p2}
  Init0 = p1
  NOFILE = 2
  NFILE = 3
  Pipes = {pi1}
  PIPESIZE = 2
  UINT = 4
  Payloads <- MCPayloads
  ReadSizes = {1}
  None = None
INVARIANTS FileInv SleepersMustWait
PROPERTIES ImplementsStreams
CHECK_DEADLOCK FALSE
