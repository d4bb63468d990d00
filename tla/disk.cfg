SPECIFICATION FairSpec
CONSTANTS
  Procs = {p1, p2}
  Bufs = {b1, b2}
  Blocks = {k1, k2, k3}
  Vals = {v1, v2}
  NUM = 4
  Bitmap = {k1}
  None = None
INVARIANTS  DescriptorsAccounted NoLostWakeup
PROPERTIES ImplementsBlockStore 
