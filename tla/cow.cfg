SPECIFICATION Spec
CONSTANTS
  Procs = {p1, p2, p3}
  initproc = p1
  NPages = 2
  Frames = {f1, f2, f3, f4}
  Vals = {v1}
  Zero = Zero
  Junk = Junk
  NoPage = NoPage
  Loads <- MCLoads
SYMMETRY Symmetry
INVARIANTS
  FrameInv
  WriteExclusive

  
