SPECIFICATION Spec
CONSTANTS
  Procs = {p1, p2}
  NINODES = 3
  Names = {"a", "b"}
  Programs <- MCPrograms
  FullIn = {"mkdir", "link"}
  LINKS = 2
  None = None
INVARIANTS NoOrphans
