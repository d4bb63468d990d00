SPECIFICATION FairSpec
CONSTANTS
  NPROC = 4
  Loads <- MCLoads
INVARIANTS
  GroupInv
  SizesAgree
  NoPanic
  NoMissedExit

  
CHECK_DEADLOCK FALSE
