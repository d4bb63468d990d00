SPECIFICATION Spec
CONSTANTS
  NPROC = 3
  QNUM = 4
  MaxPriority = 1
  BoostPeriod = 2
  IOChans = {io}
  Ticks = Ticks
  Workloads = {{"fork", "fcfsfork", "wait", "exit", "kill", "fcfsmode", "mlfqmode", "setpriority_other", "sleep", "latetick"},
    {"yield", "fork", "setpriority", "mlfqmode"}}
  MaxWindowTicks = 1
INVARIANTS
  TypeInv
  RunnableQueuedOnce
  NoMissedExit
  ParentAlive
PROPERTIES
  NeverOvertaken
  DispatchesBest
  LevelRegained
