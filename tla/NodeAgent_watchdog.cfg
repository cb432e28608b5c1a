SPECIFICATION Spec
CONSTANTS
  Base = 0
  Size = 2
  Ids = {1, 2}
  Isolated = {1}
  Threads = {t1, t2}
  Watchdog = dog
  Verbs = {"create", "pause", "resume", "release"}
  Faults = {"process", "agent"}
  Claims = TRUE
  MaxObjs = 3
SYMMETRY Symmetry
INVARIANTS NoOrphanVM NoLeakedSlot
CHECK_DEADLOCK FALSE
