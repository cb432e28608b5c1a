SPECIFICATION Spec
CONSTANTS
  Base = 0
  Size = 2
  Ids = {1, 2}
  Isolated = {1}
  Threads = {t1, t2}
  Watchdog = dog
  Verbs = {"create", "pause", "resume", "release", "restore"}
  Faults = {"agent", "iptables"}
  Claims = TRUE
  MaxObjs = 3
SYMMETRY Symmetry
INVARIANTS SlotExclusive EgressEnforced DatasetKept NoOrphanVM NoLeakedSlot
CHECK_DEADLOCK FALSE
