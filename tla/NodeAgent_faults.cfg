SPECIFICATION Spec
CONSTANTS
  Base = 0
  Size = 2
  Ids = {1, 2}
  Isolated = {1}
  Threads = {t1}
  Watchdog = dog
  Verbs = {"create", "pause", "resume", "snapshot", "stop", "release", "restore"}
  Faults = {"process", "agent", "zfs"}
  Claims = FALSE
  MaxObjs = 2
SYMMETRY Symmetry
INVARIANTS TypeOK PoolSound Settled
CHECK_DEADLOCK FALSE
