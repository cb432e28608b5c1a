SPECIFICATION Spec
CONSTANTS
  Nodes = {n1, n2}
  Clients = {c1}
  Verbs = {"create", "pause", "resume", "snapshot", "kill", "migrate"}
  Faults = {"crash", "process", "partition", "lost", "db", "apiserver", "capacity"}
  Tiers = {"warm"}
  MaxGen = 3
  NoNode = none
INVARIANTS TypeOK PausedRestorable
CHECK_DEADLOCK FALSE
