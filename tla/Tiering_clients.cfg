SPECIFICATION Spec
CONSTANTS
  Nodes = {n1, n2, n3}
  Clients = {c1, c2}
  Verbs = {"create", "pause", "resume", "snapshot", "kill", "migrate"}
  Faults = {}
  Tiers = {"warm"}
  MaxGen = 3
  NoNode = none
INVARIANTS PausedRestorable
CHECK_DEADLOCK FALSE
