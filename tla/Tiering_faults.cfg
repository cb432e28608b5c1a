SPECIFICATION LiveSpec
CONSTANTS
  Nodes = {n1, n2}
  Clients = {c1}
  Verbs = {"create", "pause", "resume", "snapshot", "kill", "migrate"}
  Faults = {"agent", "crash", "process", "capacity"}
  Tiers = {"warm"}
  MaxGen = 3
  NoNode = none
INVARIANTS RunsFromLastPause OneVM FailedRestorable
PROPERTIES TransientLeft HotDemoted
CHECK_DEADLOCK FALSE
