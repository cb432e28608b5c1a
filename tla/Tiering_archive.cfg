SPECIFICATION Spec
CONSTANTS
  Nodes = {n1, n2}
  Clients = {c1}
  Verbs = {"create", "pause", "resume", "snapshot", "kill"}
  Faults = {"agent", "crash", "copy", "capacity", "process"}
  Tiers = {"warm", "cold", "recycle"}
  MaxGen = 3
  NoNode = none
INVARIANTS ColdTierComplete RunsFromLastPause
CHECK_DEADLOCK FALSE
