SPECIFICATION Spec
CONSTANTS
  Pauses = {p1,p2}
  Chunks = {h1, h2}
  Grace = 3
  MaxCopy = 1
  MaxMark = 1
  MaxTime = 6
SYMMETRY Symmetry
INVARIANTS TypeOK LostOnlyInWindow
CHECK_DEADLOCK FALSE
