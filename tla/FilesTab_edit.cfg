CONSTANTS
  Paths = {p1, p2}
  Values = {empty, v1}
  Empty = empty
  Uploads <- MCUploads
  Prompt = TRUE
  None = none
  InitDisk <- MCDisk
  Slots = {s1, s2}
  MaxGen = 2
SPECIFICATION Spec
INVARIANTS TypeOK NoCrossWrite SaveTargets SpinnerOwned
PROPERTIES UnsavedKept
