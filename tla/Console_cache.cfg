SPECIFICATION LiveSpec
CONSTANTS
  None = None
  Sent = Sent
  Slots = {1, 2}
  MEM = {1, 2}
  MOVES = 2
  Disabled = FALSE
  VCPUS = {0, 1, 2, 64, 65}
  MEMORY = {0, 128, 200, 256, 1048576, 1048704}
  DISKS = {0, 15, 4096, 4097}
INVARIANTS TypeOK CacheTrue CreateAccepted
PROPERTIES Converges
