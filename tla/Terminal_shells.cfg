SPECIFICATION LiveSpec
CONSTANTS
  Sessions = {1, 2, 3}
  Sockets = {a, b}
  MAX_SESSIONS = 2
  None = None
INVARIANTS TypeOK OneSocket NotStranded
PROPERTIES KeepsPromise Reconnects
