SPECIFICATION Spec
CONSTANTS
  Entries = {e1, e2}
  CAPACITY = 2
  None = None
INVARIANTS PollsWhileWatched FeedOrdered OneFeed
PROPERTIES Recovers
