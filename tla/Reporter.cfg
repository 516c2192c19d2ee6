CONSTANTS
  Event = {e1, e2}
  BatchSize = 2
  MaxAccepted = 4
SPECIFICATION MCSpec
INVARIANTS
  NothingLostOrReordered
PROPERTIES
  ImplementsFeed
  EventuallyPosted
