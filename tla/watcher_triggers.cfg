SPECIFICATION FairSpec
CONSTANTS
  Worker = {w1, w2}
  Addr = {}
  DRep = {}
  None = None
  EventType = {"registration", "vote"}
  BatchSize = 1
  MaxEvents = 2
  MaxId = 2
  MaxFaults = 1
INVARIANTS CursorCovers
PROPERTIES CatchesUp EventuallySynced ImplementsFeed
