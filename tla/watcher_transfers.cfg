SPECIFICATION Spec
CONSTANTS
  Worker = {w1, w2}
  Addr = {a1}
  DRep = {d1, d2}
  None = None
  EventType = {"delegation"}
  BatchSize = 2
  MaxEvents = 3
  MaxId = 5
  MaxFaults = 1
SYMMETRY WatcherSymmetry
INVARIANTS TypeOK TransfersRecorded UndelegationsSound
PROPERTIES CursorMonotone
