SPECIFICATION Spec
CONSTANTS
  Worker = {w1}
  Lister = {}
  DRep = {d1}
  None = None
  ChunkSize = 1
  MaxEpoch = 1
  MaxFaults = 0
INVARIANTS SnapshotExact
