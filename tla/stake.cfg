SPECIFICATION MCSpec
CONSTANTS
  Worker = {w1, w2}
  Lister = {l1}
  DRep = {d1, d2}
  None = None
  ChunkSize = 1
  MaxEpoch = 1
  MaxFaults = 1
INVARIANTS TypeOK SnapshotNotOlder
PROPERTIES PowerNeverOlder RowsSettle
