SPECIFICATION Spec
CONSTANTS
  Worker = {w1}
  DRep = {d1}
  Addr = {1}
  Amount = {5}
  None = None
  PageSize = 2
  MaxChanges = 1
  MaxFaults = 0
INVARIANTS ClearsTimelineIndex
