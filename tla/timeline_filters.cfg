SPECIFICATION TimelineSpec
CONSTANTS
  Replica = {r1}
  NoEpoch = NoEpoch
  PageSize = 2
  Slot = {1, 2}
  Joined = {1}
  Type = {"vote", "delegation"}
  Filter = {"all", "d"}
  FirstEpoch = 2
  MaxEpoch = 3
  MaxSteps = 3
INVARIANTS CategoryShown
CHECK_DEADLOCK FALSE
