SPECIFICATION FairSpec
CONSTANTS
  Worker = {w1, w2}
  Governance = {w1}
  Proposal = {p1, p2}
  None = None
  Limit = 2
  MaxVotes = 1
  MaxFaults = 1
INVARIANTS CleanRowsComplete
PROPERTIES JsonKept MetadataSettles
