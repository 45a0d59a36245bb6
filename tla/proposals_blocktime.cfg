SPECIFICATION Spec
CONSTANTS
  Worker = {w1, w2}
  None = None
  PageSize = 1
  MaxProposals = 1
  MaxFaults = 1
PROPERTIES BlockTimeKept
