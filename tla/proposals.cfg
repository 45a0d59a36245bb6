SPECIFICATION MCSpec
CONSTANTS
  Worker = {w1, w2}
  None = None
  PageSize = 1
  MaxProposals = 2
  MaxFaults = 2
INVARIANTS TypeOK
PROPERTIES RunTakesAll RowsNeverRegress StatusSettles OpenTimed
