SPECIFICATION FairSpec
CONSTANTS
  Worker = {w1, w2}
  DRep = {d1}
  Addr = {1, 2}
  Amount = {5}
  None = None
  PageSize = 1
  MaxChanges = 1
  MaxFaults = 1
INVARIANTS TypeOK UndelegationsReal
PROPERTIES PagesAddUp RemovalRecorded Settles CountsSettle
