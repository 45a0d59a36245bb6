SPECIFICATION FrontendSpec
CONSTANTS
  Replica = {r1, r2}
  NoEpoch = NoEpoch
  PageSize = 2
  Slot = {1, 2}
  Joined = {1}
  Type = {"vote", "delegation"}
  Filter = {"all", "d"}
  FirstEpoch = 2
  MaxEpoch = 3
  MaxSteps = 3
  t1 = t1
  t2 = t2
  t3 = t3
  t4 = t4
  Txn = {t1, t2, t3, t4}
  NoTxn = NoTxn
  Kind <- MCKind
  Wallet = {w1, w2}
  Account = {a1, a2}
  Nobody = Nobody
  MaxStarts = 4
  MaxEvents = 1
INVARIANTS
  TypesOK NoGaps EndsHonest NothingHidden
  NoFalseCancel RightAnswer CallersAnswered
  TokenMatchesAccount LogoutHolds
PROPERTIES ReachesGenesis
CHECK_DEADLOCK FALSE
