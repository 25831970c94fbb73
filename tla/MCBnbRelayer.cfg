SPECIFICATION BnbSafety
CONSTANTS
  s1 = s1
  s2 = s2
  NoRow = NoRow
  Stake <- MCStake
  Bodies <- MCBodies
  Rejected = {}
  Delay = 1
  RangeSize = 2
  CacheSize = 1
  MaxReorg = 1
  StartBlockHeight = 1
  ReceiptsFail = TRUE
  UnlistedErrors = TRUE
  MaxHeight = 5
  MaxCrashes = 1
INVARIANTS
  BnbTypeOK
  NoStakeLost
  RowsOnChain
PROPERTIES
  BnbImplementsLedger
CHECK_DEADLOCK FALSE
