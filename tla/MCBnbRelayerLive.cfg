SPECIFICATION BnbSpec
CONSTANTS
  s1 = s1
  s2 = s2
  NoRow = NoRow
  Stake <- MCStake
  Bodies <- MCBodiesLive
  Rejected = {s2}
  Delay = 1
  RangeSize = 2
  CacheSize = 1
  MaxReorg = 1
  StartBlockHeight = 1
  ReceiptsFail = FALSE
  UnlistedErrors = FALSE
  MaxHeight = 3
  MaxCrashes = 1
PROPERTIES
  BnbServed
CHECK_DEADLOCK FALSE
