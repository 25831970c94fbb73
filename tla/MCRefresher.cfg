SPECIFICATION RefreshSpec
CONSTANTS
  a = a
  b = b
  NoEvent = NoEvent
  Addr <- MCAddr
  Unknown = {b}
  StartHeight = 1
  BatchNum = 2
  ErrorPages = TRUE
  MaxHeight = 3
  MaxCrashes = 1
INVARIANTS
  RefreshTypeOK
  NoEventPassedOver
PROPERTIES
  EventShown
CHECK_DEADLOCK FALSE
