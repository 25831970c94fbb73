SPECIFICATION ShutdownSpec
CONSTANTS
  MaxRelayers <- MCMaxRelayers
  MaxSignals <- MCMaxSignals
INVARIANTS
  ShutdownTypeOK
  CleanExit
PROPERTIES
  ShutdownCompletes
CHECK_DEADLOCK FALSE
