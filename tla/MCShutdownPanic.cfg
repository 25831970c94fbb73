SPECIFICATION ShutdownSpec
CONSTANTS
  MaxRelayers <- MCMaxRelayers
  MaxSignals <- MCMaxSignals
INVARIANTS
  NeverPanics
CHECK_DEADLOCK FALSE
