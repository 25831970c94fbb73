SPECIFICATION SubmitSafety
CONSTANTS
  A = A
  B = B
  C = C
  dust = dust
  large = large
  legacy = legacy
  OpReturn = OpReturn
  Opaque = Opaque
  NoRow = NoRow
  NoTx = NoTx
  Addr <- MCAddr
  Tx <- MCTx
  TxOut <- MCTxOut
  TxIn <- MCTxIn
  NumAgents = 2
  NumFounders = 1
  AgentAddr <- MCAgentAddr
  HasEthAddr <- MCHasEthAddr
  MaxCrashes = 1
  BatchLimit = 2
  UintMod = 65536
  BaseHeader = 0
  MaxLorenzoTip = 5
  Rejected = {dust}
  TruncatedBody = TRUE
  UnlistedErrors = TRUE
  NewRows <- MCNewRows
INVARIANTS
  SubmitTypeOK
  SuccessIsRecorded
  NotBelongIsForeign
  SentWhenDeep
PROPERTIES
  TerminalIsFinal
