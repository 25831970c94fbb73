SPECIFICATION RelayerSafety
CONSTANTS
  A = A
  B = B
  C = C
  t1 = t1
  t2 = t2
  OpReturn = OpReturn
  Opaque = Opaque
  NoRow = NoRow
  NoTx = NoTx
  Addr <- MCAddr
  Tx <- MCTx
  TxOut <- MCTxOut
  TxIn <- MCTxIn
  NumAgents = 2
  NumFounders = 1
  AgentAddr <- MCAgentAddr
  HasEthAddr <- MCHasEthAddr
  MaxCrashes = 1
  BatchLimit = 1
  UintMod = 65536
  Bodies <- MCBodies
  Delay = 1
  MaxReorg = 1
  StartBlockHeight = 0
  MaxHeight = 3
  BaseHeader = 0
  MaxLorenzoTip = 2
  Rejected = {}
  TruncatedBody = FALSE
  UnlistedErrors = FALSE
  NewRows = {}
INVARIANTS
  RelayerTypeOK
  OnlyDepositsSubmitted
  
PROPERTIES
  ImplementsLedger
