SPECIFICATION ScanSafety
CONSTANTS
  A = A
  B = B
  C = C
  OpReturn = OpReturn
  Opaque = Opaque
  NoRow = NoRow
  BatchLimit = 50
  UintMod = 65536
  Addr <- MCAddr
  Tx <- MCTx
  TxOut <- MCTxOut
  TxIn <- MCTxIn
  NumAgents = 3
  NumFounders = 3
  AgentAddr <- MCAgentAddr
  HasEthAddr <- MCHasEthAddr
  MaxCrashes = 0
  Bodies <- MCBodies
  Delay = 0
  MaxReorg = 0
  StartBlockHeight = 0
  MaxHeight = 1
INVARIANTS
  FilterExact
