SPECIFICATION ScanSpec
CONSTANTS
  A = A
  B = B
  C = C
  t1 = t1
  t2 = t2
  t3 = t3
  t4 = t4
  OpReturn = OpReturn
  Opaque = Opaque
  NoRow = NoRow
  BatchLimit = 50
  UintMod = 65536
  Addr <- MCAddr
  Tx <- MCTx
  TxOut <- MCTxOut
  TxIn <- MCTxIn
  NumAgents = 3
  NumFounders = 1
  AgentAddr <- MCAgentAddr
  HasEthAddr <- MCHasEthAddr
  MaxCrashes = 1
  Bodies <- MCBodies
  Delay = 1
  MaxReorg = 1
  StartBlockHeight = 0
  MaxHeight = 3
INVARIANTS
  ScanTypeOK
  NoGap
  RowsCanonical
  RowsJustified
  FoundersVisible
  ListAscending
PROPERTIES
  RowsKept
  SyncPointByOne
  ListConverges
