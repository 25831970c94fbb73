SPECIFICATION HeaderSpec
CONSTANTS
  Nil = Nil
  Missing = Missing
  Block <- MCBlock
  CacheSize = 2
INVARIANTS
  HeaderTypeOK
  AnswerIsAsked
  FoundAgain
