SPECIFICATION Spec
CONSTANTS
  P1 = 5
  PSize = 3
  P2 = 11
  QSize = 2
  Chunk = 5
  Evals = 3
  Parties = 3
  LocalBits <- MCLocalBits
  Messages <- MCMessages
  Answers = 2
INVARIANTS
  DecompositionRight
  MaskedByAll
  KeysCarryOver
  PreKeyRight
  CustodyBitRight
CHECK_DEADLOCK FALSE
