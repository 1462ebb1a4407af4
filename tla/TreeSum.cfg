SPECIFICATION FairSpec
CONSTANTS
  N = 6
  OpeningSum = 2
  MaxBroadcast = 2
  Runs = 3
  Cap = 2
INVARIANTS
  OneKindPerDirection
  NothingLeftOver
PROPERTIES
  OpensTheSum
  EveryRunReturns
