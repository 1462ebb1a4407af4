SPECIFICATION ChSpec
CONSTANTS
  N = 3
  None = None
  Starts <- MCStarts
  Cap = 2
  Behind = 1
  Programs <- MCPrograms
  Liars <- MCLiars
INVARIANTS
  SocketsFit
  OneThreadEach
  FailsOnlyIfLate
  RightBytes
  CheckCatchesLies
PROPERTY
  EveryoneEnds
