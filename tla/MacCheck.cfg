\* POPEN_MAX = 3 is reached and passed by programs of three calls; one value is
\* checked by itself, two and more in combination.
SPECIFICATION FairSpec
CONSTANTS
  N = 2
  PopenMax = 3
  Few = 2
  MaxErrors = 2
  Programs <- MCPrograms
INVARIANTS
  Aligned
  InStep
  WrongIsCaught
  NoFalseAlarm
PROPERTY
  EveryoneStops
