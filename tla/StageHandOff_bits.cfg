\* One execution in which nothing dies: what stage two makes of the text.
SPECIFICATION FairSpec
CONSTANTS
  MaxRuns = 1
  MaxCrashes = 0
  Room = 4
  Local <- LocalBits
  Reveal <- RevealBits
INVARIANT
  StageTwoHasTheBits
CHECK_DEADLOCK FALSE
