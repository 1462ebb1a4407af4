SPECIFICATION FairSpec
CONSTANTS
  N = 3
  Loops = 1
  Programs <- MCOneCall
PROPERTY
  EveryoneEnds
