\* Four executions and four deaths; the queue has room for the messages of one
\* execution and one more, so that what a dead stage two left can fill it.
SPECIFICATION FairSpec
CONSTANTS
  MaxRuns = 4
  MaxCrashes = 4
  Room = 4
  Local <- LocalBits
  Reveal <- RevealBits
INVARIANTS
  FreshBits
  RemovedAfterTaken
  NoQueueLeft
PROPERTY
  HandOffEnds
CHECK_DEADLOCK FALSE
