SPECIFICATION Spec
CONSTANTS
  P = 7
  Chunk = 4
  Messages <- MCMessages
INVARIANT OneStepAgrees
CHECK_DEADLOCK FALSE
