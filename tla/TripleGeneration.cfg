SPECIFICATION Spec
CONSTANTS
  N = 3
  Loops = 1
  Programs <- MCPrograms
INVARIANTS
  BitsHeldStill
  OneUser
  RightReader
  OneMultiplication
  LeftClean
