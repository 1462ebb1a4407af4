SPECIFICATION Spec
CONSTANTS
  P = 7
  Terms = 3
  Points1 <- MCPoints1
  Points2 <- MCPoints2
  Zs1 <- MCZs1
  Zs2 <- MCZs2
INVARIANTS
  SumIsRight
  FailsOnlyAtEqualX
CHECK_DEADLOCK FALSE
