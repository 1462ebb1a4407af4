\* Every party leaves dstb_keygen, streams holding no more than T + 1 frames.
SPECIFICATION FairSpec
CONSTANTS
  N = 3
  T = 2
  Q = 5
  Cap = 3
  Faulty = {0}
  MaxFaults = 1
  None = None
  Fr <- Scalar
  Plus <- FrAdd
  Eval <- EvalPoly
  Polys <- OwnPoly
  Wrong <- OneOff
PROPERTY
  EveryoneEnds
