\* Three parties, threshold N - 1 as main passes it, one dealer that may send MaxFaults wrong frames:
\* enough to open, deal and publish another secret towards one party.
SPECIFICATION Spec
CONSTANTS
  N = 3
  T = 2
  Q = 5
  Cap = 3
  Faulty = {0}
  MaxFaults = 4
  None = None
  Fr <- Scalar
  Plus <- FrAdd
  Eval <- EvalPoly
  Polys <- OwnPoly
  Wrong <- OneOff
INVARIANTS
  TypeOK
  FramesMatch
  StreamsDrained
  CommitBeforeOpen
  ShareMatchesKey
  ContributionsAgree
  JointKeySigns
