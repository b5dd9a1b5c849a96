SPECIFICATION Spec
CONSTANTS
  NumEmis = 2
  Pays <- TwoPays
  Workers <- OneWorker
  PI = 1
  Ecs = 1
  Kinds <- AllKinds
  Jobs <- AllJobs
  MaxAborts = 1
  MaxCount = 2
  p1 = p1
  p2 = p2
  w1 = w1
  w2 = w2
INVARIANTS
  NeverOverbooked
  PaidIsFunded
  IndInv
SYMMETRY Symmetry
\* The system may rest: no order is open and no handler runs.
CHECK_DEADLOCK FALSE
