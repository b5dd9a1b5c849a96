SPECIFICATION Spec
CONSTANTS
  NumEmis = 2
  Pays <- TwoPays
  Workers <- OneWorker
  PI = 2
  Ecs = 2
  Kinds <- UsualKinds
  Jobs <- AllJobs
  MaxAborts = 0
  MaxCount = 2
  p1 = p1
  p2 = p2
  w1 = w1
  w2 = w2
INVARIANTS
  TypeOK
  CoveredIsSettled
  LeftIsOwed
  BilledIsOwed
  OneReferral
  ReferralOnTime
PROPERTIES
  ImplementsOrderBook
SYMMETRY Symmetry
\* The system may rest: no order is open and no handler runs.
CHECK_DEADLOCK FALSE
