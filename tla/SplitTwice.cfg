SPECIFICATION Spec
CONSTANTS
  NumEmis = 2
  Pays <- TwoPays
  Workers <- TwoWorkers
  PI = 1
  Ecs = 1
  Kinds <- DebitOnly
  Jobs <- DuesOnly
  MaxAborts = 0
  MaxCount = 2
  p1 = p1
  p2 = p2
  w1 = w1
  w2 = w2
INVARIANTS
  NeverOverbooked
SYMMETRY Symmetry
\* The system may rest: no order is open and no handler runs.
CHECK_DEADLOCK FALSE
