SPECIFICATION Spec
CONSTANTS
  Workers = {w1, w2}
  Cashfree = TRUE
  MaxSubs = 1
  MaxDocs = 1
  MaxAborts = 0
SYMMETRY Symmetry
CHECK_DEADLOCK FALSE
INVARIANTS
  RejectedIsUnsigned
