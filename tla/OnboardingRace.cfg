SPECIFICATION Spec
CONSTANTS
  Workers = {w1, w2}
  Cashfree = TRUE
  MaxSubs = 1
  MaxDocs = 1
  MaxAborts = 0
SYMMETRY Symmetry
\* A lost update may leave an application that nothing can move.
CHECK_DEADLOCK FALSE
INVARIANTS
  MandateIsReal
  SignatureIsReal
  AgreementIsEarned
  PaidIsAuthorised
