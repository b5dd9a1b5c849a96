SPECIFICATION Spec
CONSTANTS
  Workers = {w1}
  Cashfree = FALSE
  MaxSubs = 2
  MaxDocs = 2
  MaxAborts = 1
\* A handler that dies may leave an application that nothing can move.
CHECK_DEADLOCK FALSE
INVARIANTS
  TypeOK
  MasterAgrees
  PayableIsOrdered
PROPERTIES
  FollowsTheApplication
