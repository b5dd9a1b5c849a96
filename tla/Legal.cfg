SPECIFICATION Spec
CONSTANTS
  Workers <- OneWorker
  MaxRows = 9
  MaxDebits = 2
  MaxAborts = 1
  w1 = w1
  w2 = w2
INVARIANTS
  TypeOK
  CaseByTheBook
  OneProceeding
  ClosedHasNoCase
CHECK_DEADLOCK FALSE
