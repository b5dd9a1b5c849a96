SPECIFICATION FairSpec
CONSTANTS
  NumEmis = 2
  EmiAmount <- Ones
  FullEmis <- NoneFull
  Payments <- ThreePayments
  PayEmi <- Mixed_Emi
  PayAmount <- Mixed_Amount
  PaySource <- Mixed_Source
  Workers <- OneWorker
  MaxRows = 3
  MaxLosses = 0
  MaxAborts = 1
  NoTran = NoTran
  p1 = p1
  p2 = p2
  p3 = p3
  w1 = w1
  w2 = w2
INVARIANTS
  TypeOK
  MoneyHasRow
PROPERTIES
  NeverOverRefunded
  AllocationSound
  PendingSettles
CHECK_DEADLOCK FALSE
