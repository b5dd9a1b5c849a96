SPECIFICATION Spec
CONSTANTS
  NumEmis = 2
  EmiAmount <- Ones
  FullEmis <- LastFull
  Payments <- TwoPayments
  PayEmi <- Full_Emi
  PayAmount <- Full_Amount
  PaySource <- Full_Source
  Workers <- TwoWorkers
  MaxRows = 3
  MaxLosses = 1
  MaxAborts = 0
  NoTran = NoTran
  p1 = p1
  p2 = p2
  p3 = p3
  w1 = w1
  w2 = w2
INVARIANTS
  OneRefundPerEmi
  BooksAreTrue
PROPERTIES
  ImplementsRefundOnce
CHECK_DEADLOCK FALSE
