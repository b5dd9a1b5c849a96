SPECIFICATION Spec
CONSTANTS
  a = a
  b = b
  c = c
  w1 = w1
  w2 = w2
  NoUser = NoUser
  Users <- ThreeUsers
  Workers <- TwoWorkers
  Veterans <- OneVeteran
  MinAmount = 2
  MaxReferrals = 2
  MaxRewards = 2
  MaxPayouts = 2
  MaxAborts = 1
SYMMETRY Symmetry
CHECK_DEADLOCK FALSE
INVARIANTS
  TypeOK
  WalletIsEarned
  WalletAgrees
  PayoutsAreCovered
