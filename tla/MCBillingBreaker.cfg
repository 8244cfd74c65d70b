SPECIFICATION FairSpec
CONSTANTS
  u1 = u1
  u2 = u2
  r1 = r1
  r2 = r2
  r3 = r3
  k1 = k1
  Users = {u1, u2}
  Requests = {r1, r2, r3}
  Fulfilments = {k1}
  TopUps = {}
  UserOf <- MCUserOf
  InitialBalance <- MCBalance
  Estimate = 1
  Costs = {1}
  CreditAmount = 2
  FailureThreshold = 2
  Faults = {"db", "kill"}
  NoRow = NoRow
INVARIANTS
  BreakerConsistent
  ChargesAccounted
PROPERTIES
  OnlyRepeatsTake
  ChargesReachDB
  BreakerRecovers
