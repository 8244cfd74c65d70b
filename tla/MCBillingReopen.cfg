SPECIFICATION Spec
CONSTANTS
  u1 = u1
  u2 = u2
  r1 = r1
  r2 = r2
  r3 = r3
  k1 = k1
  Users = {u1, u2}
  Requests = {r1, r2, r3}
  Fulfilments = {}
  TopUps = {}
  UserOf <- MCUserOf
  InitialBalance <- MCBalance
  Estimate = 1
  Costs = {1, 2}
  CreditAmount = 2
  FailureThreshold = 1
  Faults = {"db"}
  NoRow = NoRow
INVARIANTS
  NeverOvercharged
SYMMETRY Alike
