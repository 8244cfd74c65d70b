SPECIFICATION FairSpec
CONSTANTS
  c1 = c1
  c2 = c2
  c3 = c3
  c4 = c4
  Calls = {c1, c2, c3, c4}
  KindsOf <- MCKindsOf
  MaxExits = 1
  Nobody = Nobody
INVARIANTS
  LateIsCaught
  DecidedOnOwnFacts
PROPERTY
  CallEnds
CHECK_DEADLOCK FALSE
