SPECIFICATION Spec
CONSTANTS
  p1 = p1
  p2 = p2
  p3 = p3
  c1 = c1
  c2 = c2
  Procs = {p1, p2, p3}
  Keys = {1, 2}
  Conns = {c1, c2}
  NoConn = NoConn
  MAX_POOLS = 1
  MaxInFlight = 2
SYMMETRY Interchangeable
CONSTRAINT SomeKeyClean
INVARIANTS
  CountsUsers
  NoLostConnection
PROPERTY
  SparesBusy
CHECK_DEADLOCK FALSE
