SPECIFICATION FairSpec
CONSTANTS
  alice = alice
  bob = bob
  c1 = c1
  c2 = c2
  Nobody = Nobody
  Users = {alice, bob}
  Calls = {c1, c2}
INVARIANTS
  SingleFlight
  QuietLogoutClears
  OneSession
PROPERTIES
  ImplementsRefreshGate
  EveryWaitEnds
