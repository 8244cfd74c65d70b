SPECIFICATION Spec
CONSTANTS
  alice = alice
  bob = bob
  p1 = p1
  p2 = p2
  p3 = p3
  Nobody = Nobody
  NoPopup = NoPopup
  Users = {alice, bob}
  Ids = {p1, p2, p3}
  PopupsFor <- MCPopupsFor
  Fetches = {1, 2}
  MaxGen = 4
  MaxTimers = 2
INVARIANTS
  SubscriptionsOfSession
  PopupNotStuck
PROPERTIES
  SubscriptionsNeverRegress
  PopupOnce
