SPECIFICATION FairSpec
CONSTANTS
  None = None
  r1 = r1
  r2 = r2
  r3 = r3
  r4 = r4
  k1 = k1
  k2 = k2
  k3 = k3
  Requests = {r1, r2, r3, r4}
  Keys = {k1, k2, k3}
  KeyOf <- Keyed
  MaxItems = 2
  MaxPanics = 1
INVARIANTS
  OrderMatchesItems
PROPERTIES
  EvictsOldestWhenFull
  Refines
  EveryRequestIsAnswered
