\* A call while the hub changes the map.
SPECIFICATION Spec
CONSTANTS
  d1 = d1  r1 = r1
  User = {alice, bob, carol}
  Doc = {d1, d2}
  Call = {r1}
  Asks <- AllAskD1
  None = None
  Unset = Unset
  MaxChanges = 6
SYMMETRY AnyUser
INVARIANTS TypeOK ListedIsBounded CountedOnce AbortNeedsChurn
CHECK_DEADLOCK FALSE
