\* The same system.
SPECIFICATION Spec
CONSTANTS
  d1 = d1  r1 = r1
  User = {alice, bob, carol}
  Doc = {d1, d2}
  Call = {r1}
  Asks <- AllAskD1
  None = None
  Unset = Unset
  MaxChanges = 6
INVARIANTS RangesAreSafe
CHECK_DEADLOCK FALSE
