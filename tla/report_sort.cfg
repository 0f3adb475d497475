\* Three users, every combination of rows and counters of up to three bytes.
SPECIFICATION Spec
CONSTANTS
  alice = alice  bob = bob  carol = carol
  User <- Team
  MaxBytes = 3
SYMMETRY Interchangeable
INVARIANTS TypeOK RanksFinal SortedWhenDone ListsEveryoneOnce
\* The sort ends.
CHECK_DEADLOCK FALSE
