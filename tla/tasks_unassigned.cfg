\* Is the task of an assignee without access stored?
SPECIFICATION Spec
CONSTANTS
  r1 = r1  r2 = r2  r3 = r3  alice = alice
  Request = {r1, r2, r3}
  User = {alice}
  AssigneeID <- ForAliceTwice
  Empty = Empty
  NoTask = NoTask
  MaxOpen = 2
  MaxChanges = 3
  MaxFailures = 2
INVARIANTS UnassignedPersists
CHECK_DEADLOCK FALSE
