\* Two tasks for alice and one for nobody, over two database connections.
SPECIFICATION FairSpec
CONSTANTS
  r1 = r1  r2 = r2  r3 = r3  alice = alice
  Request = {r1, r2, r3}
  User = {alice}
  AssigneeID <- ForAliceTwice
  Empty = Empty
  NoTask = NoTask
  MaxOpen = 2
  MaxChanges = 3
  MaxFailures = 2
INVARIANTS TypeOK AssigneeHadAccess OnlyStoredTasksAreTold AnswersAreTrue
PROPERTIES EveryRequestAnswered
CHECK_DEADLOCK FALSE
