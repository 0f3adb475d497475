\* Alice edits from one of two connections while bob assigns a task.
SPECIFICATION FairSpec
CONSTANTS
  c1 = c1  c2 = c2
  alice = alice  bob = bob
  d1 = d1  d2 = d2
  Conn = {c1, c2}
  User = {alice, bob}
  Doc = {d1, d2}
  UserOf <- TabsUserOf
  DocOf <- EachInOne
  None = None
  Blob = Blob
  RegisterCap = 1
  UnregisterCap = 1
  BroadcastCap = 1
  SendCap = 1
  MaxFrames <- TabsFrames
  MaxTasks <- OneTask
INVARIANTS TypeOK HubDiscipline PanicNeedsOverlap NoDeafConnection
PROPERTIES RefinesRoom EveryConnectionEnds QueuedIsDelivered
CHECK_DEADLOCK FALSE
