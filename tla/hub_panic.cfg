\* Alice opens two connections while bob assigns tasks; smallest channels.
SPECIFICATION Spec
CONSTANTS
  c1 = c1  c2 = c2
  alice = alice  bob = bob
  d1 = d1  d2 = d2
  Conn = {c1, c2}
  User = {alice, bob}
  Doc = {d1}
  UserOf <- TabsUserOf
  DocOf <- BothInD1
  None = None
  Blob = Blob
  RegisterCap = 1
  UnregisterCap = 1
  BroadcastCap = 1
  SendCap = 1
  MaxFrames <- TabsFrames
  MaxTasks <- OneTask
INVARIANTS RunsForever
CHECK_DEADLOCK FALSE
