\* Alice edits d1 while bob joins it.
SPECIFICATION SyncSpec
CONSTANTS
  c1 = c1  c2 = c2
  alice = alice  bob = bob
  d1 = d1  d2 = d2
  Conn = {c1, c2}
  User = {alice, bob}
  Doc = {d1}
  UserOf <- PeersUserOf
  DocOf <- BothInD1
  None = None
  Blob = Blob
  NotLoaded = NotLoaded
  RegisterCap = 1
  UnregisterCap = 1
  BroadcastCap = 1
  SendCap = 1
  MaxFrames <- TwoFrames
  MaxTasks <- NoTasks
INVARIANTS SyncTypeOK GapsAreExplained
CHECK_DEADLOCK FALSE
