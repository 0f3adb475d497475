\* Alice edits twice, and one PUBLISH is not answered.
SPECIFICATION Spec
CONSTANTS
  s1 = s1  s2 = s2
  c1 = c1  c2 = c2  c3 = c3
  alice = alice  bob = bob  carol = carol  d1 = d1
  Server = {s1, s2}
  Conn = {c1, c2, c3}
  User = {alice, bob, carol}
  Doc = {d1}
  Home <- ThreeHomes
  UserOf <- ThreeUsers
  DocOf <- OneDoc
  BroadcastCap = 1
  MaxFrames <- AliceEdits
  MaxTimeouts = 1
INVARIANTS TypeOK OnlyToOthersOnTheDocument CopiesAreBounded BridgeKeepsOrder EchoesComeSecond
CHECK_DEADLOCK FALSE
