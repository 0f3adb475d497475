\* Counters, flusher, a request, shutdown, crashes and restarts.
SPECIFICATION FairSpec
CONSTANTS
  d1 = d1  r1 = r1  alice = alice  bob = bob
  Doc = {d1}
  User = {alice, bob}
  Reader = {r1}
  Wants <- AllWantD1
  Columns <- AllColumns
  MaxEdits <- TwoAndOne
  MaxSecs <- OneAndNone
INVARIANTS TypeOK EditsAccounted ReportNeverOvercounts
PROPERTIES EveryEditSaved
