\* One server; d3 cannot be read; failing transactions and a crash.
SPECIFICATION FairSpec
CONSTANTS
  s1 = s1  s2 = s2
  d1 = d1  d2 = d2  d3 = d3
  u1 = u1  u2 = u2  u3 = u3  u4 = u4
  Server = {s1}
  Doc = {d1, d2, d3}
  Update = {u1, u2, u3, u4}
  DocOf <- DocOfFour
  Home <- AllAtS1
  Broken = {d3}
  MaxCrashes = 1
  MaxAborts = 1
INVARIANTS TypeOK CompactedIsMerged NeverMergedTwice
PROPERTIES RefinesUpdateLog BlobOnlyGrows EveryUpdateMerged
