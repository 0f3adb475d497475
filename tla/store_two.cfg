\* Two servers, each with its compactor, on one document.
SPECIFICATION Spec
CONSTANTS
  s1 = s1  s2 = s2
  d1 = d1  d2 = d2  d3 = d3
  u1 = u1  u2 = u2  u3 = u3  u4 = u4
  Server = {s1, s2}
  Doc = {d1}
  Update = {u1, u2, u3}
  DocOf <- DocOfThree
  Home <- AtBoth
  Broken = {}
  MaxCrashes = 0
  MaxAborts = 0
INVARIANTS MarkedIsMerged
