CONSTANTS
  Sub = {s1}
  NumGroups = 2
  NumTests <- MCNumTests
  Points <- MCPoints
  Outcomes = {"CORRECT"}
  Faults = {"thrift"}
  Host = {h1, h2}
SPECIFICATION Spec
INVARIANTS
  NoUpdateLost
CHECK_DEADLOCK FALSE
