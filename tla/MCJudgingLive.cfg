CONSTANTS
  Sub = {s1}
  NumGroups = 3
  NumTests <- MCNumTests
  Points <- MCPoints
  Outcomes = {"CORRECT", "RUNTIME_ERROR"}
  Faults = {"thrift"}
  Host = {h1, h2}
SPECIFICATION FairSpec
INVARIANTS
  ReadyMeansJudged
PROPERTIES
  EventuallyJudged
CHECK_DEADLOCK FALSE
