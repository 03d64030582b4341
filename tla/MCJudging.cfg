CONSTANTS
  Sub = {s1, s2}
  NumGroups = 2
  NumTests <- MCNumTests
  Points <- MCPoints
  Outcomes = {"CORRECT", "WRONG_ANSWER"}
  Faults = {"thrift", "std", "crash"}
  Host = {h1, h2}
SPECIFICATION Spec
SYMMETRY MCSymmetry
INVARIANTS
  TypeOK
  MissingCounts
  ReadyIsComplete
  ScoreIsEarned
PROPERTIES
  FollowsLifecycle
