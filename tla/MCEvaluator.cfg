CONSTANTS
  Source = {s1, s2}
  None = None
  Importer = i
  Request = {i, e1, e2}
  Host = {h1, h2}
  Crashes = TRUE
SPECIFICATION FairSpec
INVARIANTS
  TypeOK
  StaleMeansPending
PROPERTIES
  EvaluatorSettles
