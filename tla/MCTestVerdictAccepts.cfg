CONSTANTS
  Token = {a}
  File <- MCFile
  NoToken = NoToken
  Limit = 3
  Timeout = 4
  EvaluatorTimeout = 2
  MaxTime = 5
SPECIFICATION Spec
INVARIANTS
  AcceptsOnlyEqual
CHECK_DEADLOCK FALSE
