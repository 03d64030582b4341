CONSTANTS
  Token = {a, b}
  File <- MCFile
  NoToken = NoToken
  Limit = 3
  Timeout = 4
  EvaluatorTimeout = 2
  MaxTime = 6
SPECIFICATION FairSpec
INVARIANTS
  TypeOK
  AcceptsExactly
  CorrectIsEarned
  BlameIsDeserved
  CutIsTimeLimit
PROPERTIES
  EventuallyJudged
CHECK_DEADLOCK FALSE
