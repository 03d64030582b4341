CONSTANTS
  Run = {r1, r2}
  Image = {i}
  Ptrace = Ptrace
  None = None
SPECIFICATION FairSpec
INVARIANTS
  TypeOK
  RunsAreSeparate
  NothingLeftBehind
  CacheAgreesWithDocker
PROPERTIES
  EveryRunEnds
CHECK_DEADLOCK FALSE
