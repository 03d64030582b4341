CONSTANTS
  Task = {t1, t2, t3}
  Host = {1, 2, 3}
SPECIFICATION FairSpec
INVARIANTS
  TypeOK
  ConnectionExclusive
  UsedIsExact
  TaskOwnedOnce
PROPERTIES
  DispatchLeavesNothingRunnable
  ImplementsTaskPool
  StartsWhenWoken
