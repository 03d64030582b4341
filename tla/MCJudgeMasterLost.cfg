CONSTANTS
  Task = {t1, t2}
  Host = {1}
SPECIFICATION FairSpec
PROPERTIES
  NoLostWakeup
