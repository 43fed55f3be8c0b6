SPECIFICATION FairSpec
CONSTANTS
  Consumers = {c1, c2, c3}
  Tasks = {t1, t2}
  Modes <- EachOnly
  ReviveOnRun = TRUE
  NULL = NULL
INVARIANTS SettledMeansServing HealthTellsCrash
PROPERTIES Recovers CloseEnds
CHECK_DEADLOCK FALSE
