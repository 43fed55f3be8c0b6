SPECIFICATION Spec
CONSTANTS
  Consumers = {c1, c2, c3}
  Tasks = {t1, t2}
  Modes <- EachOnly
  ReviveOnRun = FALSE
  NULL = NULL
INVARIANT ClosedMeansQuiet
CHECK_DEADLOCK FALSE
