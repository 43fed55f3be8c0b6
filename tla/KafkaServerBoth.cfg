SPECIFICATION Spec
CONSTANTS
  Consumers = {c1, c2, c3, c4}
  Tasks = {t1, t2}
  Modes <- BothModes
  ReviveOnRun = FALSE
  NULL = NULL
SYMMETRY Symm
INVARIANTS TypeOK OneConnector NoLeak
PROPERTIES NoCreateAfterStop
CHECK_DEADLOCK FALSE
