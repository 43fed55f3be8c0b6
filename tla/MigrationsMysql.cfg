SPECIFICATION Spec
CONSTANTS
  Instances = {i1, i2}
  Files <- OneFile
  Ddl <- Schema
  PoolSize = 3
  Dialect = "mysql"
  Crashes = TRUE
  Breaks = TRUE
  NULL = NULL
SYMMETRY Symm
INVARIANTS RecordedOnce RecordedIsApplied
CHECK_DEADLOCK FALSE
