SPECIFICATION Spec
CONSTANTS
  Instances = {i1, i2}
  Files <- TwoFiles
  Ddl <- Schema
  PoolSize = 4
  Dialect = "postgres"
  Crashes = TRUE
  Breaks = TRUE
  NULL = NULL
INVARIANTS TypeOK SuccessMeansRecorded NothingLeft
SYMMETRY Symm
CHECK_DEADLOCK FALSE
