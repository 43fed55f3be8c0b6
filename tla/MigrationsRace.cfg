SPECIFICATION Spec
CONSTANTS
  Instances = {i1, i2}
  Files <- TwoFiles
  Ddl <- Schema
  PoolSize = 4
  Dialect = "postgres"
  Crashes = FALSE
  Breaks = FALSE
  NULL = NULL
INVARIANT NoRace
CHECK_DEADLOCK FALSE
