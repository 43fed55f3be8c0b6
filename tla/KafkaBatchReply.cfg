SPECIFICATION PartsSpec
CONSTANTS
  Part = {"messages"}
  Requests = {r1, r2}
  Producers = {p1, p2}
  None = None
  Calls = {c1}
  Topics = {t1, t2}
  Users = {u1, u2}
  Sockets = {s1, s2, s3}
  Readers = {d1, d2}
  Instances = {i1, i2}
  NULL = NULL
  Undefined = Undefined
  DefaultMaxCount = 5
  DefaultTimeout = 7
  MaxAttempts = 7
  Modes = {"each", "batch", "rabbit"}
  MaxBatch = 2
  Incoming = {"request"}
  Transports = {"http", "grpc", "ws"}
  Decorators <- SomeDecorators
  Carriers = {"http", "grpc", "kafka", "rabbit"}
  MaxHops = 3
INVARIANT AnswersOwnRequest
CHECK_DEADLOCK FALSE
