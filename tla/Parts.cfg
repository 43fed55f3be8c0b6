SPECIFICATION PartsSpec
CONSTANTS
  Part = {"kafkaClient", "rabbitMqClient", "clientRequest", "redisCache", "onMethod", "messages", "incomingRequest", "contextHops", "metrics", "webSocketGateway", "migrations"}
  Requests = {r1, r2}
  Producers = {p1, p2}
  None = None
  Calls = {c1, c2}
  Topics = {t1}
  Users = {u1, u2}
  Sockets = {s1, s2, s3}
  Readers = {d1, d2}
  Instances = {i1, i2}
  NULL = NULL
  Undefined = Undefined
  DefaultMaxCount = 5
  DefaultTimeout = 7
  MaxAttempts = 7
  Modes = {"each", "batch", "rabbit"}
  MaxBatch = 2
  Incoming = {"request"}
  Transports = {"http", "grpc", "ws"}
  Decorators <- SomeDecorators
  Carriers = {"http", "grpc", "kafka", "rabbit"}
  MaxHops = 3
INVARIANTS PartsTypeOK OneProducer RetriesUsedUp TimersStop CallIsTold ContextIsOwn AnsweredOrCounted
  ToldOnce GatewayAgrees
PROPERTIES AllRequestsSettle ComesBack FailuresInContext StalenessEnds StartsEnd AllApplied
CHECK_DEADLOCK FALSE
