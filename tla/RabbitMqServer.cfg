SPECIFICATION FairSpec
CONSTANTS
  p1 = p1
  p2 = p2
  m1 = m1
  m2 = m2
  Patterns = {p1, p2}
  Messages = {m1, m2}
  QueueOf <- OneQueue
  Runs = {r1, r2}
  MaxAttempts = 1
  NoAck = FALSE
  NULL = NULL
INVARIANTS TypeOK AnswerIsOwed ClosedMeansQuiet HealthTellsLoss
PROPERTIES AllHandled StartEnds
CHECK_DEADLOCK FALSE
