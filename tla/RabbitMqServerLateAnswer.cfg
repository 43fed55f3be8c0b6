SPECIFICATION Spec
CONSTANTS
  p1 = p1
  p2 = p2
  m1 = m1
  m2 = m2
  Patterns = {p1, p2}
  Messages = {m1, m2}
  QueueOf <- OneQueue
  Runs = {r1, r2}
  MaxAttempts <- NoLimit
  NoAck = FALSE
  NULL = NULL
INVARIANT NoUnhandledRejection
CHECK_DEADLOCK FALSE
