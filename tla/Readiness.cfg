SPECIFICATION Spec
CONSTANTS
  c1 = c1
  c2 = c2
  w1 = w1
  w2 = w2
  Callers <- MCCallers
  Waiters <- MCWaiters
  TokenSpan = 4
INVARIANTS TypeOK NoTokenOnceReady SingleAuthoriser
PROPERTY RegisteredWaiterWakes
CHECK_DEADLOCK FALSE
