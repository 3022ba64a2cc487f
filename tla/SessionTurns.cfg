SPECIFICATION Spec
CONSTANTS
  Ops <- MCTurnOps
  MaxSubmissions = 3
  MaxWakes = 0
  MaxSessions = 1
  MaxExtraTurns = 1
  MaxPendingCompacts = 1
INVARIANTS TypeOK NoOrphan QueuedOnce
CHECK_DEADLOCK FALSE
