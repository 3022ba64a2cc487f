SPECIFICATION Spec
CONSTANTS
  Ops <- MCReconfigureOps
  MaxSubmissions = 2
  MaxWakes = 1
  MaxSessions = 2
  MaxExtraTurns = 0
  MaxPendingCompacts = 1
INVARIANT WakesConserved
PROPERTY SlotRefined
CHECK_DEADLOCK FALSE
