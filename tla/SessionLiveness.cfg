SPECIFICATION Spec
CONSTANTS
  Ops <- MCLivenessOps
  MaxSubmissions = 2
  MaxWakes = 0
  MaxSessions = 1
  MaxExtraTurns = 1
  MaxPendingCompacts = 1
PROPERTIES InterruptStops TurnEnds
CHECK_DEADLOCK FALSE
