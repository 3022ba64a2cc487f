SPECIFICATION Spec
CONSTANTS
  Ops <- MCReviewOps
  MaxSubmissions = 3
  MaxWakes = 0
  MaxSessions = 1
  MaxExtraTurns = 0
  MaxPendingCompacts = 1
PROPERTY ReviewExits
CHECK_DEADLOCK FALSE
