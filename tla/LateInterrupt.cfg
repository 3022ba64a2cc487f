SPECIFICATION Spec
CONSTANTS
  Ops <- MCInterruptOps
  MaxSubmissions = 3
  MaxWakes = 0
  MaxSessions = 1
  MaxExtraTurns = 0
  MaxPendingCompacts = 1
PROPERTIES FreshTaskSurvivesInterrupt
CHECK_DEADLOCK FALSE
