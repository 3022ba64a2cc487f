\* Two launches of Auto Drive, with countdowns, restarts, reviews and late events.
CONSTANTS
    MaxLaunches = 2
    MaxSeq = 1
    MaxAttempts = 1
    MaxCountdowns = 2
    MaxTimers = 2
    MaxTurns = 2
    MaxEvents = 2
    MaxQueue = 1
SPECIFICATION Spec
CONSTRAINT Explored
CHECK_DEADLOCK FALSE
INVARIANTS TypeOK OwnCountdown TimersArmed SomeoneActs OnePromptAtATime
