SPECIFICATION Spec
CONSTANTS
    Jobs = {j1, j2}
    NoJob = NoJob
INVARIANTS
    InterruptStopsCommand
CHECK_DEADLOCK FALSE
