SPECIFICATION FairSpec
CONSTANTS
    Jobs = {j1, j2}
    NoJob = NoJob
INVARIANTS
    TypeOK
    OwnOutput
    RunningIsReachable
    SuppressedForItsCall
    UnheardIsKept
PROPERTIES
    KilledStaysKilled
    CallsEnd
    EndIsHeard
CHECK_DEADLOCK FALSE
