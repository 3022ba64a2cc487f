SPECIFICATION Spec
CONSTANTS
    r1 = r1
    r2 = r2
    r3 = r3
    m1 = m1
    Runs <- TwoRuns
    Procs <- TwoRuns
    Pid <- MCPid
    PidsReturn <- TwoRuns
    Mutators = {m1}
    MaxReReviews = 1
    MaxEpoch = 2
    NoFile = NoFile
SYMMETRY Symmetry
INVARIANTS
    TypeOK
    OneHolder
PROPERTIES
    FollowupIsCurrent
CHECK_DEADLOCK FALSE
