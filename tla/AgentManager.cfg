SPECIFICATION Spec
CONSTANTS
    a1 = a1
    a2 = a2
    b1 = b1
    A = A
    B = B
    s1 = s1
    s2 = s2
    Agents = {a1, a2, b1}
    Batches = {A, B}
    BatchOf <- MCBatchOf
    Sessions = {s1, s2}
    NoSession = NoSession
    MaxTracked = 2
    MaxStatus = 1
    MaxWakes = 1
    MaxQueue = 1
SYMMETRY Symmetry
CONSTRAINT Explored
INVARIANTS
    TypeOK
    ActiveCanBeStopped
    Announced
    NoEarlyWake
    NothingSkipped
PROPERTIES
    OutcomeStays
CHECK_DEADLOCK FALSE
