SPECIFICATION LiveSpec
CONSTANTS
    w1 = w1
    w3 = w3
    a1 = a1
    a2 = a2
    a3 = a3
    Works <- MCWorks
    Custom <- MCCustom
    Accounts <- MCAccounts
    ChatGpt <- MCChatGpt
    InvalidAuth = {a2}
    MaxRetries = 1
    AutoSwitch = TRUE
    ApiKeyFallback = TRUE
    SparkModel = TRUE
    LargerModel = TRUE
    Failures <- AllFailures
    PinnedAtStart = {FALSE}
    LimitedAtStart = {a1}
    MaxOutages = 1
    MaxForgets = 1
    NoScratch = NoScratch
INVARIANTS
    TypeOK
    ProgressKept
    RecordedStaysKnown
    OutputsHaveCalls
PROPERTIES
    ApiKeyOnlyIfAllLimited
    TurnEnds
CHECK_DEADLOCK FALSE
