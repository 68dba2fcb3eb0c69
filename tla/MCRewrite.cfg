SPECIFICATION Spec
CONSTANTS
    Logs <- MCLogs
    RecorderKey <- MCRecorderKey
    LogKey = "logkey"
    CpKey = "cpkey"
    SpareKey = "spare"
    Events <- MCEvents
    Covered = {}
    Flows = {}
    NonceOf <- MCNonceOf
    Plans <- MCPlans
    Sessions = {}
    BodyForms = {"valid", "unknown field"}
    HMax = 1
    HTol = 0
    CanLeak = {{}, {"key1"}}
    EditKinds <- MCEditKinds
    MinRecords = 3
    MaxTime = 2
    MaxRecords = 4
    MaxLeaves = 0
    MaxStatements = 0
    MaxEdits = 2
INVARIANTS
    HonestVerdict
    AuthenticPrefix
    WholeRun
    SilenceEvident
CHECK_DEADLOCK FALSE
