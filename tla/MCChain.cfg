SPECIFICATION Spec
CONSTANTS
    Logs <- MCLogs
    RecorderKey <- MCRecorderKey
    LogKey = "logkey"
    CpKey = "cpkey"
    SpareKey = "spare"
    Events <- MCEvents
    Covered = {"net"}
    Flows = {}
    NonceOf <- MCNonceOf
    Plans <- MCPlans
    Sessions = {}
    BodyForms = {"valid"}
    HMax = 1
    HTol = 0
    CanLeak = {{}, {"spare"}, {"key1", "spare"}}
    EditKinds <- MCEditKinds
    MinRecords = 0
    MaxTime = 0
    MaxRecords = 4
    MaxLeaves = 0
    MaxStatements = 0
    MaxEdits = 1
INVARIANTS
    AuthenticPrefix
    OmissionEvident
    CleanExit
    TypeOK
    IndInv
CHECK_DEADLOCK FALSE
