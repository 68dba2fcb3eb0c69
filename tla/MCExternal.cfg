SPECIFICATION Spec
CONSTANTS
    Logs <- MCLogs
    RecorderKey <- MCRecorderKey
    LogKey = "logkey"
    CpKey = "cpkey"
    SpareKey = "spare"
    Events <- MCEvents
    Covered = {"file"}
    Flows = {"net"}
    NonceOf <- MCNonceOf
    Plans <- MCPlans
    Sessions <- MCSessions
    BodyForms = {"valid"}
    HMax = 1
    HTol = 0
    CanLeak = {{}, {"key1", "key2"}}
    EditKinds <- MCEditKinds
    MinRecords = 4
    MaxTime = 0
    MaxRecords = 4
    MaxLeaves = 2
    MaxStatements = 1
    MaxEdits = 2
INVARIANTS
    AnchoredHistory
    MissingKeyUndecided
    ConfirmedDeliveries
    HistoryInv
CHECK_DEADLOCK FALSE
