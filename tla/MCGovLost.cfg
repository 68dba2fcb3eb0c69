SPECIFICATION Spec
CONSTANTS
    RecordKinds <- MCRecordKinds
    Correspondence = {"covered"}
    MaxLog = 2
INVARIANTS UnrecoveredUnassessable
CHECK_DEADLOCK FALSE
