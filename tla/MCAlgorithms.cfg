SPECIFICATION AlgSpec
CONSTANTS
    RecordKinds <- MCRecordKinds
    Correspondence = {"covered"}
    MaxLog = 3
    Keys <- MCKeys
    Scalars <- MCScalars
    MaxTokens = 7
    MaxNumbered = 4
    maxSafeInteger = 11
    maxManifestStringBytes = 3
    maxManifestObjectFields = 2
    maxManifestArrayItems = 2
    maxManifestNestingDepth = 2
    Payloads = {"p", "q"}
    MaxLeaves = 5
    MaxTampers = 1
    Contents <- MCContents
    Inputs <- MCInputs
    Verdicts = {"allow", "block", "defer"}
    MaxActivities = 2
INVARIANTS OrderFree WorstCaseKept LimitsExact Unambiguous CanonicalForm InclusionExact ReplayExact
CHECK_DEADLOCK FALSE
