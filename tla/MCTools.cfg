SPECIFICATION ToolsSpec
CONSTANTS
    Limit = 1
    MaxSize = 3
    Generators = {"a", "b"}
    Roots = {"trust", "trust2"}
    RootOf <- MCRootOf
    MaxFaults = 2
    PublicKeys = {"s", "t"}
    Runs = {"r1", "r2"}
    Lines = {"g1", "g2"}
    MaxEdits = 2
    Components = {"a", "b"}
    MaxEntries = 3
    RunIds = {"r1", "r2"}
    Results = {"x", "y"}
    MaxCases = 2
INVARIANTS
    WholeOutput OkMeansFinished KeysKept TrustedUsable FailureLeavesNoKey
    EvaluationIsSigned GradesExact PlainOverlapRefused EvidenceMatchesStatus
PROPERTIES Returns EventuallyKeyed
CHECK_DEADLOCK FALSE
