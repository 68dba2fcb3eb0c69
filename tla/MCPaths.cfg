SPECIFICATION PathsSpec
CONSTANTS
    Components = {"a", "b"}
    MaxEntries = 3
INVARIANT OverlapRefused
CHECK_DEADLOCK FALSE
