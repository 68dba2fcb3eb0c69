SPECIFICATION FairSpec
CONSTANTS
    Emitters = {e1, e2}
    Evaluated = {"artifact"}
    Others = {"specification"}
    Copied = {"artifact", "specification"}
    Disturbances <- MCRaceDisturbances
INVARIANTS PublishedWhole
PROPERTIES EventuallyPublished Published
CHECK_DEADLOCK FALSE
