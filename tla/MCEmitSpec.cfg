SPECIFICATION Spec
CONSTANTS
    Emitters = {e1}
    Evaluated = {"artifact"}
    Others = {"specification"}
    Copied = {"artifact", "specification"}
    Disturbances <- MCSpecDisturbances
INVARIANTS SpecBound
CHECK_DEADLOCK FALSE
