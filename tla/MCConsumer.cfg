SPECIFICATION ConsumerSpec
CONSTANTS
    Emitters = {e1}
    Evaluated <- MCEvaluated
    Others <- MCOthers
    Copied <- MCCopied
    Disturbances <- MCDisturbances
INVARIANTS SignedIsEvaluated AcceptedIsEvaluated
CHECK_DEADLOCK FALSE
