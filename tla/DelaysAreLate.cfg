CONSTANTS
    K_SENSOR = 128
    Config <- MCConfig
    Jitters = {0}
    MaxSpoiled = 0
SPECIFICATION Spec
INVARIANT DelaysAreLate
\* The campaign is over after its END.
CHECK_DEADLOCK FALSE
