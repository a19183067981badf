CONSTANTS
    K_SENSOR = 128
    Config <- MCConfig
    Jitters = {0, 19, 20}
    MaxSpoiled = 2
SPECIFICATION Spec
INVARIANTS ReplaysExact ReplaysAreInjected DropsAreCovered TruthsAreTrue LatesHaveACause
\* The campaign is over after its END.
CHECK_DEADLOCK FALSE
