CONSTANTS
    Configs <- MCConfigs
    Faults <- MCFaults
    Readings <- MCReadings
    Totals <- MCTotals
    MaxFrames = 2
    NoisyFrames = 1
    Masks = {1, 2, 4, 8, 16, 32, 64, 128, 255, 126, 129}
    Modulus = 16
    TruthLists <- MCTruths
    DetectionLists <- MCDetections
    Cadences = {0, 5}
SPECIFICATION EndsSpec
INVARIANTS
    DamageShowsInCrc FieldsSurvive ReadsKind InStep
    EachDetectionOnce GreedyIsComplete MissedWereTaken EveryFaultCounted
\* The sender stops after MaxFrames frames; the scorer is done after its passes.
CHECK_DEADLOCK FALSE
