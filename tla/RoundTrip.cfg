CONSTANTS
    Configs <- MCConfigs
    Faults <- MCFaults
    Readings <- MCReadings
    Totals <- MCTotals
    MaxFrames = 2
    NoisyFrames = 1
    Masks = {}
SPECIFICATION Spec
INVARIANT RoundTrip
\* The sender stops after MaxFrames frames.
CHECK_DEADLOCK FALSE
