CONSTANTS
    Configs = {}
    Faults = {}
    Readings <- MCReadings
    Totals = {}
    MaxFrames = 1
    NoisyFrames = 0
    Masks = {}
    Bursts <- MCBursts
SPECIFICATION ResyncSpec
INVARIANT ResyncsAfterGarbage
\* There is one frame only.
CHECK_DEADLOCK FALSE
