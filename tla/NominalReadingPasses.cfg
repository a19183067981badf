CONSTANTS
    BaseDepths = {512, 2048}
    Depths = {512, 6000, 98304}
    TestWords <- MCTestWords
    VrefCounts <- MCVrefCounts
SPECIFICATION BootSpec
INVARIANT NominalReadingPasses
\* The firmware may halt, by intention or in a fault.
CHECK_DEADLOCK FALSE
