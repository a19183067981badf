CONSTANTS
    BaseDepths = {512, 2048}
    Depths = {512, 6000, 98304}
    TestWords <- MCTestWords
    VrefCounts <- MCVrefCounts
    Commands <- MCCommands
    ChannelCap = 2
    TooLong = {2}
    MaxPackets = 4
    MaxCommands = 3
    MaxUnplugs = 2
    Capacity = 2
    WordMod = 800
    Counts = {0, 4095}
    MaxCount = 3
    MaxReads = 4
SPECIFICATION FirmwareSpec
INVARIANTS
    NoFalseAlarm CodeNamesFirstFailure
    GapsOnlyAcrossUnplug TwoLossesPerUnplug
    SamplesTraceable OverScaleOnlyOdd
PROPERTIES DeliversInOrder UnplugNoticed CommandServesQueue
\* The firmware may halt, the host may stop sending, and the reads end.
CHECK_DEADLOCK FALSE
