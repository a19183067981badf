CONSTANTS
    Chunks <- OnlyStart
    MaxChunks = 1
    BytesCap = 64
    OutCap = 16
SPECIFICATION SimSpec
PROPERTY CampaignEnds
CHECK_DEADLOCK FALSE
