CONSTANTS
    Byte = {0, 1, 2, 3, 4}
    SYNC = 3
    MAX_PAYLOAD = 2
    MaxBytes = 7
    crc8 <- MCcrc8
    Chunks <- MCChunks
    MaxChunks = 4
    BytesCap = 2
    OutCap = 2
SPECIFICATION SimulatorSpec
INVARIANTS
    BufferShape HoldsTail
    NumbersInOrder NoticeFollowsItsFrames EndIsTrue
PROPERTIES SplitsItsInput ReturnsToRecv
\* The bytes end after MaxBytes; the host may stop sending.
CHECK_DEADLOCK FALSE
