CONSTANTS
    Traffic <- MCTraffic
    MaxChunk = 2
    MaxTraffic = 5
    BytesCap = 1
    FrameCap = 1
    Modulus = 3
    K_SENSOR = 128
    OtherKinds = {131}
    Cadence = 1
    Delays = {5, 9}
    MaxFrames = 5
SPECIFICATION ReceiverSpec
INVARIANTS
    CampaignFollowsPong EveryFrameAccounted StopsAtFirstEnd
    DetectionsExact DetectionsInOrder FlagHidesNoBurst RemembersLastMeasurement
PROPERTIES NothingLost EndIsReported
\* The process ends, no more traffic arrives, or no more frames.
CHECK_DEADLOCK FALSE
