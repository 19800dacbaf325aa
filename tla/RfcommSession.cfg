SPECIFICATION FairSpec
CONSTANTS
    Foreign = {TRUE, FALSE}
    Grant = 1
    Low = 0
    RingSize = 2
    Width = 4
    MaxFrame = 2
    MaxBytes <- McBytes
    ReadSizes = {2}
    MaxGrants = 1
INVARIANTS
    TypeOK
    NoSleepOnData
    ChannelAgrees
PROPERTIES
    StreamIsFifo
    PeerRegainsCredits
CHECK_DEADLOCK FALSE
