CONSTANTS
    t1 = t1
    t2 = t2
    Callers = {t1, t2}
    Dongles <- MCDongles
    Disk <- MCDisk
    MaxDdc = 1
    Slots = 2
    Attempts = 3
    Drained = 2
    Skips = 1
    Plans <- MCPlans
    Top = 5
    Services <- MCServices
    Chars <- MCChars
    Descriptors <- MCDescriptors
    MaxFound = 2
    PerAnswer = 1
    Bits = 2
    MaxQueue = 1
    Seps <- MCSeps
    SeqLimit = 4
    PacketRoom = 2
    RingSize = 3
    PerPacket = 2
    MaxCalls = 4
    MaxTrouble = 2
    MaxAudio = 2
    MaxConnects = 2
    MaxCommands = 2
    Programs = {"c1"}
    Vendors = {"c2"}
    BufferSize = 672
    Retries = 2
    Patterns <- MCPatterns
    MaxQueries = 2
    Handles = 2
    MaxDials = 2
    Objects <- MCObjects
    Folder = 3
    PartSize = 2
    BufferRoom = 4096
    RemoteMax = {100, 300}
    FrameMax = 127
    MaxTransfers = 2
    Opened = {9, 18}
    MaxAtCalls = 2
    MaxNews = 1
    MaxSaid = 2
    MaxListens = 2
SPECIFICATION Spec
INVARIANTS
    TypeOK
    FirmwareIsWhole
    FoundIsThere
    PairedMeansEveryBit
    
    StreamAgrees
    PlayedInOrder
    LookupIsRight
    TransferIsWhole
    AnswerIsOurs
PROPERTY
    CallsReturn
CHECK_DEADLOCK FALSE
