SPECIFICATION FairSpec
CONSTANTS
    End = {"A", "B"}
    Foreign = {"B"}
    SeqMod = 3
    MaxTransmit = 1
    MaxData = 2
    MaxUnacked = 2
    MaxUpsets = 1
INVARIANTS
    TypeOK
    QueueIsWindow
    RecoveryArmed
PROPERTIES
    SendingEnds
CHECK_DEADLOCK FALSE
