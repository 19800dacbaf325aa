SPECIFICATION Spec
CONSTANTS
    End = {"A", "B"}
    Foreign = {}
    SeqMod = 3
    MaxTransmit = 1
    MaxData = 2
    MaxUnacked = 2
    MaxUpsets = 1
INVARIANTS
    AckedIsDelivered
CHECK_DEADLOCK FALSE
