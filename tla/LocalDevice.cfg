SPECIFICATION Spec
CONSTANTS
    Devices = {d1, d2}
    NoDevice = NoDevice
    Kinds <- AllKinds
    ExtFeatures <- WithExt
    Paired <- OnePaired
    MaxConnections = 2
    MayRefuse <- Refusable
    MayUnplug = TRUE
    MaxWork = 2
INVARIANTS
    TypeOK
    NoCallerForgotten
    TrackedAreUp
    LinksAreWanted
    ChainGoesOn
    CallsReturn
CHECK_DEADLOCK FALSE
