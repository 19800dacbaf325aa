SPECIFICATION Spec
CONSTANTS
    Devices = {d1}
    NoDevice = NoDevice
    Kinds <- PairKinds
    ExtFeatures <- WithExt
    Paired <- AnyPaired
    MaxConnections = 1
    MayRefuse <- NoRefusal
    MayUnplug = FALSE
    MaxWork = 1
PROPERTIES
    NamePersisted
CHECK_DEADLOCK FALSE
