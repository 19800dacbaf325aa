SPECIFICATION Spec
CONSTANTS
    Client = {a1}
    Child = {b1}
    Endpoint = {a1, b1}
    NoEp = NoEp
    LastIdent = 3
    LastCid = 2
    Psm = {"dynamic"}
    MaxConnects = 2
    MaxLinks = 2
    MaxForeign = 1
    MaxCloses = 2
INVARIANTS
    TypeOK
    MappedWhileActive
    OpenIsConfigured
    ConfigurationAgrees
    NoDanglingIdent
    UnboundOnce
    AcceptSemaphoreCounts
CHECK_DEADLOCK FALSE
