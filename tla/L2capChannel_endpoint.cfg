SPECIFICATION Spec
CONSTANTS
    Client = {a1}
    Child = {b1}
    Endpoint = {a1, b1}
    NoEp = NoEp
    LastIdent = 3
    LastCid = 3
    Psm = {"dynamic"}
    MaxConnects = 1
    MaxLinks = 1
    MaxForeign = 0
    MaxCloses = 1
INVARIANTS
    EndpointUsedIsLive
CHECK_DEADLOCK FALSE
