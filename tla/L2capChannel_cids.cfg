SPECIFICATION Spec
CONSTANTS
    Client = {a1, a2}
    Child = {b1}
    Endpoint = {a1, a2, b1}
    NoEp = NoEp
    LastIdent = 3
    LastCid = 2
    Psm = {"fixed"}
    MaxConnects = 2
    MaxLinks = 1
    MaxForeign = 0
    MaxCloses = 1
INVARIANTS
    OneEndpointPerCid
SYMMETRY Symmetry
CHECK_DEADLOCK FALSE
