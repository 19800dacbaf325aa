SPECIFICATION FairSpec
CONSTANTS
    Client = {a1}
    Child = {b1}
    Endpoint = {a1, b1}
    NoEp = NoEp
    LastIdent = 3
    LastCid = 3
    Psm = {"fixed", "dynamic"}
    MaxConnects = 1
    MaxLinks = 2
    MaxForeign = 1
    MaxCloses = 0
PROPERTIES
    ConnectReturns
    
CHECK_DEADLOCK FALSE
