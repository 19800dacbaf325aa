SPECIFICATION Spec
CONSTANTS
    h1 = h1
    s1 = s1
    s2 = s2
    Handles = {h1}
    Senders = {s1, s2}
    Plans <- SomePlans
    Mtu = 2
    PortDepth = 2
    MaxTransfer = 2
    MaxHeld = 2
    MaxGen <- Gens
    MaxUpsets = 1
    MaxCuts <- Cuts
INVARIANTS
    TypeOK
    AssemblyIsRight
    SoleSenderIsServed
    PipesArmed
CHECK_DEADLOCK FALSE
