\* One slot that two connections share in turn, each served by its own thread.
SPECIFICATION Spec
CONSTANTS
    MaxClients = 1
    NThreads = 2
    QueueSize = 2
    MaxConns = 2
    MaxCmds <- TwoThenNone
    MaxKills = 1
    Pipelined = FALSE
CHECK_DEADLOCK FALSE
INVARIANTS TypeOK AcceptFindsSlot RemoveFindsClient FirstTenantsServed
PROPERTIES FirstTenantsKeptOpen
