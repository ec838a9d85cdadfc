\* A peer that sends its second command before it has the first response.
SPECIFICATION Spec
CONSTANTS
    MaxClients = 1
    NThreads = 1
    QueueSize = 2
    MaxConns = 1
    MaxCmds <- TwoThenNone
    MaxKills = 0
    Pipelined = TRUE
CHECK_DEADLOCK FALSE
PROPERTIES FirstTenantsKeptOpen
