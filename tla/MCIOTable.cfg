\* Three connections in a table of two slots.
SPECIFICATION Spec
CONSTANTS
    MaxClients = 2
    NThreads = 1
    QueueSize = 2
    MaxConns = 3
    MaxCmds <- TwoThenNone
    MaxKills = 0
    Pipelined = FALSE
CHECK_DEADLOCK FALSE
INVARIANTS RemoveFindsClient
