\* One connection, a queue that never fills, fair threads.
SPECIFICATION FairSpec
CONSTANTS
    MaxClients = 1
    NThreads = 1
    QueueSize = 8
    MaxConns = 1
    MaxCmds <- TwoThenNone
    MaxKills = 0
    Pipelined = FALSE
CHECK_DEADLOCK FALSE
PROPERTIES EveryJobDequeued
