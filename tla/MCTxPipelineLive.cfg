\* The same system with fair threads.
SPECIFICATION FairSpec
CONSTANTS
    c1 = c1
    c2 = c2
    c3 = c3
    Clients = {c1, c2, c3}
    Menu <- MCMenuLive
    MaxCmds <- MCBoundLive
    QueueSize = 2
    Pipelined = FALSE
    Closing = TRUE
CHECK_DEADLOCK FALSE
PROPERTIES EveryCommandAnswered ShutdownCompletes
