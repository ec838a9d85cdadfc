\* A client that sends before its last command is answered.
SPECIFICATION Spec
CONSTANTS
    c1 = c1
    c2 = c2
    c3 = c3
    Clients = {c1, c2}
    Menu <- MCMenu
    MaxCmds <- MCBound
    QueueSize = 2
    Pipelined = TRUE
    Closing = FALSE
CHECK_DEADLOCK FALSE
INVARIANTS HeldUntilExec
