\* Closing the server while a client sends.
SPECIFICATION Spec
CONSTANTS
    c1 = c1
    c2 = c2
    c3 = c3
    Clients = {c1, c2}
    Menu <- MCMenu
    MaxCmds <- MCBound
    QueueSize = 2
    Pipelined = FALSE
    Closing = TRUE
CHECK_DEADLOCK FALSE
INVARIANTS NotifierOutlivesSignals
