\* Clients that wait for each answer; the server may be closed at any time.
SPECIFICATION Spec
CONSTANTS
    c1 = c1
    c2 = c2
    c3 = c3
    Clients = {c1, c2, c3}
    Menu <- MCMenu
    MaxCmds <- MCBound
    QueueSize = 2
    Pipelined = FALSE
    Closing = TRUE
CONSTRAINT BlockFirst
SYMMETRY Symmetric
CHECK_DEADLOCK FALSE
INVARIANTS TypeOK SignalsMatchBlocks SpinFindsBlock HeldUntilExec ExecutedInOrder
    NoFreedBlockInUse AnsweredAtMostOnce
