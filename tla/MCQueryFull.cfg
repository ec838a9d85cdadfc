\* Violated: the arguments of a command that ends a full buffer, or whose buffer
\* is reallocated, are lost.
SPECIFICATION Spec
CONSTANTS
    Buffers = {b1, b2}
    BufSize = 2
    MaxLen = 2
    MaxCommands = 2
INVARIANT ArgumentsKept
CHECK_DEADLOCK FALSE
