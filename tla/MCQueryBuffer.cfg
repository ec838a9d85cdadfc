\* Buffers of two pieces, three commands of one or two: they fill a buffer, end
\* inside it or cross its end.
SPECIFICATION Spec
CONSTANTS
    Buffers = {b1, b2}
    BufSize = 2
    MaxLen = 2
    MaxCommands = 3
SYMMETRY Symmetric
INVARIANTS TypeOK ReferencesCounted ArgumentsIntact
CHECK_DEADLOCK FALSE
