\* Violated: read_command does not return when its
\* input fills the buffer, or is cut, or is not a command.
SPECIFICATION FairSpec
CONSTANTS
    Buffers = {b1, b2}
    BufSize = 2
    MaxLen = 2
    MaxCommands = 2
PROPERTY ReadEnds
CHECK_DEADLOCK FALSE
