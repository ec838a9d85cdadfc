\* SAVE only, one key, and a crash at any moment.
SPECIFICATION Spec
CONSTANTS
    Lines <- OneLine
    Names <- TwoNames
    Initial = "main"
    Capacity = 84
    Background = {}
    MaxPasswords = 0
    MaxCommands = 2
    MaxStops = 1
INVARIANT SaveIsAtomic
CHECK_DEADLOCK FALSE
