\* SAVE, BGSAVE and closing, with crashes and restarts.
SPECIFICATION FairSpec
CONSTANTS
    Lines <- TwoLines
    Names <- TwoNames
    Initial = "main"
    Capacity = 84
    Background = {b1}
    MaxPasswords = 1
    MaxCommands = 3
    MaxStops = 1
INVARIANTS TypeOK SizesAgree SavedReadsBack
PROPERTY ShutdownEnds
CHECK_DEADLOCK FALSE
