\* The new array of a growth is memory that another table has used.
SPECIFICATION Spec
CONSTANTS
    Keys = {k1, k2, k3}
    Values = {v1}
    HashValues = {0, 1}
    InitialCapacities = {1}
    MaxCapacity = 4
    Leftover <- Reused
    CountMax = 15
    NULL = NULL
    NoAnswer = NoAnswer
INVARIANT RoomLeft
