\* Tables of 1 and 3 slots, three keys, wrap-around and one or more growths, into
\* zeroed memory and into memory with stale elements.
SPECIFICATION Spec
CONSTANTS
    Keys = {k1, k2, k3}
    Values = {v1, v2}
    HashValues = {0, 2, 7}
    InitialCapacities = {1, 3}
    MaxCapacity = 6
    Leftover <- SomeStale
    CountMax = 15
    NULL = NULL
    NoAnswer = NoAnswer
INVARIANTS TypeOK CountExact InsertionHasRoom
PROPERTIES ImplementsMap DeletionEnds
