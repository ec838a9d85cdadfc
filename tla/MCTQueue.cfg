\* Two producers and two consumers on a ring of two slots, with wrap-around.
SPECIFICATION Spec
CONSTANTS
    Producers = {p1, p2}
    Consumers = {c1, c2}
    Values = {v1, v2}
    None = None
    Capacity = 2
    MaxTicket = 4
SYMMETRY Symmetric
INVARIANTS TypeOK SlotExclusive EstimateNeverNegative
PROPERTIES FullOnlyWhenFull ImplementsFifo
