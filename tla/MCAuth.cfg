\* Two slots, two passwords, a server without a database file.
SPECIFICATION Spec
CONSTANTS
    Slots = {s1, s2}
    Values = {v1, v2}
    Objects = {o1, o2}
    Loaded = {}
    MaxQueue = 2
SYMMETRY Symmetric
INVARIANTS TypeOK HeldPasswordsExist EarlierClientsReset
PROPERTY GrowthIsEdit
CHECK_DEADLOCK FALSE
