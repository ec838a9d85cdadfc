\* Two keys, two databases, lists of up to two elements.
SPECIFICATION Spec
CONSTANTS
    Keys = {k1, k2}
    Fields = {f1}
    Names = {main, other}
    Initial = main
    Words <- AllWords
    Items <- TextOnly
    Numbers = {0, 1}
    MaxLength = 2
    MaxKeys = 2
    MaxDatabases = 2
SYMMETRY Symmetric
INVARIANTS TypeOK CollectionsNotEmpty SameEffectWithoutClient
PROPERTY ErrorsChangeNothing
CHECK_DEADLOCK FALSE
