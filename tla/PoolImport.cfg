SPECIFICATION Spec
CONSTANTS
    Ids = {1, 2}
    Uris = {u1, u2}
    Admins = {a1, a2}
    NoUri = NoUri
    Latencies = {100, 151}
    MaxActive = 1
    MaxNew = 2
    Threshold = 2
    MaxFails = 2
    MaxEdits = 4
    Policy = "disable"
    ReplaceWhenFull = TRUE
INVARIANTS NoDuplicates
PROPERTIES CapacityKept RetiredAfterThreshold
SYMMETRY Symmetry
CHECK_DEADLOCK FALSE
