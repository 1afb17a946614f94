SPECIFICATION Spec
CONSTANTS
    NoKey = nokey
    Nobody = nobody
    Ids = {i1, i2, i3}
    Keys = {k1, k2}
    Requests = {r1, r2}
    Cap = 2
    MaxChanges = 1
    MaxCalls = 3
    MaxMishaps = 1
INVARIANTS TypeOK PhotoReadable NearCap NoStrays
SYMMETRY Interchangeable
CHECK_DEADLOCK FALSE
