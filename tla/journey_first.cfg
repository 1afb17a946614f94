SPECIFICATION Spec
CONSTANTS
    NoKey = nokey
    Nobody = nobody
    Ids = {i1, i2}
    Keys = {k1, k2}
    Requests = {r1, r2}
    Cap = 2
    MaxChanges = 1
    MaxCalls = 3
    MaxMishaps = 1
PROPERTY FirstUploadKept
CHECK_DEADLOCK FALSE
