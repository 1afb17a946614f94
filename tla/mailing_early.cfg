SPECIFICATION Spec
CONSTANTS
    ann = ann
    bob = bob
    w1 = w1
    w2 = w2
    Web = Web
    Recipients = {ann, bob}
    Workers = {w1, w2}
    RetryLimit = 3
    MaxMishaps = 1
INVARIANT ClosedWhenAllAnswered
CHECK_DEADLOCK FALSE
