SPECIFICATION FairSpec
CONSTANTS
    ann = ann
    bob = bob
    w1 = w1
    w2 = w2
    Web = Web
    Recipients = {ann, bob}
    Workers = {w1, w2}
    RetryLimit = 1
    MaxMishaps = 2
INVARIANTS TypeOK NeverStuck ClosedWhole FewDuplicates
PROPERTY Concludes
CHECK_DEADLOCK FALSE
