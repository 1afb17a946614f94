SPECIFICATION FairSpec
CONSTANTS
    u1 = u1
    u2 = u2
    t1 = t1
    t2 = t2
    NoUnit = nounit
    Units = {u1}
    Runs = {t1, t2}
    MaxNow = 2
    MaxOverlaps = 1
    MaxMishaps = 1
    MaxExtensions = 1
INVARIANTS TypeOK FewRepeats
PROPERTY Reminded
CHECK_DEADLOCK FALSE
