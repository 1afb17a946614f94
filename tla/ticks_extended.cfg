SPECIFICATION FairSpec
CONSTANTS
    u1 = u1
    u2 = u2
    t1 = t1
    t2 = t2
    NoUnit = nounit
    Units = {u1}
    Runs = {t1, t2}
    MaxNow = 2
    MaxOverlaps = 0
    MaxMishaps = 0
    MaxExtensions = 1

PROPERTY EachEndReminded
CHECK_DEADLOCK FALSE
