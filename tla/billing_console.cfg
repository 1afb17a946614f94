SPECIFICATION Spec
CONSTANTS
    s1 = s1
    s2 = s2
    Subs = {s1, s2}
    None = None
    MaxChanges = 3
    Handlers = 2
PROPERTIES WebhooksOnly
SYMMETRY Interchangeable
CHECK_DEADLOCK FALSE
