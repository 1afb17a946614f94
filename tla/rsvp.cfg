SPECIFICATION Spec
CONSTANTS
    ann = ann
    bob = bob
    h1 = h1
    h2 = h2
    People = {ann, bob}
    Members = {ann}
    Handlers = {h1, h2}
    Capacities = {1, 2}
    MaxGuests = 1
    Typed <- FromNegative
    MaxTyped = 2
    MaxAnswers = 3
INVARIANTS TypeOK SpotsKept ChargeFollows OneCharge
SYMMETRY Interchangeable
CHECK_DEADLOCK FALSE
