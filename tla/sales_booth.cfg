SPECIFICATION Spec
CONSTANTS
    h1 = h1
    h2 = h2
    web = web
    booth = booth
    Handlers = {h1, h2}
    Orders = {web, booth}
    Booths = {booth}
    Online = {web}
    Split = {web, booth}
    Gross = 3
    Share = 1
    MaxRequests = 3
INVARIANTS BoothOffBooks
SYMMETRY Interchangeable
CHECK_DEADLOCK FALSE
