SPECIFICATION FairSpec
CONSTANTS
    a1 = a1  j1 = j1  j2 = j2  s1 = s1  s2 = s2  p1 = p1
    Addresses = {a1}
    Jobs = {j1, j2}
    FirstJob = j1
    Slots = {s1, s2}
    Processes = {p1}
    None = None
    Lease = 1
    MaxAttempts = 2
    Ceiling = 3
    Window = 3
    Tries = 4
    Backoff = 1
    MaxStalls = 1
    MaxFaults = 1
    MaxChanges = 1
INVARIANTS TypeOK DeliveredWasSent DuplicatesNeedMishaps AttemptsBounded
PROPERTIES DeliverySettles
CHECK_DEADLOCK FALSE
