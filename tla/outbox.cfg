SPECIFICATION FairSpec
CONSTANTS
    p1 = p1  p2 = p2
    Events = {1, 2}
    Instances = {p1, p2}
    None = None
    Limit = 2
    Lease = 1
    MaxAttempts = 2
    MaxFaults = 1
INVARIANTS
    LeaseExcludes
PROPERTIES
    KeepsPromise
    RecordedSettles
CHECK_DEADLOCK FALSE
