SPECIFICATION Spec
CONSTANTS
    a = a
    b = b
    listener = listener
    supervisor = supervisor
    k1 = k1
    b1 = b1
    b2 = b2
    Creators = {listener, supervisor}
    Listener = listener
    Submitters = {a, b}
    MaxLinks = 3
    Requests = {a, b}
    Keys = {k1}
    Bodies = {b1, b2}
    Free = Free
    MaxRuns = 3
    Calls = {a, b}
    MaxDrafts = 2
    MaxFiles = 2
    Askers = {a, b}
    Guessers = {a, b}
    MaxChallenges = 2
    MaxAttempts = 2
    RequestLimit = 2
    AttemptLimit = 2
    Presenters = {a, b}
    LastExp = 3
    Clients = {a, b}
    MaxDevices = 3
    MaxGrants = 1
    Days = 2
    Window = 1
    Horizon = 1
SYMMETRY Symmetry
INVARIANTS
    RepeatsHaveOneEffect
    EarlyWordCounts
    IdentityHolds
    PortalTypesOK
CHECK_DEADLOCK FALSE
