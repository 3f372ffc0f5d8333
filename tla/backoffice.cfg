SPECIFICATION Spec
CONSTANTS
    i1 = i1
    i2 = i2
    g1 = g1
    Scanners = {i1, i2}
    MaxJobs = 2
    Attempts = 2
    Uploaders = {i1, i2}
    UploadKeys = {1, 2, 3}
    Contents = {1, 2}
    FileIds = {1, 2, 3}
    HourlyLimit = 1
    Agents = {g1}
    Creator = Creator
    Supervisor = Supervisor
    Nobody = Nobody
    MaxCommits = 3
    ReportIds = {1, 2}
    ReportWorkers = {i1, i2}
    m1 = m1
    m2 = m2
    s1 = s1
    s2 = s2
    Mails = {m1, m2}
    Templates = {g1}
    Slots = 1
    Hosts = {i1, i2}
    Sockets = {s1, s2}
    Pushes = {m1}
    Callers = {i1, i2}
    Limit = 2
    Window = 2
    MaxRequests = 5
    LastSecond = 4
    Writers = {i1, i2}
    Texts = {1, 2}
    Versions = 2
    Managers = {i1, i2}
    Ids = {1, 2}
    Labels = {1, 2}
    Replicas = {s1, s2}
    Askers = {i1, i2}
    TTL = 1
    LastInstant = 3
    Writes = 2
    DayLength = 3
    WeekLength = 3
    LongestTarget = 5
SYMMETRY Symmetry
INVARIANTS
    FilesHold
    PeopleAreTold
    JobsSettle
    SharedStateRecovers
    ReferencesHold
    DeadlinesHold
    BackofficeTypesOK
CHECK_DEADLOCK FALSE
