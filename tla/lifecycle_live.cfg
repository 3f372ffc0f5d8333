SPECIFICATION MidLifeFairSpec
CONSTANTS
    eng = eng  sup = sup  csa = csa  noc = noc  care = care  r1 = r1  r2 = r2
    None = None
    Users <- MCUsers
    Depts <- MCDepts
    Role <- MCRole
    Dept <- MCDept
    Moves <- MCMoves
    Opener = csa
    Home = care
    Grant = 1
    ReopenWindow = 1
    Requests = {r1}
    FirstDue = 1
    InitialDue = 1
    Risk = 1
    Quiet = 1
    MaxPause = 1
    Kinds = {"status", "assign", "agent", "load", "switch", "error"}
    Targets = {"IN_PROGRESS", "RESOLVED", "CLOSED", "REOPENED"}
    MaxTime = 3
    MaxInputs = 2
PROPERTIES UnassignedIsRouted ResolvedIsClosed
