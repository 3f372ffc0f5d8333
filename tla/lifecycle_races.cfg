SPECIFICATION MidLifeSpec
CONSTANTS
    eng = eng  sup = sup  csa = csa  noc = noc  care = care  r1 = r1  r2 = r2
    None = None
    Users <- MCUsers
    Depts <- MCDepts
    Role <- MCAdminRole
    Dept <- MCDept
    Moves <- MCMoves
    Opener = csa
    Home = care
    Grant = 1
    ReopenWindow = 1
    Requests = {r1, r2}
    FirstDue = 1
    InitialDue = 1
    Risk = 1
    Quiet = 1
    MaxPause = 1
    Kinds = {"status", "assign", "escalate", "edit", "delete", "reply", "agent", "move", "load", "switch", "error"}
    Targets = {"IN_PROGRESS", "RESOLVED", "CLOSED", "REOPENED"}
    MaxTime = 2
    MaxInputs = 2
SYMMETRY Slots
INVARIANTS TypeOK AssignedHasAssignee AssigneeInTeam
PROPERTIES CommitKeepsStateMachine AutoCloseOnlyAfterQuiet
