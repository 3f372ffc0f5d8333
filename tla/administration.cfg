SPECIFICATION Spec
CONSTANTS
    i1 = i1
    i2 = i2
    g1 = g1
    r1 = r1
    r2 = r2
    c1 = c1
    c2 = c2
    c3 = c3
    Admins = {i1, i2}
    Roles = {r1, r2}
    Copiers = {i1, i2}
    Listed = 2
    MaxEvents = 4
    Tickets = {1, 2}
    Public = {1}
    Teams = {g1, r1}
    Staff = {g1}
    Me = g1
    Free = Free
    Everything = Everything
    MaxWrites = 1
    Deployments = {i1, i2}
    MaxOldRows = 1
    Editors = {i1, i2}
    Texts = {1, 2}
    Sites = {g1}
    Kept = Kept
    MaxEdits = 3
    Replies = {i1, i2}
    BotBudget = 4
    OpenAfter = 2
    MaxQuestions = 7
    MaxKills = 1
    Requests = {i1, i2}
    Grace = 2
    MaxSecrets = 3
    MaxVersion = 2
    MaxRequests = 3
    EndOfTime = 2
    MaxProfiles = 2
    Contacts = {c1, c2, c3}
    SiteContacts = {c3}
    Crons = {i1, i2}
    Due <- DueDates
    Warning = 1
    Emailing = TRUE
    Repeat = 1
    LastTime = 3
    Tasks = {i1, i2}
    TicketNos = {1}
SYMMETRY Symmetry
INVARIANTS
    AccountsFollow
    ProfilesHold
    SitesAreServed
    PagesAgree
    DatabaseStaysMigratable
    AlertsHold
    AdministrationTypesOK
CHECK_DEADLOCK FALSE
