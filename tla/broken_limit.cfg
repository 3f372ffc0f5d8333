SPECIFICATION EngineSpec
CONSTANTS
    t1 = t1  t2 = t2  t3 = t3  ann = ann  bob = bob  noc = noc  bss = bss  s1 = s1  s2 = s2
    None = None
    Tickets = {t1, t2, t3}
    Agents = {ann, bob}
    Team <- OneTeam
    Dept <- MCDept
    Automatic = {noc}
    RoundRobin = {}
    Specialists <- MCSpecialists
    Cap <- MCCap
    Weight <- MCWeight
    MaxWorkload = 12
    Rank <- MCRank
    Limit = 3
    Slots = {s1, s2}
    MaxInputs = 1
INVARIANTS LoadWithinLimit
CHECK_DEADLOCK FALSE
