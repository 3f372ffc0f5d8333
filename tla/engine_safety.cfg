SPECIFICATION EngineSpec
CONSTANTS
    t1 = t1  t2 = t2  t3 = t3  ann = ann  bob = bob  noc = noc  bss = bss  s1 = s1  s2 = s2
    None = None
    Tickets = {t1, t2, t3}
    Agents = {ann, bob}
    Team <- OneTeam
    Dept <- MCDept
    Automatic = {noc}
    RoundRobin = {noc}
    Specialists <- MCSpecialists
    Cap <- CapByName
    Weight <- MCWeight
    MaxWorkload = 12
    Rank <- MCRank
    Limit = 3
    Slots = {s1, s2}
    MaxInputs = 2
SYMMETRY Parallel
INVARIANTS TypeOK OvershootBounded
CHECK_DEADLOCK FALSE
