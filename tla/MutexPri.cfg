SPECIFICATION MutexSpec
CONSTANTS
    t1 = t1
    t2 = t2
    t3 = t3
    idle = idle
    Tasks = {t1, t2, t3, idle}
    Idle = idle
    NoTask = NoTask
    MaxPri = 3
    m1 = m1
    m2 = m2
    Ceil1 = 0
    Ceil2 = 2
    Sems = {}
    FifoSems = {}
    Mutexes = {m1, m2}
    Inherit = {m1, m2}
    Ceil <- MCCeil
    Rank <- MCRank
    StartLocked = {}
    InitPri <- MCInitPri
    InitPriTmo <- MCInitPriTmo
    LockLimit = 1
    MaxNest <- MCMaxNest
    Bumps <- MCBumps
INVARIANTS
    NoInversionNested
