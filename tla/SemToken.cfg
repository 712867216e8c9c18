SPECIFICATION MCSpec
CONSTANTS
    t1 = t1
    t2 = t2
    idle = idle
    Tasks = {t1, t2, idle}
    Idle = idle
    NoTask = NoTask
    MaxPri = 3
    rsrc = rsrc
    bevent = bevent
    thres = thres
    gate = gate
    Sems = {rsrc, bevent, thres, gate}
    FifoSems = {gate}
    Mutexes = {}
    Inherit = {}
    Ceil <- MCCeil
    StartLocked = {t1}
    InitPri <- MCInitPri
    InitPriTmo <- MCInitPriTmo
    LockLimit = 1
    Mode <- MCMode
    Lim <- MCLim
    MaxCount = 2
    Bumps <- MCBumps
INVARIANTS
    TokensConserved
VIEW MCView
