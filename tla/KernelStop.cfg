SPECIFICATION RestartSpec
CONSTANTS
    t1 = t1
    t2 = t2
    idle = idle
    Tasks = {t1, t2, idle}
    Idle = idle
    NoTask = NoTask
    MaxPri = 2
    Sems = {}
    FifoSems = {}
    Mutexes = {}
    Inherit = {}
    Ceil <- MCCeil
    StartLocked = {t2}
    InitPri <- MCInitPri
    InitPriTmo <- MCInitPriTmo
    LockLimit = 2
INVARIANTS
    StopHonoured
