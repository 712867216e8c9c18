\* A task uses a heap that has a mutex.
SPECIFICATION Spec
CONSTANTS
    Lsrs = {user}
    NoLsr = NoLsr
    SIZE_LQ = 2
    MaxLoad = 1
    MaxIsr = 1
    EhPre = TRUE
INVARIANTS
    NoStrandedLsr
