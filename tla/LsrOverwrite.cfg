\* Interrupts may fill the queue.
SPECIFICATION Spec
CONSTANTS
    Lsrs = {timeout, user}
    NoLsr = NoLsr
    SIZE_LQ = 2
    MaxLoad = 3
    MaxIsr = 1
    EhPre = FALSE
INVARIANTS
    NoUnreadOverwritten
