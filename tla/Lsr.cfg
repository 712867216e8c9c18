\* Three cells of which the application fills at most two; heap mutexes are
\* used; ISRs nest.
SPECIFICATION FairSpec
CONSTANTS
    Lsrs = {timeout, user}
    NoLsr = NoLsr
    SIZE_LQ = 3
    MaxLoad = 2
    MaxIsr = 2
    EhPre = TRUE
INVARIANTS
    TypeOK
    RingConsistent
    PsvGuarded
PROPERTIES
    StrandedOnlyBySSRExitIF
    ImplementsFifo
    LsrsRun
