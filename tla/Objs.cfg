SPECIFICATION MCSpec
CONSTANTS
    a = a
    b = b
    spare = spare
    Tasks = {a, b, spare}
    Lsr = Lsr
    None = None
    m1 = m1
    m2 = m2
    Msgs = {m1, m2}
    norm = norm
    bcst = bcst
    pass = pass
    other = other
    Xchgs = {norm, bcst, pass, other}
    Mode <- MCMode
    Server = {pass}
    MaxPri = 1
    Length = 2
    Packets = {x, y}
    Width = 5
    Flags = {0, 1, 2}
    Tests <- MCTests
    MaxEvents = 4
    Clients = {a, b}
    Svr = Svr
    SCBs = {1, 2, 3, 4}
    MaxBlocks = 2
    TopPri = 1
    FMsgs = {m1, m2}
    XCBs = {1, 2}
    BinSz <- MCBinSz
    Setups <- MCSetups
SYMMETRY MCPerms
INVARIANTS
    ObjsTypeOK
    MostUrgentFirst
    TasksMeet
    CountsExact
    AnswersMatch
    ServedIsPromoted
    CloseReleasesAll
    HeapConsistent
    SortResumes
    HangsOnlyAtEnds
PROPERTIES
    OnlyTheseBreakExchanges
    OnlyTheseFallBehind
    OnlyTheseLosePackets
    OnlyResumeDropsWaiter
    NoMissedEvent
    OnlyRegrownBlocksLoseRoom
