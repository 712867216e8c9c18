SPECIFICATION MCSpec
CONSTANTS
    Tasks = {a}
    Lsr = Lsr
    None = None
    Length = 2
    Packets = {x, y}
INVARIANT NoConflictWithIsrGet
