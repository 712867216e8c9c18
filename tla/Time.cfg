SPECIFICATION MCSpec
CONSTANTS
    a = a
    b = b
    Timers = {a, b}
    Half = 5
    NumTasks = 3
    Delays = {0, 2}
    MaxWait = 2
    Lag = 1
    MaxPend = 2
    Starts <- MCStarts
    Pulses <- MCPulses
    MaxDelay = 3
    Sleeps = {1, 2}
INVARIANTS
    TimeTypeOK
PROPERTIES
    TimeoutsImplement
    TimersImplement
    OnlyStartAbsOverruns
    OnlyRestartsShiftPulse
    TimeoutsServed
