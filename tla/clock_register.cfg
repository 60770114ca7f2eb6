SPECIFICATION Spec
CONSTANTS
    MsPerTick = 2
    Word = 32
    Durations = {2, 3}
    MAX_CALLBACKS = 3
    Start = 0
    MaxNow = 8
    CountFirst = {TRUE, FALSE}
INVARIANTS KernelStarts
