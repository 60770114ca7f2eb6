SPECIFICATION FairSpec
CONSTANTS
    MsPerTick = 2
    Word = 32
    Durations = {2, 3, 5}
    MAX_CALLBACKS = 3
    Start = 26
    MaxNow = 38
    CountFirst = {TRUE, FALSE}
INVARIANTS TypeOK ReadIsNow ToneLasts
PROPERTIES NullOnlyBetweenStores SleepsLongEnough SleepEnds ToneEnds
CHECK_DEADLOCK FALSE
