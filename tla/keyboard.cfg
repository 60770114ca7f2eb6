SPECIFICATION FairSpec
CONSTANTS
    Scancodes <- MCScancodes
    LeftShift <- Lsh
    RightShift <- Rsh
    Backspace <- Bksp
    sc_ascii <- Plain
    sc_ascii_shift <- Shifted
    CAP = 2
    Keys <- MCKeys
    Codes <- MCCodes
    MaxWire = 1
INVARIANTS TypeOK RingConsistent CallerKeepsIF ShiftFollowsKeys
PROPERTIES RefinesEventLog ShiftNoticed
