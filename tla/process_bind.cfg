SPECIFICATION Spec
CONSTANTS
    NFRAMES = 9
    NPDES = 2
    NPTENTRIES = 4
    HeadOf <- Lowest
    PGSIZE = 2
    USER_BASE = 1
    USER_STACK_BASE = 7
    FBPAGES = 2
    Files <- GoodFiles
    FlagFirst <- BuiltOrder
INVARIANTS NoPanic
