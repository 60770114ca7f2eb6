SPECIFICATION FairSpec
CONSTANTS
    ROWS = 4
    COLS = 3
    SHELL_CMD_CAPACITY = 5
    SPINNER_TICKS_PER_FRAME = 2
    Letters = {"x", "y"}
    Spinner = "s"
    Banner = "m"
    Success = "m"
    Unknown = "m"
    NotFound = "m"
    Halt <- HaltWord
    Work <- WorkWord
    Graphtest <- GraphtestWord
    Run <- RunWord
    Dots = 1
    Files <- FileNames
    MaxEvents = 2
CHECK_DEADLOCK FALSE
INVARIANTS ShellTypeOK LineShown
PROPERTIES KeysHandled
