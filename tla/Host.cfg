SPECIFICATION FairHost
CONSTANTS
    NSwitches = 2
    DebounceTime = 2
    ClockSteps = FALSE
    Dirs = {"usb0", "usb1"}
    Images = {"a"}
    Slots = {5, 6, 7}
    Sticks = TRUE
    Operator = TRUE
    clk = clk
    step = step
    tti = tti
    lpt = lpt
    Units <- MCUnits
    Clock = clk
    Step = step
    Rearmed <- MCRearmed
    Delays = {0, 1, 2, 3}
    Tick = 2
    NOQUEUE_WAIT = 4
CHECK_DEADLOCK FALSE
INVARIANTS HostTypes LeavesDark NothingOverdue
PROPERTIES AttachUnmounted RecordTells Debounced OrderKept EventuallyReported StopReturns
    ImplementsAgenda StopServed EveryUnitRuns
