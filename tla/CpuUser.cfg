SPECIFICATION Spec
CONSTANTS
    Fields = 2
    WordSize = 2
    PageSize = 2
    AutoIndex <- AutoCells
    MemFields = 2
    Cells <- Location0
    Instructions <- UserProgram
    Devices = {}
    Breakpoints <- BreakInField1
    StopInst = FALSE
INVARIANTS UserModeHeld ViolationTraps
PROPERTIES UserModeConfined
