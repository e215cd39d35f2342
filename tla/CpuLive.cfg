SPECIFICATION FairSpec
CONSTANTS
    Fields = 2
    WordSize = 2
    PageSize = 2
    AutoIndex <- AutoCells
    MemFields = 2
    Cells <- Location0
    Instructions <- LiveProgram
    Devices = {d1}
    Breakpoints = {}
    StopInst = FALSE
PROPERTIES RequestServed IonDelay
