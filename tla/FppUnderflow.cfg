SPECIFICATION ProcessorSpec
CONSTANTS
    Fields = 2
    WordSize = 2
    PageSize = 2
    AutoIndex <- AutoCells
    MemFields = 1
    Cells <- Pointers
    Instructions <- SafeProgram
    Devices = {d1}
    Breakpoints = {}
    StopInst = TRUE
    W = 4
    S = 4
    Operands = {0, 1, 8, 15}
    Rotated = {{}, {"CLA", "CLL", "IAC"}}
    Combined = {{}, {"MQA", "MQL"}}
    FppW = 2
    ExpSize = 4
    Fractions <- MCFractions
    Guards = {0, 33}
    Exponents <- MCExponents
PROPERTY UnderflowIsZero
