SPECIFICATION FairDevices
CONSTANTS
    Controllers = {"char", "rk", "ttx", "fpp"}
    Groups = {{"TTI", "TTO"}, {"CLK", "LPT"}, {"PTR", "PTP"}}
    Chars = {"a", "cr"}
    Controls = {"cr"}
    Drives = {0, 1}
    Addresses = {1}
    FieldSize = 4
    SectorSize = 4
    LineSets = {{"TTI1"}, {"TTI1", "TTI2"}}
    Places = 3
    FppCommands <- MCFppCommands
INVARIANTS RequestsAgree OrderStands
PROPERTIES KeyKept AnswersCome
