SPECIFICATION TapesSpec
CONSTANTS
    Controllers = {"tc", "mt", "td", "ct"}
    Units = {0, 1}
    Tapes = {0}
    Programs <- MCPrograms
    EZLIN = 2
    HTLIN = 3
    BSIZE = 2
    TSIZE = 2
    Decel = 1
    Accel = 1
    MaxCount = 2
    Selects <- MCSelects
    Records = 1
    Drives = {0, 1}
    DT_WSIZE = 2
    Loads <- MCLoads
    Layouts <- MCLayouts
    Capacity = 3
    CT_MAXFR = 2
INVARIANTS RequestsAgree EventsMatch FoundIsRead
