SPECIFICATION DisksSpec
CONSTANTS
    Controllers = {"rx", "rl", "rf", "df"}
    Drives = {0, 1}
    Words = 2
    Cylinders = 2
    RL_NUMSC = 2
    RL_NUMBY = 3
    Orders <- MCOrders
    Seeks <- MCSeeks
    WordCounts = {0}
    Low = 2
    High = 2
    Sizes = {2, 4}
    Counts = {2}
    MaxWords = 4
INVARIANTS RequestsAgree EventsMatch
