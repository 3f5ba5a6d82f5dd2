SPECIFICATION Spec
CONSTANTS
    Sessions = {1, 3}
    SESSION_MAP_SIZE = 2
    DrainFirst = {1}
    ResetsCounter = FALSE
    MayClear = TRUE
    Clients = {}
    Players = {3}
    Strangers = {t1}
    ChangesLevel = TRUE
    MaxMessages = 1
    MaxStray = 1
    MaxThreads = 2
INVARIANTS
    TypeOK
    CounterIsExact
    OutputIsWhole
