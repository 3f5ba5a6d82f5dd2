SPECIFICATION FairSpec
CONSTANTS
    Sessions = {1, 3}
    SESSION_MAP_SIZE = 2
    DrainFirst = {1}
    ResetsCounter = TRUE
    MayClear = FALSE
    Clients = {3}
    Players = {}
    Strangers = {}
    ChangesLevel = FALSE
    MaxMessages = 1
    MaxStray = 0
    MaxThreads = 1
PROPERTY
    Completes
