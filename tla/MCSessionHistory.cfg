SPECIFICATION HistorySpec
CONSTANTS
    Threads = {t1, t2}
    SESSION_MAP_SIZE = 3
    DefaultSize = 2
    Sizes = {0, 1, 4}
    MaxSessions = 4
    NoThread = none
SYMMETRY ThreadSymmetry
INVARIANTS
    HistoryTypeOK
    LiveSessionsAreKept
    ExcessIsBlocked
