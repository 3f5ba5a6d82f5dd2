SPECIFICATION FairSpec
CONSTANTS
    Sessions = {1, 2}
    FFmpegIds = {1}
    Clients = {c1, c2}
    SESSION_MAP_SIZE = 2
    Endless = {1}
    MaxCalls = 1
    NoClient = none
INVARIANTS
    TypeOK
    RequestReachesScheduler
    CancelUsesLiveContext
    OnlyTheNamedIsCancelled
PROPERTY
    CancelledSessionCompletes
