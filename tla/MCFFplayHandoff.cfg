SPECIFICATION Spec
CONSTANTS
    Sessions = {1, 2, 3}
    MayForget = TRUE
INVARIANTS
    TypeOK
    OnePlaysUnlessGivenUp
    PlayingContextIsAlive
