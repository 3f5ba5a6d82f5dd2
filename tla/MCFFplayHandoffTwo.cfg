SPECIFICATION Spec
CONSTANTS
    Sessions = {1, 2, 3}
    MayForget = FALSE
INVARIANT
    AtMostOnePlays
