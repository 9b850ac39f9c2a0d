SPECIFICATION ViewSpec
CONSTANTS
    Runs = {r1}
    Cli = {}
    Api = {a1}
    Resume = {z1}
    Truncating = {z1}
    Cancellable = {}
    Casts <- Everyone
    Viewers = {v1, v2}
    MaxEvents = 1
    MaxCrashes = 1
CHECK_DEADLOCK FALSE
INVARIANTS StoppingIsNotInterrupted FollowerMissesNothing
SYMMETRY ViewerSymmetry
