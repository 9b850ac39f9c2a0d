SPECIFICATION Spec
CONSTANTS
    Runs = {r1, r2}
    Cli = {}
    Api = {a1}
    Resume = {z1, z2}
    Truncating = {z1, z2}
    Cancellable = {}
    Casts <- Everyone
    MaxEvents = 2
    MaxCrashes = 1
CHECK_DEADLOCK FALSE
PROPERTY NothingRewritten
