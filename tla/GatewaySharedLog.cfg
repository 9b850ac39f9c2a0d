SPECIFICATION Spec
CONSTANTS
    Callers = {c1, c2}
    Approvals = {a1}
    Args = {x, y}
    Heads = {h1, h2}
    MaxTools = 2
    MaxAttempts = 2
    MaxMoves = 0
    Uses <- SharedLog
SYMMETRY Symmetry
CHECK_DEADLOCK FALSE
INVARIANTS WriterIsTold
