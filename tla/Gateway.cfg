SPECIFICATION Spec
CONSTANTS
    Callers = {c1, c2}
    Approvals = {a1, a2}
    Args = {x, y}
    Heads = {h1, h2}
    MaxTools = 2
    MaxAttempts = 2
    MaxMoves = 1
    Uses <- ThreadsOrAudit
SYMMETRY Symmetry
CHECK_DEADLOCK FALSE
INVARIANTS OneWritePerApproval QuotaHolds OutcomesAreTrue WritesAreAudited
