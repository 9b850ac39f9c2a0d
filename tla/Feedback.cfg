SPECIFICATION Spec
CONSTANTS
    Callers = {c1, c2, c3}
    Verdicts = {v, w}
    Provenances = {s, t}
    MaxLogs = 3
    MaxCuts = 1
    MaxEdits = 1
CHECK_DEADLOCK FALSE
INVARIANTS PromotedOnce LearningsAreGrounded
PROPERTIES PromotionsEnd
