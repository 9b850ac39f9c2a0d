SPECIFICATION Spec
CONSTANTS
    Proposers = {p1, p2}
    Branches = {main, dev}
    Names = {fix}
    Commits = {k1, k2}
    Absent = Absent
    MaxMoves = 3
SYMMETRY Symmetry
CHECK_DEADLOCK FALSE
INVARIANTS OneBranchPerName OutcomeTellsBranch
PROPERTIES CutFromTheBase RollbackIsOwn
