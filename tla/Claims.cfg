SPECIFICATION Spec
CONSTANTS
    p = p
    q = q
    unread = unread
    Words <- MCWords
    Targets <- MCTargets
    Versions <- MCVersions
    Observed <- MCObserved
    Outputs <- MCOutputs
    MaxEdits = 2
CHECK_DEADLOCK FALSE
INVARIANTS SettledIsTrue CleanMeansEstablished CoverageIsTheShare
