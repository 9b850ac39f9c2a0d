SPECIFICATION FairSpec
CONSTANTS
    Runs = {r1, r2}
    Cli = {c1}
    Api = {a1}
    Resume = {z1, z2}
    Truncating = {z2}
    Cancellable = {r1}
    Casts <- WithOrWithoutRepair
    MaxEvents = 2
    MaxCrashes = 1
CHECK_DEADLOCK FALSE
INVARIANTS OneWriter HistoryValid NoLifeAfterStop ReportAgreesWithLog
PROPERTIES AppendOnly CliStartsEmptyLog CliAnswers
