SPECIFICATION Spec
CONSTANTS
    s1 = s1
    Sources = {s1}
    PlanSources = {s1}
    Long = {s1}
    Outputs <- FewOutputs
    Configs <- ResumeConfigs
    MaxIterations = 3
    MaxModelCalls = 2
    MaxOutput = 5
    MaxEdits = 0
    MaxCrashes = 2
CHECK_DEADLOCK FALSE
INVARIANT ReplayMatchesLog
