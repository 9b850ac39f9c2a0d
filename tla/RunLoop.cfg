SPECIFICATION FairSpec
CONSTANTS
    s1 = s1
    Sources = {s1}
    PlanSources = {s1}
    Long = {s1}
    Outputs <- AllOutputs
    Configs <- LoopConfigs
    MaxIterations = 3
    MaxModelCalls = 2
    MaxOutput = 4
    MaxEdits = 1
    MaxCrashes = 1
CHECK_DEADLOCK FALSE
INVARIANTS TypeOK NeverLost StopsAgree ReplayMatchesLog EvidenceIsLogged MaxIterationsBinds
PROPERTIES PassedOnStandingGround UnpaidLeavesNoTrace InvestigationNeedsMaterial NoThirdTry Terminates
