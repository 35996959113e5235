SPECIFICATION FairAgentSpec
CONSTANTS
    Executions <- MCExecutions
    MaxOutput = 3
CHECK_DEADLOCK FALSE
INVARIANTS
    AgentTypeOK
    RunnerFailuresAreRetried
    OnlySoundWorkAdvances
    FailuresHaveFingerprints
    ReviewAgreesWithReviewer
    HumanRequestsBlock
PROPERTIES
    NothingCutOffIsBelieved
    CallersCanTell
    RunsEnd
    ImplementsDecisionTable
