SPECIFICATION FairSpec
CONSTANTS
    r1 = r1
    r2 = r2
    Runs <- OneRun
    Words <- MCWords
    DeveloperResults <- MCDeveloperResults
    QAResults <- MCQAResults
    ReviewResults <- MCReviewResults
    MaxStageTransitions = 5
    MaxCalls = 3
    MaxAborts = 2
    TakeoverAllowed = FALSE
CHECK_DEADLOCK FALSE
INVARIANTS
    AgentsSeeCurrentWork
    AnsweredCallsPark
PROPERTIES
    CallsReturn
