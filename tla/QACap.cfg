SPECIFICATION Spec
CONSTANTS
    r1 = r1
    r2 = r2
    Runs <- OneRun
    Words <- MCWords
    DeveloperResults <- FewDeveloperResults
    QAResults <- FewQAResults
    ReviewResults <- FewReviewResults
    MaxStageTransitions = 20
    MaxCalls = 1
    MaxAborts = 0
    TakeoverAllowed = FALSE
CHECK_DEADLOCK FALSE
INVARIANT QAFailuresAreCapped
