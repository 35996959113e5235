SPECIFICATION Spec
CONSTANTS
    r1 = r1
    r2 = r2
    Runs <- TwoRuns
    Words <- MCWords
    DeveloperResults <- FewDeveloperResults
    QAResults <- FewQAResults
    ReviewResults <- FewReviewResults
    MaxStageTransitions = 4
    MaxCalls = 2
    MaxAborts = 0
    TakeoverAllowed = TRUE
SYMMETRY RunSymmetry
CHECK_DEADLOCK FALSE
INVARIANTS
    TypeOK
    RowRebuildsFromLog
    VerdictsAreForTheirAttempt
PROPERTIES
    ParkedRowsAreFinal
    ImplementsLifecycle
