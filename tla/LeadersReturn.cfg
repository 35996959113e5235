SPECIFICATION FairSpec
CONSTANTS
    l1 = l1
    l2 = l2
    Nobody = Nobody
    Leaders <- MCLeaders
    Sprints <- OneSprint
    Tasks <- OnlyTask
    SprintOf <- OnlySprintOf
    SeqNo <- OnlySeqNo
    InitialTasks = {}
    Dependencies = {}
    ArrivalsAllowed = TRUE
    MaxLabels = 1
    MaxCrashes = 1
INVARIANTS
    TypeOK
PROPERTIES
    CallsReturn
CHECK_DEADLOCK FALSE
