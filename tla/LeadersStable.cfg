SPECIFICATION Spec
CONSTANTS
    l1 = l1
    l2 = l2
    Nobody = Nobody
    Leaders <- MCLeaders
    Sprints <- MCSprints
    Tasks <- MCTasks
    SprintOf <- MCSprintOf
    SeqNo <- MCSeqNo
    InitialTasks <- MCTasks
    Dependencies <- NeedsSecond
    ArrivalsAllowed = FALSE
    MaxLabels = 0
    MaxCrashes = 1
SYMMETRY LeaderSymmetry
INVARIANTS
    OneTaskPerSprint
    StartsAreRecordedOnce
PROPERTIES
    StartsInOrder
    SprintsMoveForward
CHECK_DEADLOCK FALSE
