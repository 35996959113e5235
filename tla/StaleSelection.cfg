SPECIFICATION Spec
CONSTANTS
    l1 = l1
    l2 = l2
    Nobody = Nobody
    Leaders <- MCLeaders
    Sprints <- OneSprint
    Tasks <- FirstSprint
    SprintOf <- FirstSprintOf
    SeqNo <- FirstSeqNo
    InitialTasks <- SecondTask
    Dependencies <- NeedsFirst
    ArrivalsAllowed = TRUE
    MaxLabels = 0
    MaxCrashes = 0
SYMMETRY LeaderSymmetry
PROPERTIES
    StartsInOrder
CHECK_DEADLOCK FALSE
