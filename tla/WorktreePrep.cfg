\* Two calls overlap, with two faults and one event around them.
SPECIFICATION FairSpec
CONSTANTS
    c1 = c1
    c2 = c2
    t1 = t1
    Calls = {c1, c2}
    Tasks = {t1}
    Roots = {"r1"}
    Default = Default
    Sprint = Sprint
    Main = Main
    None = None
    Clones <- MCClones
    MaxEvents = 1
    MaxFaults = 2
INVARIANTS TypeOK BasesArePublished
PROPERTIES SprintMovesForward NewBranchesAreCurrent WorkStays GetsThrough
CHECK_DEADLOCK FALSE
