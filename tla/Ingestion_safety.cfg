SPECIFICATION Spec
CONSTANTS
    Project = {"p1"}
    Issue = {1, 2}
    ProjectOf <- OneProject
    Event <- TwoIssueEvents
    Cycle = {c1, c2}
    PageSize = 1
    Group = {"g1"}
    ProjectsOf <- SharedProject
    Pass = {d1}
    MaxTime = 2
    MaxRaw = 3
    MaxSetbacks = 1
    c1 = c1
    c2 = c2
    d1 = d1
SYMMETRY CycleSymmetry
INVARIANTS TypeOK NothingBehindCursor ArrivesInOrder SilverNotBehindBronze
CHECK_DEADLOCK FALSE
