SPECIFICATION Spec
CONSTANTS
    Project = {"p1"}
    Issue = {1}
    ProjectOf <- OneProject
    Event <- OneIssueEvents
    Cycle = {c1}
    PageSize = 2
    Group = {"g1"}
    ProjectsOf <- SharedProject
    Pass = {d1}
    MaxTime = 2
    MaxRaw = 3
    MaxSetbacks = 1
    c1 = c1
    d1 = d1
INVARIANT CursorAfterPersistence
