SPECIFICATION FairSpec
CONSTANTS
    Project = {"p1"}
    Issue = {1}
    ProjectOf <- OneProject
    Event <- OneIssueEvents
    Cycle = {c1}
    PageSize = 1
    Group = {"g1", "g2"}
    ProjectsOf <- SharedProject
    Pass = {d1}
    MaxTime = 2
    MaxRaw = 8
    MaxSetbacks = 1
    c1 = c1
    d1 = d1
PROPERTY EventuallyIngested
