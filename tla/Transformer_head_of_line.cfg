SPECIFICATION RunFairSpec
CONSTANTS
    Label <- MCLabel
    Normalize <- MCNormalize
    StateMapping <- MCStateMapping
    MetadataMapping <- MCMetadataMapping
    NervousFingerThreshold = 15
    User <- MCUser
    Name <- MCUser
    Mention <- MCMention
    Project = {"p1", "p2"}
    Issue <- TwoIssues
    ProjectOf <- TwoProjects
    Event <- TwoProjectEvents
    Run = {t1}
    BatchSize = 1
    SilverAtStart = {"p1"}
    Feed = "any_order"
    MaxRaw = 3
    MaxRepeats = 3
    MaxErrors = 0
    MaxCrashes = 0
PROPERTY KnownProjectsDrain
