SPECIFICATION Spec
CONSTANTS
    Label <- MCLabel
    Normalize <- MCNormalize
    StateMapping <- MCStateMapping
    MetadataMapping <- MCMetadataMapping
    NervousFingerThreshold = 2
    User <- MCUser
    Name <- MCUser
    Mention <- MCMention
    Project = {"p1"}
    Issue <- TwoIssues
    ProjectOf <- OneProject
    Event <- HandOverEvents
    Run = {t1}
    BatchSize = 2
    SilverAtStart = {"p1"}
    Feed = "in_order"
    MaxRaw = 5
    MaxRepeats = 0
    MaxErrors = 0
    MaxCrashes = 0
    Now = 13
    Hundredth = 3
INVARIANT ActiveWorkIsCredited
