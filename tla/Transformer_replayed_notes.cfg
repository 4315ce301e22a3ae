SPECIFICATION Spec
CONSTANTS
    Label <- MCLabel
    Normalize <- MCNormalize
    StateMapping <- MCStateMapping
    MetadataMapping <- MCMetadataMapping
    NervousFingerThreshold = 15
    User <- MCUser
    Name <- MCUser
    Mention <- MCMention
    Project = {"p1"}
    Issue <- MCIssue
    ProjectOf <- MCProjectOf
    Event <- AssignedAndUnassigned
    Run = {t1}
    BatchSize = 2
    SilverAtStart = {"p1"}
    Feed = "in_order"
    MaxRaw = 3
    MaxRepeats = 3
    MaxErrors = 0
    MaxCrashes = 0
INVARIANT PeriodsOnce
