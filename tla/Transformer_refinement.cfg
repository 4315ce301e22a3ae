SPECIFICATION Spec
CONSTANTS
    Label <- MCLabel
    Normalize <- MCNormalize
    StateMapping <- MCStateMapping
    MetadataMapping <- MCMetadataMapping
    NervousFingerThreshold = 15
    User <- MCUser
    Name <- MCUser
    Mention <- MCMention
    Project = {"p1"}
    Issue <- MCIssue
    ProjectOf <- MCProjectOf
    Event <- ReworkEvents
    Run = {t1, t2}
    BatchSize = 2
    SilverAtStart = {"p1"}
    Feed = "in_order"
    MaxRaw = 5
    MaxRepeats = 5
    MaxErrors = 0
    MaxCrashes = 0
SYMMETRY RunSymmetry
INVARIANT CycleCountIsReworkRounds
PROPERTY RefinesSilverLog
