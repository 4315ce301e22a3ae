SPECIFICATION Spec
CONSTANTS
    Label <- MCLabel
    Normalize <- MCNormalize
    StateMapping <- MCStateMapping
    MetadataMapping <- MCMetadataMapping
    NervousFingerThreshold = 15
    User <- MCUser
    Name <- MCUser
    Mention <- MCMention
    Project = {"p1"}
    Issue <- MCIssue
    ProjectOf <- MCProjectOf
    Event <- DocumentEvents
    Run = {t1}
    BatchSize = 2
    SilverAtStart = {"p1"}
    Feed = "any_order"
    MaxRaw = 3
    MaxRepeats = 3
    MaxErrors = 1
    MaxCrashes = 0
PROPERTY IssueRowsSurvive
