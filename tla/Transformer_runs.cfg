SPECIFICATION FairSpec
CONSTANTS
    Label <- MCLabel
    Normalize <- MCNormalize
    StateMapping <- MCStateMapping
    MetadataMapping <- MCMetadataMapping
    NervousFingerThreshold = 15
    User <- MCUser
    Name <- MCUser
    Mention <- MCMention
    Project = {"p1", "p2"}
    Issue <- TwoIssues
    ProjectOf <- TwoProjects
    Event <- MixedEvents
    Run = {t1, t2}
    BatchSize = 1
    SilverAtStart = {"p1"}
    Feed = "any_order"
    MaxRaw = 2
    MaxRepeats = 1
    MaxErrors = 1
    MaxCrashes = 1
INVARIANTS TypeOK ProcessedIsRecorded RecordedOnce CacheIsRecorded
PROPERTIES SilverIsAppendOnly EventuallyProcessed
