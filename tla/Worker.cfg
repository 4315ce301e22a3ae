SPECIFICATION FairSpec
CONSTANTS
    Project = {"p1"}
    CronJob = {j1}
    SlotsPerHour = 1
    Deployment = {"mixed", "projects", "no_rate", "bad_retries", "no_password", "bad_schedules"}
    EnvironmentOf <- MCEnvironmentOf
    MaxSetbacks = 2
    j1 = j1
INVARIANTS TypeOK SyncsAreFrequent
PROPERTIES SyncDelivers ShutdownEnds EventuallyInSilver
