SPECIFICATION FairSpec
CONSTANTS
    Dog = dog
    User = user
    NoWorker = nobody
    None = none
    s1 = s1
    s2 = s2
    s3 = s3
    Strategy = {s1, s2, s3}
    Pool <- MCPool
    Service = {discord}
    Booted = {"manual", "service"}
    MaxToken = 2
    MaxEvents = 2
CHECK_DEADLOCK FALSE
INVARIANTS RecoveryTypeOK StopSurvivesRecovery CommitsOrRollsBack BoundedRetries HealthIsCurrent
PROPERTY OfflineBlacklistsNobody
