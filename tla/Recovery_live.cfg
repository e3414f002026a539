SPECIFICATION FairSpec
CONSTANTS
    Dog = dog
    User = user
    NoWorker = nobody
    None = none
    s1 = s1
    s2 = s2
    s3 = s3
    Strategy = {s1, s2}
    Pool <- MCPool
    Service = {discord, youtube}
    Booted = {"manual"}
    MaxToken = 2
    MaxEvents = 2
CHECK_DEADLOCK FALSE
PROPERTY DeadBypassIsRetried
