CONSTANTS
    w1 = w1
    w2 = w2
    w3 = w3
    Worker = {w1, w2, w3}
    NoWorker = NoWorker
    MaxToken = 2
SPECIFICATION FairSpec
CHECK_DEADLOCK FALSE
INVARIANTS TypeOK Serialised StaleTokensSignalled
PROPERTIES NewestWins DesiredFollowsNewest ClosedIsFinal NewestIsServed ImplementsLatestIntent
