CONSTANTS
    w1 = w1
    w2 = w2
    w3 = w3
    s1 = s1
    s2 = s2
    Worker = {w1, w2}
    NoWorker = NoWorker
    MaxToken = 2
    Pid = {1, 2, 3}
    Strategy = {s1}
    None = None
    Faults = {"stop", "context"}
    Ops = {"stop", "search", "fix", "autoStop", "lists", "quit"}
    MaxTrials = 1
    MaxBoots = 0
SPECIFICATION FairSpec
CHECK_DEADLOCK FALSE
PROPERTIES EveryOperationEnds QuitTerminates
