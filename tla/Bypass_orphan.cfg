CONSTANTS
    w1 = w1
    w2 = w2
    w3 = w3
    s1 = s1
    s2 = s2
    Worker = {w1, w2}
    NoWorker = NoWorker
    MaxToken = 3
    Pid = {1, 2, 3}
    Strategy = {s1}
    None = None
    Faults = {}
    Ops = {"start", "search", "toggle"}
    MaxTrials = 1
    MaxBoots = 0
SYMMETRY Symmetry
SPECIFICATION Spec
CHECK_DEADLOCK FALSE
INVARIANT NoOrphan
