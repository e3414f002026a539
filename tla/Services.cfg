SPECIFICATION ServicesSpec
CONSTANTS
    Writer = {w1, w2}
    NoHolder = noholder
    Importer = importer
    Key = {k1, k2}
    Val = {v1}
    Stamp = k2
    Today = v1
    Unset = unset
    Imported = imported
    Missing = missing
    Damaged = damaged
    MaxImport = 2
    Adapter = {a1, a2}
    Provider = {p1, p2}
    Original = original
    Nothing = nothing
    MaxMishap = 3
    Channel = {h1, h2}
    Request = {r1, r2, r3}
    Packet = {m1, m2}
    Plain = plain
    MaxChan = 2
    MaxLane = 2
    MaxReplays = 1
    MaxAttempts = 2
    MaxHistory = 1
    MaxQueue = 1
    MaxSend = 2
    Caller = {q1, q2, q3}
    NoCaller = nocaller
    MaxStreams = 1
    MaxConnect = 2
    Strategies = 4
    BestRank = 1
    FullRank = 1
    Conditions = {c1, c2}
    MaxSearch = 1
    Transport <- TransportPackets
    Garbage <- GarbagePackets
    MaxPackets = 2
    MaxMessages = 2
    MaxPings = 1
    MaxMessage = 2
INVARIANTS
    ServicesTypeOK
    DnsCanBeRestored
    LaneAccounting
    NoLostWakeup
    TornImportKeepsBackups
    SearchIsAllOrNothing
    BridgeIsFaithful
PROPERTY
    StoreIsAtomic
    ReplaysAreBounded
SYMMETRY Symmetry
CHECK_DEADLOCK FALSE
