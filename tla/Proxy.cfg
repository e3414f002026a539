SPECIFICATION ProxySpec
CONSTANTS
    Socket = {s1, s2, s3}
    PoolSize = 2
    Client = {c1, c2}
    NoSocket = nosocket
    AppWorker = {t1}
    Nobody = nobody
INVARIANTS
    ProxyTypeOK
    SocketsAreAccounted
    StopIsHeard
    OverMeansOver
SYMMETRY Symmetry
CHECK_DEADLOCK FALSE
