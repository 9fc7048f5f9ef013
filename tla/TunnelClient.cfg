CONSTANTS
    Callers = {o1, o2}
    Tunnels = {t1, t2}
    Sessions = {u1, u2}
    NoTunnel = NoTunnel
    MaxActiveStreams = 1
    MaxPendingRequests = 1
    MaxCompressedStreams = 1
    MaxUDPSessions = 1
    RecvSize = 1
    Compression = TRUE
SPECIFICATION FairSpec
INVARIANTS NoLostWakeup NoSessionOutlivesRun
PROPERTIES UsesBudgets EndsSettle
