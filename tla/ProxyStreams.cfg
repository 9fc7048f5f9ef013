CONSTANTS
    Conns = {c1, c2}
    Streams = {s1, s2, s3}
    NoConn = NoConn
    MaxActiveStreams = 2
    MaxStreamsPerConnection = 1
    MaxCompressedStreams = 1
    Compression = TRUE
SPECIFICATION FairSpec
INVARIANTS HandlerOwns
PROPERTIES UsesBudgets ClosedRetires
