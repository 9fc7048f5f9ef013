CONSTANTS
    Conns = {c1}
    Keys = {k1, k2}
    NoKey = NoKey
    MaxConnections = 1
    MaxOverlap = 1
    MaxTime = 1
SPECIFICATION FairSpec
INVARIANTS NoRemovedKeySession ReadyBeforeReply
PROPERTIES ImplementsSession ShutdownCompletes UnacceptedExpelled
