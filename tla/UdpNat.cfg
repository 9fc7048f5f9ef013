CONSTANTS
    FlowKeys = {k1, k2, k3}
    Flows = {f1}
    Workers = {w1, w2}
    None = None
    MaxFlows = 2
    QueueSize = 1
    NewFlowsPerSecond = 1
SPECIFICATION FairSpec
INVARIANTS TableExact SocketOwned NothingBeforeAuth
PROPERTIES ServedOrClosed
CHECK_DEADLOCK FALSE
