CONSTANTS
    Conns = {c1, c2}
    MaxConnections = 2
    Dials = {d1}
SPECIFICATION FairSpec
INVARIANTS SlotsExact ReturnLeavesNothing
PROPERTIES ListenersReturn
CHECK_DEADLOCK FALSE
