CONSTANTS
    d = d
    sub = sub
    a4 = a4
    a6 = a6
    Names <- MCNames
    IP4 = {a4}
    IP6 = {a6}
    Ports = {80}
    Policies <- MCPolicies
    Answers <- MCAnswers
    Networks = {"tcp", "udp"}
    Calls = {c1, c2}
    MaxLookups = 1
SPECIFICATION FairSpec
INVARIANTS OnlyPermittedDialled ConnectionOwned
PROPERTIES DialEnds
CHECK_DEADLOCK FALSE
