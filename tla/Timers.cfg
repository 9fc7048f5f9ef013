SPECIFICATION TimersSpec
CONSTANTS
    NewFlowsPerSecond = 2
    Second = 3
    MaxLag = 4
    Idles <- IdlePairs
    Delay = 2
    Handshake = 5
INVARIANTS RateExact DetectorExact
