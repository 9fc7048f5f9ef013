CONSTANT MaxFrames = 1
SPECIFICATION FairExchange
INVARIANTS CleanEndKept StreamWhole 
PROPERTIES ExchangeEnds
CHECK_DEADLOCK FALSE
