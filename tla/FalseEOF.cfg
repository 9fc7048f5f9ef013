CONSTANT MaxFrames = 1
SPECIFICATION ExchangeSpec
INVARIANT NoFalseEOF
CHECK_DEADLOCK FALSE
