SPECIFICATION RotationSpec
CONSTANTS
    Clients = {c1, c2}
    Week = 2
    MaxTime = 2
INVARIANT InvalidPairRejected
