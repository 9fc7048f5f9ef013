SPECIFICATION FairRotation
CONSTANTS
    Clients = {c1, c2}
    Week = 2
    MaxTime = 2
INVARIANTS LoadedIsSound NoLockout
PROPERTY SignalApplied
