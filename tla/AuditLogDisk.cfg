SPECIFICATION Spec
CONSTANTS
    c1 = c1
    c2 = c2
    Calls = {c1, c2}
    CheckpointCalls = {}
    MaxEntries = 1
    HasLog = TRUE
    HasCheckpoint = TRUE
    MaxBytes = 4
    MaxFiles = 2
    Faults = FALSE
    MaxIssued = 7
    MaxRestarts = 1
    Newline = Newline
    Fragment = Fragment
    Free = Free
INVARIANT DiskChainVerifies
PROPERTY RotationDropsOldest
CHECK_DEADLOCK FALSE
