SPECIFICATION Spec
CONSTANTS
    c1 = c1
    c2 = c2
    Calls = {c1, c2}
    CheckpointCalls = {}
    MaxEntries = 1
    HasLog = TRUE
    HasCheckpoint = TRUE
    MaxBytes = 2
    MaxFiles = 2
    Faults = TRUE
    MaxIssued = 5
    MaxRestarts = 1
    Newline = Newline
    Fragment = Fragment
    Free = Free
SYMMETRY Symmetry
INVARIANT DiskInOrder
CHECK_DEADLOCK FALSE
