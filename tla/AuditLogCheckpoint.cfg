SPECIFICATION Spec
CONSTANTS
    c1 = c1
    c2 = c2
    Calls = {c1, c2}
    CheckpointCalls = {c1, c2}
    MaxEntries = 2
    HasLog = TRUE
    HasCheckpoint = TRUE
    MaxBytes = 0
    MaxFiles = 0
    Faults = FALSE
    MaxIssued = 3
    MaxRestarts = 1
    Newline = Newline
    Fragment = Fragment
    Free = Free
SYMMETRY Symmetry
INVARIANT NoSilentDeletion
CHECK_DEADLOCK FALSE
