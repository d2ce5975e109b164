SPECIFICATION LiveSpec
CONSTANTS
    c1 = c1
    c2 = c2
    Calls = {c1, c2}
    CheckpointCalls = {c1, c2}
    MaxEntries = 2
    HasLog = TRUE
    HasCheckpoint = TRUE
    MaxBytes = 4
    MaxFiles = 2
    Faults = TRUE
    MaxIssued = 4
    MaxRestarts = 1
    Newline = Newline
    Fragment = Fragment
    Free = Free
INVARIANTS TypeOK RingIsChainTail CheckpointWithinLines
PROPERTIES WindowSpec EveryCallEnds
CHECK_DEADLOCK FALSE
