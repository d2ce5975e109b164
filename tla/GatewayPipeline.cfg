SPECIFICATION LiveSpec
CONSTANTS
    r1 = r1
    r2 = r2
    Requests = {r1, r2}
    Inputs <- Flawed
    AllowedAzp = {}
    HasDeadline = TRUE
    HashAudit = TRUE
    HasSalt = TRUE
    ExchangeEnabled = TRUE
    MaxRestarts = 1
INVARIANTS TypeOK StatusTellsEffect
PROPERTIES GateSpec EveryRequestEnds
CHECK_DEADLOCK FALSE
