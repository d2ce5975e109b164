SPECIFICATION Spec
CONSTANTS
    r1 = r1
    r2 = r2
    Requests = {r1, r2}
    Inputs <- Flawed
    AllowedAzp = {"mcp"}
    HasDeadline = FALSE
    HashAudit = TRUE
    HasSalt = TRUE
    ExchangeEnabled = TRUE
    MaxRestarts = 0
SYMMETRY Symmetry
INVARIANT EveryForwardedIsAudited
CHECK_DEADLOCK FALSE
