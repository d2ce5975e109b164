SPECIFICATION Spec
CONSTANTS
    r1 = r1
    r2 = r2
    Requests = {r1}
    Inputs <- Routes
    AllowedAzp = {"mcp"}
    HasDeadline = FALSE
    HashAudit = TRUE
    HasSalt = TRUE
    ExchangeEnabled = TRUE
    MaxRestarts = 0
INVARIANTS ForwardedIsEntitled ReadersNeverWrite SecretsNeedTheirScope NoSpuriousRefusal
CHECK_DEADLOCK FALSE
