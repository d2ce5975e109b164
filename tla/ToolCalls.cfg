SPECIFICATION LiveSpec
CONSTANTS
    PageSize = 2
    CursorMax = 3
    Table <- Tools
    Calls <- AllCalls
    Configs <- Deployments
INVARIANTS
    TypeOK
    SuccessIsComplete
    NeverRefusedHalfway
    ScopesSuffice
    GatedWritersHoldWriteRole
    SecretsNeedSwitchAndScope
PROPERTIES
    EveryCallEnds
CHECK_DEADLOCK FALSE
