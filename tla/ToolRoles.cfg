SPECIFICATION Spec
CONSTANTS
    PageSize = 2
    CursorMax = 3
    Table <- Tools
    Calls <- AllCalls
    Configs <- Deployments
INVARIANTS
    WritersHoldWriteRole
CHECK_DEADLOCK FALSE
