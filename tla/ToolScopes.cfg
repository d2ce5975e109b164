SPECIFICATION Spec
CONSTANTS
    PageSize = 2
    CursorMax = 3
    Table <- Tools
    Calls <- EventCalls
    Configs <- Deployments
INVARIANTS
    DocumentedScopesSuffice
CHECK_DEADLOCK FALSE
