CONSTANTS
    Call = {"x1", "x2"}
    Session = {"n1"}
    Build = {"b1", "b2"}
    Skew = 0
    MaxTime = 1
    MaxEvents = 2
    MaxStarts = 2
    MaxTimeouts = 2
    Settings <- TheSettings
    Artifact <- TheArtifacts
    Ask <- TheAsks
SPECIFICATION Spec
INVARIANTS
    TypeOK
    AdmittedOnEvidence
    
    RoutedByItsSession
    
    SnapshotAccountsForCalls
PROPERTIES
    EveryRequestEnds
CHECK_DEADLOCK FALSE
