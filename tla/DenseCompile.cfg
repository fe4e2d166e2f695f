SPECIFICATION MCSpec
CONSTANTS
    Programs <- MCPrograms
    Requests <- MCAllRequests
    Thresholds = {1, 2, 9}
    MaxInline = 4
    Unnamed = Unnamed
    Scalar = "Scalar"
INVARIANTS
    RefusalsExact
    RegisteredAsRecursed
    ReferencesExact
    IndexExact
CHECK_DEADLOCK FALSE
