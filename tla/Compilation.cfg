SPECIFICATION Spec
CONSTANTS
    Rules <- MCRules
    Relations <- MCRelations
    EntityKinds <- MCEntityKinds
    Programs <- MCPrograms
    WrittenPrograms <- MCWritten
    NoKind <- None
    SCALAR_ENTITY <- Scalar
INVARIANTS
    KindsExact
    DirectionAgrees
    ExecutedExact
    KindsMeet
    OrderExact
    InterfaceCovers
CHECK_DEADLOCK FALSE
