SPECIFICATION Spec
CONSTANTS
    MaxDecimal = 3
    MaxQueries = 2
    Levels = {1, 9}
    Limits = {1, 2}
    Rules <- MCRules
    Relations <- MCRelations
    Ids = {1, 2, 3}
    Exprs <- MCExprs
    Programs <- FewPrograms
    Body <- MCBody
    EntityOf <- MCEntityOf
    Slots <- MCSlots
    Source <- MCSource
    Predicate <- MCPredicate
    Direct <- MCDirect
    Input <- MCInput
    Queries <- MCQueries
    Meaning <- MCMeaning
    MembersOf <- MCMembersOf
INVARIANTS
    MembersSound
    TraceExact
PROPERTIES
    NothingLeftBehind
    NoSecondPass
    ImplementsEvaluation
CHECK_DEADLOCK FALSE
