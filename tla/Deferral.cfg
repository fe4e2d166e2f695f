SPECIFICATION Spec
CONSTANTS
    MaxDecimal = 3
    MaxQueries = 2
    Levels = {0, 2, 9}
    Rules <- MCRules
    Exprs <- MCExprs
    Programs <- MCPrograms
    Status <- MCStatus
    KindOf <- MCKindOf
    Body <- MCBody
    Rounds <- MCRounds
    Meaning <- MCMeaning
    Rest <- MCRest
    Steps <- MCSteps
    Reads <- MCReads
    Passed <- MCPassed
INVARIANTS
    CacheSound
    AnswersSound
    StackBound
    TraceExact
PROPERTY ImplementsEvaluation
CHECK_DEADLOCK FALSE
