SPECIFICATION Spec
CONSTANTS
    MaxDecimal = 6
    Exprs <- MCExprs
    Rows = {1, 2}
    Rules <- MCRules
    Programs <- MCPrograms
    Status <- MCStatus
    KindOf <- MCKindOf
    Body <- MCBody
    Rounds <- MCRounds
    Cells <- MCCells
    Requests <- MCRequests
    Levels = {0, 3}
    Meaning <- MCMeaning
    Rest <- MCRest
    Touches <- MCTouches
    Reaches <- MCReaches
    Steps <- MCSteps
INVARIANTS ColumnSound FastEqualsExplain DeclineJustified
PROPERTY Responds
CHECK_DEADLOCK FALSE
