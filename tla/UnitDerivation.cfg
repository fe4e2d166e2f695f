SPECIFICATION AggregationSpec
CONSTANTS
    Plans <- MCPlans
    RequestsFor <- MCRequestsFor
    FactOrder <- MCFactOrder
    MaxWorlds = 16
    MaxLearned = 2
    Rules <- MCRules
    Views <- MCViews
    Aggregations <- MCAggregations
    Whole = 2
    Ages = {3, 17, 18}
    Amounts = {0, 2, 20}
INVARIANTS
    BlocksExact
    Elicited
    NothingTakenBack
    FiguresSound
    EqualEverywhere
    AggregateSound
CHECK_DEADLOCK FALSE
