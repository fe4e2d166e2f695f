SPECIFICATION Spec
CONSTANTS
    MaxRows = 3
    Thresholds = {1, 5}
    Cap = 3
    None = None
INVARIANTS
    BindsExactly
    ColumnsExact
    MembersExact
    AnswerExact
PROPERTY Responds
CHECK_DEADLOCK FALSE
