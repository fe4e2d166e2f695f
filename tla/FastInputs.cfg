SPECIFICATION Spec
CONSTANTS
    MaxRecords = 3
    Default = 0
    Year <- MCYear
    Requests <- MCRequests
INVARIANT FastReturnsWhatExplainReturns
CHECK_DEADLOCK FALSE
