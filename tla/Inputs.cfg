SPECIFICATION Spec
CONSTANTS
    MaxRecords = 3
    Default = 0
    Year <- MCYear
    Requests <- MCRequests
INVARIANTS
    TiesSettled
    PeriodReadsAgree
CHECK_DEADLOCK FALSE
