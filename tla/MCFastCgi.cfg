SPECIFICATION Spec
CONSTANTS
    Requests = {1, 2}
    Ids = {1, 2}
    Workloads <- MCWorkloads
    Fragments = {1, 5}
    MaxParams = 13
    MaxBody = 2
    MaxField = 3
    MaxRecord = 4
    NoRequest = NoRequest
    Width = 8
    LenWidth = 4
    RuneWidth = 3
    MaxStringScratch = 6
INVARIANTS
    TypeOK
    EndedExactlyOnce
    AnswerIsOfThisRequest
CHECK_DEADLOCK FALSE
