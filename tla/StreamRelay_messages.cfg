\* Every message of up to five lines before its end, from both providers on both
\* endpoints, whole, broken or cut short anywhere.
CONSTANTS
    Texts = {"hel", "lo"}
    ToolIDs = {"call_1", "call_2"}
    InTokens = 3
    OutTokens = 5
    MaxLines = 5
SPECIFICATION Spec
INVARIANTS StreamTypeOK TextSurvives ChatStreamEndsOnce ToolPiecesKeepTheirCall
INVARIANTS UsageIsTheFinalCount NothingSaidIsRetried
CHECK_DEADLOCK FALSE
