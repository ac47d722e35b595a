\* Do tool calls reach the client whatever the upstream?
CONSTANTS
    Texts = {"hel", "lo"}
    ToolIDs = {"call_1", "call_2"}
    InTokens = 3
    OutTokens = 5
    MaxLines = 5
SPECIFICATION Spec
INVARIANTS ToolCallsReachTheClient
CHECK_DEADLOCK FALSE
