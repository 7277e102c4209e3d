SPECIFICATION Spec
CONSTANTS
    MaxSteps = 3
    AutoCompact = TRUE
    MaxTurns = 3
    MaxCalls = 2
    MaxPerReply = 2
INVARIANTS
    HistoryIsSendable
CHECK_DEADLOCK FALSE
