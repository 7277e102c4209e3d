SPECIFICATION Spec
CONSTANTS
    MaxSteps = 3
    AutoCompact = TRUE
    MaxTurns = 3
    MaxCalls = 4
    MaxPerReply = 2
INVARIANTS
    TypeOK
    RequestIsPaired
    AnswersItsMessage
    ResultsHaveCalls
PROPERTIES
    OutputIsKept
CHECK_DEADLOCK FALSE
