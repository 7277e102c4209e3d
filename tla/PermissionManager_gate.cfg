SPECIFICATION Spec
CONSTANTS
    s1 = s1
    s2 = s2
    c1 = c1
    c2 = c2
    c3 = c3
    bash = bash
    write_file = write_file
    Session <- Sessions
    Call <- ThreeCalls
    Tool <- Tools
    Bash = bash
    Subject <- Subjects
    Default <- AskForAll
    TimeoutOn = TRUE
    Losable <- OnlyS2
    MaxRestarts = 1
SYMMETRY Interchangeable
INVARIANTS
    TypeOK
    AllowNeedsConsent
    AnswerIsOwn
    PendingIsAwaited
    MemoryIsTaken
CHECK_DEADLOCK FALSE
