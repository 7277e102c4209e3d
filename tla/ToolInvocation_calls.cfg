SPECIFICATION FairSpec
CONSTANTS
    s1 = s1
    s2 = s2
    c1 = c1
    c2 = c2
    bash = bash
    read_file = read_file
    Session <- Sessions
    Call <- TwoCalls
    Tool <- Tools
    Bash = bash
    Subject <- Subjects
    Default <- Defaults
    TimeoutOn = TRUE
    Losable <- NoSession
    MaxRestarts = 0
    MaxRetries = 2
INVARIANTS
    TypeOK
    ExecutedWithConsent
    PromptIsClosed
    ReportedOnce
PROPERTIES
    CallEnds
CHECK_DEADLOCK FALSE
