SPECIFICATION FairSpec
CONSTANTS
    s1 = s1
    s2 = s2
    c1 = c1
    c2 = c2
    c3 = c3
    bash = bash
    write_file = write_file
    Session <- Sessions
    Call <- TwoCalls
    Tool <- Tools
    Bash = bash
    Subject <- OneSubject
    Default <- AskForAll
    TimeoutOn = FALSE
    Losable <- Sessions
    MaxRestarts = 0
PROPERTIES
    DisconnectRejects
CHECK_DEADLOCK FALSE
