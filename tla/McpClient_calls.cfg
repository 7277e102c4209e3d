SPECIFICATION FairSpec
CONSTANTS
    s1 = s1
    s2 = s2
    c1 = c1
    c2 = c2
    Server <- TwoServers
    Name = {"files"}
    NameOf <- Namesakes
    Used <- Second
    Order <- InOrder
    Caller <- TwoCalls
    Boot = Boot
    None = None
    Retries <- OneRetry
    OwnIds = {3}
    MaxLines <- Unread
INVARIANTS
    TypeOK
    OwnResponse
    NoneLeftRunning
PROPERTIES
    CallsEnd
CHECK_DEADLOCK FALSE
