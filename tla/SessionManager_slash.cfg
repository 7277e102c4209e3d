SPECIFICATION Spec
CONSTANTS
    s1 = s1
    t1 = t1
    t2 = t2
    t3 = t3
    Sid <- OneSession
    Task <- ThreeRequests
    NoSid = NoSid
    NoTask = NoTask
SYMMETRY Interchangeable
INVARIANTS
    MessageStartsRun
CHECK_DEADLOCK FALSE
