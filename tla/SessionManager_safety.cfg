SPECIFICATION FairSpec
CONSTANTS
    s1 = s1
    t1 = t1
    t2 = t2
    t3 = t3
    Sid <- OneSession
    Task <- ThreeRequests
    NoSid = NoSid
    NoTask = NoTask
INVARIANTS
    TypeOK
    SessionExclusion
    SnapshotCurrent
    OutputFollowsItsMessage
    MetaIndexesOutput
    MetaCurrent
PROPERTIES
    Refinement
    ClosedIsFinal
    LockIsReleased
CHECK_DEADLOCK FALSE
