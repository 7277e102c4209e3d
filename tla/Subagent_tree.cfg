SPECIFICATION Spec
CONSTANTS
    MaxRetries = 2
    Profiles <- AllOrPlanner
    MaxChildren = 3
    MaxCalls <- Calls
    Planners <- OnlyRoot
    Dependency = {1}
INVARIANTS
    TypeOK
    NoOrphan
    ResultFollowsReport
    NoStaleBlock
CHECK_DEADLOCK FALSE
