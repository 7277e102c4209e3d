SPECIFICATION Spec
CONSTANTS
    r1 = r1
    r2 = r2
    c1 = c1
    c2 = c2
    Run <- Runs
    Client <- Clients
    Flaky <- OneClient
    Cancellable <- OneRun
    Unwritable <- OneLine
    Wish <- Wishes
    Global = global
    Nobody = nobody
    LastEvent <- Lengths
INVARIANTS
    NoGap
CHECK_DEADLOCK FALSE
