SPECIFICATION FairSpec
CONSTANTS
    own = own
    other = other
    OwnReq <- OneOwn
    ForeignReq <- OneOther
    ReplayReq <- OneOther
    None = None
    MaxMessages = 2
    MaxLinks = 2
    MaxEffort = 3
    MaxForeign = 1

    
PROPERTIES
    WaitsEnd
CHECK_DEADLOCK FALSE
