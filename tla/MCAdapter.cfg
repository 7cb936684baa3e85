SPECIFICATION MCSpec
CONSTANTS
    ImageLen <- MCImages
    Threshold = 2936
    CmdEntries = 64
    FwRetries = 2
    ResetTimes = 1
    MaxHangs = 1
    MaxCalls = 3
    Plan = {1, 4, 6}
    Net = 6
    MaxRequests = 5
INVARIANTS
    
    Orderly
    
PROPERTIES
    
    SwitchEnds
CHECK_DEADLOCK FALSE
