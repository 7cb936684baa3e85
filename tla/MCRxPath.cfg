SPECIFICATION FairSpec
CONSTANTS
    Ring = 2
    CacheLen = 2
    SeqMod = 2
    MaxFrags = 2
    MaxMsdus = 3
    MaxTimes = 2
    MaxErrs = 1
INVARIANTS
    Delivered
    NothingLost
PROPERTIES
    RingServed
CHECK_DEADLOCK FALSE
