SPECIFICATION MCSpec
CONSTANTS
    Nets = {n1}
    Wep = {"WEP40"}
    Wpa = {"TKIP", "CCMP"}
    None = None
    Zero = Zero
    Bcast = Bcast
    WepKeys = 2
    Objs = {o1, o2}
    Smp = FALSE
    MaxOps = 4
    Algs = {"WEP", "TKIP", "CCMP"}
    IvMod = 2
    Byte = 5
    KLen = 4
    MaxHigh = 2
    MaxKeys = 2
    MaxSent = 4
INVARIANTS
    NumbersAgree
    
PROPERTIES
    StreamsFit
    RetiredFreed
CHECK_DEADLOCK FALSE
