SPECIFICATION MCSpec
CONSTANTS
    Rssi = {33, 38, 52, 65, 80}
    MaxEvents = 4
    Levels = {29, 47, 97}
    Defaults = {2, 16, 18}
INVARIANTS
    
    ReceiverKept
    FsyncReturned
    
PROPERTIES
    Quiet
