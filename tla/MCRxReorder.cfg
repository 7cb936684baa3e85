CONSTANTS
    WinSize = 4
    EntryNum = 4
    ArraySize = 6
    Starts <- MCStarts
    Offsets <- MCOffsets
    Frames <- MCFrames
SPECIFICATION Spec
INVARIANTS
    NoEntryLost
    
    IndicateArrayBound
    LoopSettles
PROPERTIES
    InOrder
    ImplementsWindow
