SPECIFICATION LinkSpec
CONSTANTS
    Aps <- MCAps
    Airs <- MCAirs
    Packets <- MCPackets
    Fts = {257, 2342}
    Rts = {2347}
    MaxJoins = 2
    MaxChanges = 1
INVARIANTS
    Agreed
    BeaconsTakeEffect
    Fragmented
CHECK_DEADLOCK FALSE
