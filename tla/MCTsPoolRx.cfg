CONSTANTS
    Dir = "RX"
    NumTs = 3
    Addrs = {a1, a2}
    Group = group
    TIDs <- MCTIDs
SPECIFICATION PoolSpec
PROPERTIES
    KeepsRecord
